------------------------------- MODULE Flashfs -------------------------------
(***************************************************************************)
(* src/main/io/flashfs.c: the ring of log bytes, the circular volume it    *)
(* is flushed to, and the erasing done in the background, built with       *)
(* USE_FLASHFS_LOOP as on every target.                                    *)
(*                                                                         *)
(* The log occupies the volume from headAddress (a sector boundary) up to  *)
(* tailAddress, modulo the size; both live in RAM only and are found again *)
(* at boot from which pages look erased.  A page program is a DMA transfer *)
(* whose completion interrupt, flashfsWriteCallback(), advances the tail   *)
(* and frees the ring; the chip is then busy for a while.  A sector erase  *)
(* keeps the chip busy for longer, and some chips can suspend it.          *)
(*                                                                         *)
(* The ring is kept as the number of bytes between its two indices, modulo *)
(* its size; a page of the chip as programmed or erased, which is all that *)
(* flashfsIsPageErased() can tell.                                         *)
(***************************************************************************)
EXTENDS Integers, FiniteSets

CONSTANTS
    PageSize, PagesPerSector, Sectors,  \* geometry of the volume
    BufferSize,     \* FLASHFS_WRITE_BUFFER_SIZE
    Settings        \* the chips and configurations considered

ASSUME FlashfsAssumption ==
    /\ {PageSize, PagesPerSector, Sectors, BufferSize} \subseteq Nat \ {0}
    /\ Settings \subseteq [rolling : BOOLEAN, initialFree : Nat, fullErase : BOOLEAN,
                           canSuspend : BOOLEAN, mode : {"NORMAL", "ARMED", "SWITCH"},
                           erases : BOOLEAN]
    /\ Sectors > 1
    /\ PageSize + BufferSize < PagesPerSector * PageSize

SectorSize == PagesPerSector * PageSize
Size       == Sectors * SectorSize
Threshold  == (BufferSize - 1) \div 2       \* FLASHFS_SUSPEND_THRESHOLD

Page    == 0 .. Sectors * PagesPerSector - 1
Sector  == 0 .. Sectors - 1
Address == 0 .. Size - 1

State == {"IDLE", "ALL_ERASING", "INITIAL_ERASING", "ROLLING_ERASE_PENDING",
          "ROLLING_ERASING", "ROLLING_ERASE_SUSPENDING", "ROLLING_ERASE_SUSPENDED"}

VARIABLES
    settings,       \* the chip and the configuration, fixed at boot
    state, headAddress, tailAddress,
    buffered,       \* bufferHead - bufferTail, modulo BufferSize
    dataWritten,    \* no transfer is waiting for its callback
    sectorsLeft,    \* sectors an initial or a complete erase has yet to do
    sync,           \* where a running flashfsFlushSync() is, or "NO"
    syncBytes,      \* bytes in the ring when it was called
    \* the chip and its driver
    programmed,     \* pages that do not look erased
    inflight,       \* bytes of the DMA transfer in progress, or 0
    writeAt,        \* address of the last page program
    busy,           \* "NO", "PROGRAM" or "ERASE"
    erasing,        \* sectors whose erase has begun and not ended
    suspend         \* "NO", "REQUESTED" or "SUSPENDED"

fsVars   == <<state, headAddress, tailAddress, buffered, dataWritten, sectorsLeft>>
syncVars == <<sync, syncBytes>>
chipVars == <<programmed, inflight, writeAt, busy, erasing, suspend>>
flashfsVars == <<fsVars, syncVars, chipVars>>

Rolling     == settings.rolling     \* blackbox_rolling_erase
InitialFree == settings.initialFree \* blackbox_initial_erase_kb, in bytes
FullErase   == settings.fullErase   \* the volume is the whole chip: one command erases it
CanSuspend  == settings.canSuspend  \* the chip supports erase suspend

Least(a, b) == IF a < b THEN a ELSE b
PageOf(a)   == a \div PageSize
SectorOf(a) == a \div SectorSize
PagesOf(sectors) == {p \in Page : p \div PagesPerSector \in sectors}

flashfsAddressShift(a, offset) == (a + offset) % Size

\* Bytes of the volume in use, with what the ring holds and without.
flashfsGetOffset(ring) == flashfsAddressShift(tailAddress + ring, -headAddress)
Persisted              == flashfsAddressShift(tailAddress, -headAddress)

\* Mutant: the page that marks the head is not kept free.
flashfsIsEOF_late == Persisted >= Size - 1

flashfsIsEOF == Persisted >= Size - PageSize - BufferSize

flashIsReady   == inflight = 0 /\ busy = "NO"
flashfsIsReady == flashIsReady /\ state \in {"IDLE", "ROLLING_ERASE_SUSPENDED"}

-----------------------------------------------------------------------------
(* The chip. *)

\* flashEraseSector(), flashEraseCompletely(): a chip with a suspended erase
\* does not take another one.
StartErase(sectors) ==
    IF suspend = "SUSPENDED" THEN UNCHANGED chipVars
    ELSE /\ busy' = "ERASE" /\ erasing' = sectors
         /\ UNCHANGED <<programmed, inflight, writeAt, suspend>>

\* The transfer of a page program ends: flashfsWriteCallback().
flashfsWriteCallback ==
    /\ inflight > 0
    /\ tailAddress' = flashfsAddressShift(tailAddress, inflight)
    /\ buffered' = (buffered - inflight) % BufferSize
    /\ dataWritten' = TRUE
    /\ inflight' = 0 /\ busy' = "PROGRAM"
    /\ UNCHANGED <<state, headAddress, sectorsLeft, syncVars, programmed, writeAt,
                   erasing, suspend>>

ProgramDone ==
    /\ busy = "PROGRAM"
    /\ busy' = "NO" /\ programmed' = programmed \cup {PageOf(writeAt)}
    /\ UNCHANGED <<fsVars, syncVars, inflight, writeAt, erasing, suspend>>

\* An erase that ends before the chip has taken the suspend ends it as well.
EraseDone ==
    /\ busy = "ERASE"
    /\ busy' = "NO" /\ erasing' = {} /\ suspend' = "NO"
    /\ programmed' = programmed \ PagesOf(erasing)
    /\ UNCHANGED <<fsVars, syncVars, inflight, writeAt>>

EraseSuspends ==
    /\ CanSuspend /\ busy = "ERASE" /\ suspend = "REQUESTED"
    /\ busy' = "NO" /\ suspend' = "SUSPENDED"
    /\ UNCHANGED <<fsVars, syncVars, programmed, inflight, writeAt, erasing>>

Chip == flashfsWriteCallback \/ ProgramDone \/ EraseDone \/ EraseSuspends

-----------------------------------------------------------------------------
(* Writing. *)

\* Mutant: every page completed asks for an erase, however much is free.
NeedsRollingErase_anySpace(ring, bytes) ==
    /\ state # "ROLLING_ERASE_SUSPENDED" /\ Rolling
    /\ PageOf(tailAddress) # PageOf(tailAddress + bytes)

\* A rolling erase is due once less than a sector is free and this write
\* completes a page.
NeedsRollingErase(ring, bytes) ==
    /\ state # "ROLLING_ERASE_SUSPENDED" /\ Rolling
    /\ Size - flashfsGetOffset(ring) < SectorSize
    /\ PageOf(tailAddress) # PageOf(tailAddress + bytes)

\* Mutant: at the end of the volume no rolling erase is asked for.
flashfsWriteBuffers_stops(ring, bytes) ==
    IF flashfsIsEOF THEN UNCHANGED <<state, dataWritten, inflight, writeAt>>
    ELSE /\ state' = IF NeedsRollingErase(ring, bytes) THEN "ROLLING_ERASE_PENDING" ELSE state
         /\ writeAt' = tailAddress
         /\ inflight' = Least(bytes, PageSize - (tailAddress % PageSize))
         /\ dataWritten' = FALSE

\* flashfsWriteBuffers() once the chip is ready: `ring' is what the ring holds, `bytes'
\* what the caller read off it; flashPageProgramContinue() cuts it at the page's end.
flashfsWriteBuffers(ring, bytes) ==
    IF flashfsIsEOF
    THEN /\ state' = IF Rolling /\ state = "IDLE" THEN "ROLLING_ERASE_PENDING" ELSE state
         /\ UNCHANGED <<dataWritten, inflight, writeAt>>
    ELSE /\ state' = IF NeedsRollingErase(ring, bytes) THEN "ROLLING_ERASE_PENDING" ELSE state
         /\ writeAt' = tailAddress
         /\ inflight' = Least(bytes, PageSize - (tailAddress % PageSize))
         /\ dataWritten' = FALSE

\* Mutant: a chip that cannot suspend is asked to.
MustSuspend_unsupported(used) ==
    ~flashIsReady /\ state = "ROLLING_ERASING" /\ used >= Threshold /\ ~flashfsIsEOF

\* A busy chip that is erasing the head is asked to suspend when the ring
\* fills up.
MustSuspend(used) ==
    /\ ~flashIsReady /\ CanSuspend
    /\ state = "ROLLING_ERASING" /\ used >= Threshold /\ ~flashfsIsEOF

\* What flashfsFlushAsync() does with `used' bytes in the ring.
FlushBuffers(used) ==
    IF used > 0 /\ dataWritten /\ MustSuspend(used)
    THEN /\ state' = "ROLLING_ERASE_SUSPENDING"
         /\ suspend' = IF busy = "ERASE" THEN "REQUESTED" ELSE suspend
         /\ UNCHANGED <<dataWritten, inflight, writeAt>>
    ELSE IF used > 0 /\ dataWritten /\ flashfsIsReady
    THEN flashfsWriteBuffers(used, used) /\ UNCHANGED suspend
    ELSE UNCHANGED <<state, dataWritten, inflight, writeAt, suspend>>

flashfsFlushAsync ==
    /\ FlushBuffers(buffered)
    /\ UNCHANGED <<headAddress, tailAddress, buffered, sectorsLeft, syncVars,
                   programmed, busy, erasing>>

\* Mutant: the slot that tells a full ring from an empty one is used.
AfterWrite_lastSlot(n) == Least(buffered + n, BufferSize)

\* The ring after flashfsWrite() of n bytes: what does not fit is dropped.
AfterWrite(n) == Least(buffered + n, BufferSize - 1)

-----------------------------------------------------------------------------
(* Erasing: flashfsEraseAsync(), from the main task and from the sync flush. *)

eraseResume ==
    /\ state = "ROLLING_ERASE_SUSPENDED" /\ (buffered < Threshold \/ flashfsIsEOF)
    /\ suspend' = "NO" /\ busy' = "ERASE" /\ state' = "ROLLING_ERASING"
    /\ UNCHANGED <<headAddress, sectorsLeft, programmed, inflight, writeAt, erasing>>

eraseAll ==
    /\ state = "ALL_ERASING"
    /\ IF sectorsLeft > 0
       THEN /\ StartErase({Sectors - sectorsLeft}) /\ sectorsLeft' = sectorsLeft - 1
            /\ UNCHANGED state
       ELSE state' = "IDLE" /\ UNCHANGED <<chipVars, sectorsLeft>>
    /\ UNCHANGED headAddress

\* The head moves on before the erase is completed: writes wait for the state.
eraseInitial ==
    /\ state = "INITIAL_ERASING"
    /\ IF sectorsLeft > 0
       THEN /\ StartErase({SectorOf(headAddress)}) /\ sectorsLeft' = sectorsLeft - 1
            /\ headAddress' = flashfsAddressShift(headAddress, SectorSize)
            /\ UNCHANGED state
       ELSE state' = "IDLE" /\ UNCHANGED <<chipVars, headAddress, sectorsLeft>>

eraseRolling ==
    \/ /\ state = "ROLLING_ERASE_PENDING"
       /\ StartErase({SectorOf(headAddress)})
       /\ state' = "ROLLING_ERASING" /\ UNCHANGED <<headAddress, sectorsLeft>>
    \/ /\ state = "ROLLING_ERASING"
       /\ state' = "IDLE" /\ headAddress' = flashfsAddressShift(headAddress, SectorSize)
       /\ UNCHANGED <<chipVars, sectorsLeft>>

eraseSuspending ==
    /\ state = "ROLLING_ERASE_SUSPENDING" /\ suspend = "SUSPENDED"
    /\ state' = "ROLLING_ERASE_SUSPENDED"
    /\ UNCHANGED <<chipVars, headAddress, sectorsLeft>>

flashfsEraseAsync ==
    /\ flashIsReady
    /\ eraseAll \/ eraseInitial \/ eraseRolling \/ eraseSuspending \/ eraseResume
    /\ UNCHANGED <<tailAddress, buffered, dataWritten, syncVars>>

-----------------------------------------------------------------------------
(* The blocking flush, which every read of the volume begins with.  Nothing *)
(* but the chip's interrupt runs while it waits.                            *)

flashfsFlushSync ==
    /\ sync = "NO" /\ buffered > 0
    /\ sync' = "READY" /\ syncBytes' = buffered
    /\ UNCHANGED <<fsVars, chipVars>>

\* while (!flashIsReady()); while (state != IDLE) flashfsEraseAsync();
syncWait ==
    /\ sync = "READY" /\ flashIsReady
    /\ sync' = "IDLE" /\ UNCHANGED <<fsVars, syncBytes, chipVars>>

\* Mutant: the wait does not drive the erase.
syncErase_waits == sync = "IDLE" /\ state # "IDLE" /\ UNCHANGED flashfsVars

syncErase == sync = "IDLE" /\ state # "IDLE" /\ flashfsEraseAsync

syncWrite ==
    /\ sync = "IDLE" /\ state = "IDLE"
    /\ flashfsWriteBuffers(buffered, syncBytes)
    /\ sync' = "DRAIN"
    /\ UNCHANGED <<headAddress, tailAddress, buffered, sectorsLeft, syncBytes,
                   programmed, busy, erasing, suspend>>

syncDone ==
    /\ sync = "DRAIN" /\ flashIsReady
    /\ sync' = "NO" /\ syncBytes' = 0
    /\ UNCHANGED <<fsVars, chipVars>>

FlushSyncStep == syncWait \/ syncErase \/ syncWrite \/ syncDone

-----------------------------------------------------------------------------
(* What the logger calls.  Each sets buffered' itself. *)

\* flashfsClose() drops what is buffered and moves the tail to the next page.
flashfsClose ==
    /\ buffered' = 0
    /\ tailAddress' = flashfsAddressShift(tailAddress, (-tailAddress) % PageSize)
    /\ UNCHANGED <<state, headAddress, dataWritten, sectorsLeft, chipVars>>

\* flashfsEraseCompletely(), by one command or sector by sector.
flashfsEraseCompletely ==
    /\ IF FullErase
       THEN StartErase(Sector) /\ UNCHANGED <<state, sectorsLeft>>
       ELSE state' = "ALL_ERASING" /\ sectorsLeft' = Sectors /\ UNCHANGED chipVars
    /\ buffered' = 0
    /\ headAddress' = 0 /\ tailAddress' = 0
    /\ UNCHANGED dataWritten

\* flashfsLoopInitialErase(): the sectors that make InitialFree bytes free.
flashfsLoopInitialErase ==
    LET needed == flashfsGetOffset(buffered) + InitialFree - Size IN
    /\ IF state = "IDLE" /\ needed > 0
       THEN /\ sectorsLeft' = (needed + SectorSize - 1) \div SectorSize
            /\ state' = "INITIAL_ERASING"
       ELSE UNCHANGED <<state, sectorsLeft>>
    /\ UNCHANGED <<headAddress, tailAddress, buffered, dataWritten, chipVars>>

-----------------------------------------------------------------------------
(* flashfsInit(): the log is found again from the pages that look erased. *)

\* flashfsIdentifyStartOfUsedSpace(): the first sector that begins with data
\* after a page without.
StartOfUsedSpace(pages) ==
    LET boundary == {s \in Sector \ {0} : /\ s * PagesPerSector - 1 \notin pages
                                          /\ s * PagesPerSector \in pages}
    IN  IF boundary = {} THEN 0
        ELSE (CHOOSE s \in boundary : \A t \in boundary : s <= t) * SectorSize

\* The page `mid' pages after the head.
PageAfter(head, mid) == (PageOf(head) + mid) % (Sectors * PagesPerSector)

\* Mutant: the search is from the wrong end, for the last erased page.
StartOfFreeSpace_fromEnd(pages, head) ==
    LET erased == {mid \in 0 .. Sectors * PagesPerSector - 1 : PageAfter(head, mid) \notin pages}
        first  == IF erased = {} THEN 0 ELSE CHOOSE m \in erased : \A n \in erased : m >= n
    IN  PageAfter(head, first) * PageSize

\* flashfsIdentifyStartOfFreeSpace(): a binary search for the first erased
\* page after the head; the last page is never a candidate.
StartOfFreeSpace(pages, head) ==
    LET last == Sectors * PagesPerSector - 1
        search[w \in (0 .. last) \X (0 .. last)] ==
            LET left == w[1]  right == w[2]  mid == (left + right) \div 2
            IN  IF left >= right THEN right
                ELSE IF PageAfter(head, mid) \notin pages THEN search[<<left, mid>>]
                ELSE search[<<mid + 1, right>>]
    IN  PageAfter(head, search[<<0, last>>]) * PageSize

\* The page being programmed, which may or may not look it yet.
Programming == IF inflight > 0 \/ busy = "PROGRAM" THEN {PageOf(writeAt)} ELSE {}

\* What the chip holds after a power loss or a reset: a page being programmed
\* may or may not show it, a sector being erased may or may not be.
AfterReboot == {(programmed \cup written) \ gone :
                   written \in {{}, Programming}, gone \in {{}, PagesOf(erasing)}}

flashfsInit ==
    /\ programmed' \in AfterReboot
    /\ headAddress' = StartOfUsedSpace(programmed')
    /\ tailAddress' = StartOfFreeSpace(programmed', headAddress') /\ tailAddress' \in Address
    /\ state' = "IDLE" /\ buffered' = 0 /\ dataWritten' = TRUE /\ sectorsLeft' = 0
    /\ sync' = "NO" /\ syncBytes' = 0
    /\ inflight' = 0 /\ writeAt' = 0 /\ busy' = "NO" /\ erasing' = {} /\ suspend' = "NO"

\* A volume that has never been written.
Blank ==
    /\ settings \in Settings
    /\ state = "IDLE" /\ headAddress = 0 /\ tailAddress = 0
    /\ buffered = 0 /\ dataWritten = TRUE /\ sectorsLeft = 0
    /\ sync = "NO" /\ syncBytes = 0
    /\ programmed = {} /\ inflight = 0 /\ writeAt = 0
    /\ busy = "NO" /\ erasing = {} /\ suspend = "NO"
=============================================================================
