---------------------------- MODULE ConfigStore ----------------------------
(***************************************************************************)
(* The configuration and its store: config/config.c, config_eeprom.c,      *)
(* config_streamer.c and pg/pg.c, from the boot in fc/init.c to the save   *)
(* an MSP client asks for and the one a disarm leaves to the dispatcher.   *)
(*                                                                         *)
(* A save stalls the processor, so that only a failing word and the loss   *)
(* of power come between two of its words.  A parameter group is one word  *)
(* of the store.  The checksum is modelled as what it stands for: the      *)
(* records it was computed over.  A parameter group's hash is likewise     *)
(* the value it was computed from.                                         *)
(***************************************************************************)
EXTENDS Integers, Sequences

CONSTANTS
    Layout,         \* the parameter groups, in the order of the registry
    System,         \* the group that holds configurationState
    Value, Default, \* what a group may hold
    Configured,     \* CONFIGURATION_STATE_CONFIGURED
    PageStart,      \* the words of the store at which an erasable page begins
    Version         \* of a parameter group

Last  == Len(Layout) + 1        \* the word of the footer and the checksum
Words == 0 .. Last
Group == {Layout[i] : i \in 1 .. Len(Layout)}

ASSUME ConfigAssumption ==
    /\ Len(Layout) \in Nat /\ DOMAIN Layout = 1 .. Len(Layout)
    /\ \A i, j \in 1 .. Len(Layout) : Layout[i] = Layout[j] => i = j
    /\ System \in Group /\ {Default, Configured} \subseteq Value
    /\ 0 \in PageStart /\ PageStart \subseteq Words

Attempts == 1 .. 3

VARIABLES
    at,         \* where the processor is
    flash,      \* the words from __config_start
    ram, hash,  \* the parameter groups, and their fnv_hash
    dirty,      \* configIsDirty
    queue,      \* the saves queued with the dispatcher
    writer,     \* the save under way
    armed,
    version,    \* the versions of this firmware's parameter groups
    stored      \* history: the configuration of the last save to reach its last word

saveVars == <<at, flash, ram, hash, dirty, writer, stored>>
vars == <<saveVars, queue, armed, version>>

Config   == [Group -> Value]
Defaults == [g \in Group |-> Default]
NoHash   == <<>>

-----------------------------------------------------------------------------
(* The store. *)

Erased == [is |-> "erased"]
Header == [is |-> "header"]
Record(g, v, x) == [is |-> "record", group |-> g, version |-> v, value |-> x]
Checksum(records) == [is |-> "checksum", of |-> records]

Records == [i \in 1 .. Len(Layout) |-> Record(Layout[i], version[Layout[i]], ram[Layout[i]])]

\* The word of the stream that a save writes as its n-th.
Word(n) == IF n = 0 THEN Header
           ELSE IF n = Last THEN Checksum(Records)
           ELSE Records[n]

\* Mutant: the checksum is not compared.
Valid_noChecksum ==
    flash[0] = Header /\ flash[Last].is = "checksum"
    /\ \A i \in 1 .. Len(Layout) : flash[i].is = "record"

\* isEEPROMVersionValid() and isEEPROMStructureValid()
Valid == flash[0] = Header
         /\ flash[Last] = Checksum([i \in 1 .. Len(Layout) |-> flash[i]])

RecordOf(g) == CHOOSE i \in 1 .. Len(Layout) : Layout[i] = g

\* loadEEPROM(): a record of another version leaves its group at the default.
Loadable(g) == flash[RecordOf(g)].version = version[g]

Loaded == [g \in Group |-> IF Loadable(g) THEN flash[RecordOf(g)].value ELSE Default]

\* Mutant: only the system group is compared.
Unchanged_system(config, hashes) == hashes # NoHash /\ hashes[System] = config[System]

\* No group differs from the value its hash was computed from.
Unchanged(config, hashes) == hashes = config

-----------------------------------------------------------------------------
(* writeUnmodifiedConfigToEEPROM(): `origin' is the caller to return to. *)

NoSave == [origin |-> "none"]

NewSave(origin, attempt) ==
    [origin |-> origin, attempt |-> attempt, next |-> 0, err |-> FALSE]

\* Back in the caller.  The boot resets; an MSP save reads the store.
Saved(origin, config, hashes) ==
    /\ at' = IF origin = "boot" THEN "RESET" ELSE "RUN"
    /\ writer' = NoSave /\ dirty' = FALSE
    /\ ram' = IF origin = "msp" THEN Loaded ELSE config
    /\ hash' = IF origin = "msp" THEN Loaded ELSE hashes

\* writeSettingsToEEPROM() up to its first word: nothing is written when the
\* store is valid and no group differs from its hash.
BeginSave(origin, attempt, config, hashes) ==
    /\ IF Valid /\ Unchanged(config, hashes) THEN Saved(origin, config, hashes)
       ELSE /\ at' = "WRITE" /\ writer' = NewSave(origin, attempt)
            /\ ram' = config /\ hash' = hashes
            /\ UNCHANGED dirty
    /\ UNCHANGED <<flash, stored>>

\* The page is erased first when the address begins one.
Programmed(address, word) ==
    LET page == {i \in Words : i >= address /\ ~\E j \in PageStart : address < j /\ j <= i}
    IN  [i \in Words |-> IF i = address THEN word
                         ELSE IF address \in PageStart /\ i \in page THEN Erased
                         ELSE flash[i]]

Writing == at = "WRITE" /\ ~writer.err /\ writer.next <= Last

\* write_word()
WriteWord ==
    /\ Writing
    /\ flash' = Programmed(writer.next, Word(writer.next))
    /\ writer' = [writer EXCEPT !.next = @ + 1]
    /\ stored' = IF writer.next = Last THEN ram ELSE stored
    /\ UNCHANGED <<at, ram, hash, dirty, queue, armed, version>>

\* The erase or the word fails: err is set, and write_word() passes over the
\* rest of the stream.
FailWord ==
    /\ Writing
    /\ flash' \in {flash, Programmed(writer.next, Erased)}
    /\ writer' = [writer EXCEPT !.err = TRUE]
    /\ UNCHANGED <<at, ram, hash, dirty, stored, queue, armed, version>>

Retries == writer.err /\ writer.attempt + 1 \in Attempts

Complete == ~writer.err /\ Valid

\* writeConfigToEEPROM(): the attempts, then failureMode().
EndSave ==
    /\ at = "WRITE" /\ ~Writing
    /\ \/ Complete /\ Saved(writer.origin, ram, hash) /\ UNCHANGED <<flash, stored>>
       \/ Retries /\ BeginSave(writer.origin, writer.attempt + 1, ram, hash)
       \/ /\ ~Retries /\ ~Complete
          /\ at' = "FAILURE" /\ writer' = NoSave
          /\ UNCHANGED <<flash, ram, hash, dirty, stored>>
    /\ UNCHANGED <<queue, armed, version>>

-----------------------------------------------------------------------------
(* The boot, in fc/init.c. *)

\* RAM is gone: systemResetHard(), or power that was lost.
PowerUp ==
    /\ at \in {"OFF", "RESET"}
    /\ at' = "BOOT" /\ writer' = NoSave
    /\ ram' = Defaults /\ hash' = NoHash /\ dirty' = FALSE
    /\ queue' = {} /\ armed' = FALSE
    /\ UNCHANGED <<flash, stored, version>>

PowerLoss ==
    /\ at # "OFF" /\ at' = "OFF"
    /\ UNCHANGED <<flash, ram, hash, dirty, writer, stored, queue, armed, version>>

\* Other firmware is flashed, and the store left as it is.
Update ==
    /\ at = "OFF"
    /\ version' \in {[version EXCEPT ![g] = v] : g \in Group, v \in Version}
    /\ UNCHANGED <<saveVars, queue, armed>>

\* A store that cannot be loaded whole is replaced by the defaults.
Boot ==
    /\ at = "BOOT"
    /\ IF Valid /\ \A g \in Group : Loadable(g)
       THEN /\ at' = "RUN" /\ ram' = Loaded /\ hash' = Loaded
            /\ UNCHANGED <<flash, dirty, writer, stored>>
       ELSE BeginSave("boot", 1, Defaults, IF Valid THEN Loaded ELSE hash)
    /\ UNCHANGED <<queue, armed, version>>

-----------------------------------------------------------------------------
(* Changes and saves. *)

Changes == {[ram EXCEPT ![g] = x] : g \in Group \ {System}, x \in Value \ {Configured}}

\* An adjustment or an autotrim, in flight: rc_adjustments.c, autotrim.c.
Adjust ==
    /\ at = "RUN" /\ armed
    /\ ram' \in Changes \ {ram} /\ dirty' = TRUE
    /\ UNCHANGED <<at, flash, hash, writer, stored, queue, armed, version>>

\* A client's MSP_SET command: nothing marks the configuration dirty.
Set ==
    /\ at = "RUN" /\ ~armed
    /\ ram' \in Changes \ {ram}
    /\ UNCHANGED <<at, flash, hash, dirty, writer, stored, queue, armed, version>>

Arm ==
    /\ at = "RUN" /\ ~armed /\ armed' = TRUE
    /\ UNCHANGED <<saveVars, queue, version>>

\* disarm(): writeEEPROMDelayed() of a dirty configuration.
Disarm ==
    /\ at = "RUN" /\ armed /\ armed' = FALSE
    /\ queue' = IF dirty THEN queue \cup {"delayed"} ELSE queue
    /\ UNCHANGED <<saveVars, version>>

\* writeEEPROM(): the configuration counts as the user's from here on.
UserConfig == [ram EXCEPT ![System] = Configured]

\* MSP_EEPROM_WRITE: refused in flight; through a receiver on SPI it is queued.
MspSave ==
    /\ at = "RUN"
    /\ \/ /\ armed /\ dirty' = TRUE
          /\ UNCHANGED <<at, flash, ram, hash, writer, stored, queue>>
       \/ ~armed /\ BeginSave("msp", 1, UserConfig, hash) /\ UNCHANGED queue
       \/ ~armed /\ queue' = queue \cup {"msp"} /\ UNCHANGED saveVars
    /\ UNCHANGED <<armed, version>>

\* Armed again, it only queues itself once more.
dispatchConfigWrite ==
    /\ at = "RUN" /\ "delayed" \in queue /\ ~armed
    /\ BeginSave("delayed", 1, ram, hash)
    /\ queue' = queue \ {"delayed"}
    /\ UNCHANGED <<armed, version>>

\* Armed by then, the save is dropped.
writeReadEeprom ==
    /\ at = "RUN" /\ "msp" \in queue
    /\ queue' = queue \ {"msp"}
    /\ IF armed THEN UNCHANGED saveVars ELSE BeginSave("msp", 1, UserConfig, hash)
    /\ UNCHANGED <<armed, version>>

Init ==
    /\ at = "OFF" /\ flash = [i \in Words |-> Erased]
    /\ ram = Defaults /\ hash = NoHash /\ dirty = FALSE /\ writer = NoSave
    /\ queue = {} /\ armed = FALSE
    /\ version \in [Group -> Version]
    /\ stored = NoHash

Step == PowerUp \/ Boot \/ EndSave \/ dispatchConfigWrite \/ writeReadEeprom

Next == \/ Step \/ WriteWord \/ FailWord
        \/ PowerLoss \/ Update \/ Adjust \/ Set \/ Arm \/ Disarm \/ MspSave

Spec == Init /\ [][Next]_vars

\* The processor goes on while it is on; the dispatcher's task gets its turn.
FairSpec == /\ Spec
            /\ WF_vars(PowerUp) /\ WF_vars(Boot) /\ WF_vars(WriteWord) /\ WF_vars(EndSave)
            /\ WF_vars(dispatchConfigWrite) /\ WF_vars(writeReadEeprom)

-----------------------------------------------------------------------------
TypeOK ==
    /\ at \in {"OFF", "BOOT", "RUN", "WRITE", "RESET", "FAILURE"}
    /\ \A i \in Words : flash[i].is \in {"erased", "header", "record", "checksum"}
    /\ ram \in Config /\ (hash = NoHash \/ hash \in Config) /\ dirty \in BOOLEAN
    /\ queue \subseteq {"delayed", "msp"} /\ armed \in BOOLEAN
    /\ version \in [Group -> Version]
    /\ stored = NoHash \/ stored \in Config
    /\ at = "WRITE" => writer.next <= Last + 1 /\ writer.attempt \in Attempts

\* A store that passes its checks holds the last save that was completed, and
\* never parts of two: whatever the pages it spans, the words that failed and
\* the moment the power was lost.
ValidIsLast ==
    Valid => \A i \in 1 .. Len(Layout) :
                 flash[i].group = Layout[i] /\ flash[i].value = stored[Layout[i]]

\* The store is not touched in flight, by a save asked for then or by one that
\* was left to the dispatcher before.
QuietInFlight == [][armed => flash' = flash]_vars

\* A save that clears the dirty flag has stored the configuration, or the
\* configuration is the one that was loaded last: a word that failed in between
\* is noticed.
SaveIsStored ==
    [][dirty /\ ~dirty' /\ at' = "RUN" => stored' = ram \/ hash = ram]_vars

\* What other firmware left of a store that held its bare defaults.
StaleDefaults == Valid /\ Loaded = Defaults /\ \E g \in Group : ~Loadable(g)

\* A board that stays on, with a flash that has stopped failing, reaches its
\* main loop again and again, or gives up, unless its store is a stale default.
BootEnds ==
    <>[](at # "OFF") /\ <>[][~FailWord]_vars
        => []<>(at \in {"RUN", "FAILURE"} \/ StaleDefaults)

\* config_eeprom.c, on a record of another version: "config from EEPROM is
\* available, use it to initialize PG. pgLoad will handle version mismatch".
MismatchIsHandled ==
    <>[](at # "OFF") /\ <>[][~FailWord]_vars => []<>(at \in {"RUN", "FAILURE"})
=============================================================================
