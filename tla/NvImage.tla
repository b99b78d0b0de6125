------------------------------- MODULE NvImage -------------------------------
(***************************************************************************)
(* The Zigbee stack's persistent data on the EEPROM emulation:             *)
(* APP_ZIGBEE_persist_save and _load (STM32_WPAN/App/app_zigbee.c) and     *)
(* APP_ZIGBEE_NVM_Write and _Read (STM32_WPAN/App/app_zigbee_nvm.c).  An   *)
(* image is a length in bytes at address 0 and its words behind it; it is  *)
(* written word by word over the one before, and nothing but the length    *)
(* says which words belong together.                                       *)
(*                                                                         *)
(* This is the only caller of the emulation, so the module composes the    *)
(* two.  One save is under way at a time (see ZigbeeIpc for the wait in    *)
(* which another could begin).                                             *)
(***************************************************************************)
EXTENDS EepromStore

CONSTANTS
  WordSize      \* bytes of a word

ASSUME ImageAssumption ==
  /\ WordSize \in Nat \ {0}
  /\ Data \subseteq Nat \ {0} /\ None \notin BOOLEAN

VARIABLES
  app,          \* "boot" until the stack is started, then with what: "restored" or "joining"
  save,         \* the call of APP_ZIGBEE_NVM_Write under way
  reported,     \* history: what the last save returned
  kept,         \* history: the last image written to its last word
  torn          \* history: a save began after it and stopped short

client == <<app, save, reported, kept, torn>>
imagevars == <<allvars, client>>

ZIGBEE_DB_START_ADDR == 0
\* Words behind the length: an incomplete one counts.
NumWords(len) == len \div WordSize + (IF len % WordSize # 0 THEN 1 ELSE 0)

Lengths == {len \in Data : NumWords(len) \in Addr}   \* ST_PERSIST_MAX_ALLOC_SZ
Images == {[i \in 0 .. NumWords(len) |-> IF i = 0 THEN len ELSE w[i]] :
             len \in Lengths, w \in [Addr -> Data]}

NoSave == [pc |-> "none", image |-> None, at |-> 0]
ImageInit ==
  /\ SeenInit
  /\ app = "boot" /\ save = NoSave
  /\ reported = None /\ kept = None /\ torn = FALSE

-----------------------------------------------------------------------------
Stored(i) == ReadEl(flash, i + ZIGBEE_DB_START_ADDR, Current)

\* APP_ZIGBEE_NVM_Read: the image, or None where it returns false.
NVM_Read ==
  LET len == Stored(0) IN
  IF len \notin Lengths THEN None
  ELSE IF \E i \in 1 .. NumWords(len) : Stored(i) = None THEN None
  ELSE [i \in 0 .. NumWords(len) |-> Stored(i)]

\* APP_ZIGBEE_StackLayersInit: the data read are restored or, without any, a
\* network is joined; either way the stack runs and its data are saved next.
StartStack ==
  /\ app = "boot" /\ Ready
  /\ app' = IF NVM_Read = None THEN "joining" ELSE "restored"
  /\ UNCHANGED <<allvars, save, reported, kept, torn>>

\* APP_ZIGBEE_persist_save: the image in the cache is what the stack has now.
Persist_Save(image) ==
  /\ app # "boot" /\ save = NoSave /\ Ready
  /\ save' = [pc |-> "write", image |-> image, at |-> 0]
  /\ UNCHANGED <<allvars, app, reported, kept, torn>>

WriteWord ==
  /\ save.pc = "write"
  /\ EEE_Write(save.at + ZIGBEE_DB_START_ADDR, save.image[save.at]) /\ Remember
  /\ save' = [save EXCEPT !.pc = "written"]
  /\ torn' = TRUE
  /\ UNCHANGED <<app, reported, kept>>

Last == save.at = NumWords(save.image[0])

\* The word is written: on with the next, or back with the status of the last.
Advance(ok) ==
  /\ save' = IF Last THEN NoSave ELSE [save EXCEPT !.pc = "write", !.at = @ + 1]
  /\ reported' = IF Last THEN ok ELSE reported
  /\ kept' = IF Last THEN save.image ELSE kept
  /\ torn' = (torn /\ ~ Last)
  /\ UNCHANGED app

WordWritten ==
  /\ save.pc = "written" /\ job.pc = "idle" /\ status = "OK"
  /\ Advance(TRUE)
  /\ UNCHANGED allvars

CleanPool ==
  /\ save.pc = "written"
  /\ EEE_Clean /\ Remember
  /\ save' = [save EXCEPT !.pc = "cleaned"]
  /\ UNCHANGED <<app, reported, kept, torn>>

\* What EEE_Clean returned is dropped; ee_status is still EEE_CLEAN_NEEDED.
PoolCleaned ==
  /\ save.pc = "cleaned" /\ job.pc = "idle"
  /\ Advance(FALSE)
  /\ UNCHANGED allvars

WriteFailed_GoesOn ==
  /\ save.pc = "written" /\ job.pc = "idle" /\ status \in {"ERROR", "STATE_ERROR"}
  /\ Advance(TRUE)
  /\ UNCHANGED allvars
WriteFailed_ReportsSuccess ==
  /\ save.pc = "written" /\ job.pc = "idle" /\ status \in {"ERROR", "STATE_ERROR"}
  /\ save' = NoSave
  /\ reported' = TRUE
  /\ UNCHANGED <<allvars, app, kept, torn>>
WriteFailed ==
  /\ save.pc = "written" /\ job.pc = "idle" /\ status \in {"ERROR", "STATE_ERROR"}
  /\ save' = NoSave
  /\ reported' = FALSE
  /\ UNCHANGED <<allvars, app, kept, torn>>

\* The power is lost while the other pool is blank: with one page a pool, any
\* other loss may end in a format (EepromStore!PowerLossIsRecovered).
LosePower ==
  /\ GetState(flash, NextPool(Current)) = ERASED
  /\ PowerLoss /\ Remember
  /\ app' = "boot" /\ save' = NoSave /\ reported' = None
  /\ UNCHANGED <<kept, torn>>

Emulation == (Step \/ Refused) /\ Remember /\ UNCHANGED client
Saving == WriteWord \/ WordWritten \/ CleanPool \/ PoolCleaned \/ WriteFailed

ImageNext ==
  \/ Emulation \/ StartStack \/ Saving \/ LosePower
  \/ \E image \in Images : Persist_Save(image)

ImageSpec == ImageInit /\ [][ImageNext]_imagevars

-----------------------------------------------------------------------------
(* Properties. *)

\* Between two saves, and after a power-up, APP_ZIGBEE_NVM_Read returns the
\* image last saved, all of it and nothing else, unless a save stopped short
\* since: then it may return a mixture, which nothing tells from an image.
SavedImageIsRead ==
  job.pc = "idle" /\ ~ torn => NVM_Read = kept

\* A save that reports success has left the whole of its image, and nothing of
\* another one: that is what APP_ZIGBEE_NVM_Read returns from then on.
ReportIsHonest ==
  save = NoSave /\ reported = TRUE
    => ~ torn /\ (job.pc = "idle" => NVM_Read = kept)

\* app_zigbee.c on APP_ZIGBEE_persist_save: "true if success , false if fail",
\* where ee_override.h counts EE_CLEAN_NEEDED as "success but user must trigger
\* flash cleanup": a save that returns false has not left its image whole.
FailureMeansNotKept ==
  save = NoSave /\ reported = FALSE => torn
=============================================================================
