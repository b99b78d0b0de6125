---------------------------- MODULE EepromStore ----------------------------
(***************************************************************************)
(* The EEPROM emulation implements NvStore.  Two history variables record  *)
(* what a caller has seen: the words EEE_Read returned between the last    *)
(* two calls, and the request that is being served or that a power loss    *)
(* has left in doubt.                                                      *)
(***************************************************************************)
EXTENDS Eeprom

VARIABLES seen,    \* the words EEE_Read returned when the last call ended
          doubt    \* the request since then

allvars == <<flash, pv, job, status, crashes, seen, doubt>>

Remember ==
  /\ seen' = IF job'.pc = "idle"
               THEN [a \in Addr |-> ReadEl(flash', a, pv'.current_write_page)]
               ELSE seen
  /\ doubt' = CASE job'.pc = "idle" -> None
                [] job'.op = "write" -> job'.asked
                [] job'.op = "format" -> Corrupt
                [] OTHER -> doubt

SeenInit == Init /\ seen = [a \in Addr |-> None] /\ doubt = None
SeenNext == Next /\ Remember
SeenSpec == SeenInit /\ [][SeenNext]_allvars

(* A call that a power loss cut is answered when recovery is done. *)
Answer == IF job.pc = "off" \/ job.op \in {"recover", "reformat"} THEN "down"
          ELSE IF job.pc # "idle" THEN "busy"
          ELSE IF status \in {"OK", "CLEAN_NEEDED"} THEN "ok" ELSE "error"

Promise == INSTANCE NvStore WITH
  NoCall <- None, EraseAll <- Corrupt,
  store <- seen, request <- doubt, answer <- Answer

(* The emulation implements NvStore: no word is lost or reverts, whatever  *)
(* the flash operation at which the power is cut, a write that reported    *)
(* success is kept, and one that was cut has taken effect or not           *)
(* (EEE_Write, EE_Transfer, EE_Recovery and EEE_Clean together).           *)
KeepsItsPromise == Promise!StoreSpec

(* ee_override.h on EE_Init with format = 0: "recover EE state from flash  *)
(* and restore the pages to a known good state in case of power loss": a   *)
(* power-up never formats a bank that holds words and whose erasing nobody *)
(* asked for.                                                              *)
PowerLossIsRecovered ==
  [][(PowerUp /\ doubt # Corrupt /\ \E a \in Addr : seen[a] # None)
       => job'.op = "recover"]_allvars
=============================================================================
