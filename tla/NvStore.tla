------------------------------ MODULE NvStore ------------------------------
(***************************************************************************)
(* What the EEPROM emulation promises (src/Core/Inc/ee_override.h): a      *)
(* store of 32-bit words by virtual address.  A word once written is kept  *)
(* over power losses and errors until it is written again or the area is   *)
(* erased on request.  A write that reports success has taken effect; one  *)
(* that reports an error has taken effect or not, and so has one that a    *)
(* power loss cut, as the first call after the power-up finds it.          *)
(***************************************************************************)
CONSTANTS Addr,    \* virtual addresses
          Data,    \* 32-bit words
          None,    \* nothing was ever written
          NoCall,  \* no request is being served
          EraseAll \* the request to erase the area

VARIABLES store,   \* the word kept for each address
          request, \* the request being served, or in doubt since a power loss
          answer   \* "busy", "down" or what the last request reported

svars == <<store, request, answer>>

WriteRequest == [addr : Addr, data : Data]
Written(r) == [store EXCEPT ![r.addr] = r.data]

StoreInit == /\ store = [a \in Addr |-> None]
             /\ request = NoCall
             /\ answer = "down"

Ask == /\ answer \in {"ok", "error"}
       /\ request' \in WriteRequest \cup {NoCall, EraseAll}
       /\ answer' = "busy"
       /\ UNCHANGED store

PowerLoss == answer' = "down" /\ UNCHANGED <<store, request>>

(* The request is done with, or its outcome is seen after a power-up. *)
Answer ==
  /\ request' = NoCall
  /\ answer' \in {"ok", "error"}
  /\ \/ /\ request = NoCall
        /\ UNCHANGED store
     \/ /\ request \in WriteRequest
        /\ store' = Written(request)
     \/ /\ request \in WriteRequest
        /\ answer = "down" \/ answer' = "error"
        /\ UNCHANGED store
     \/ /\ request = EraseAll
        /\ DOMAIN store' = Addr
        /\ \A a \in Addr :
             store'[a] \in IF answer = "busy" /\ answer' = "ok" THEN {None}
                          ELSE {store[a], None}

StoreNext == Ask \/ PowerLoss \/ Answer
StoreSpec == StoreInit /\ [][StoreNext]_svars
=============================================================================
