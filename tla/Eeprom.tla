------------------------------- MODULE Eeprom -------------------------------
(***************************************************************************)
(* The EEPROM emulation of src/Core/Src/ee_override.c on one bank: two     *)
(* pools of nb_pages flash pages, elements appended to the current pool,   *)
(* the live ones moved to the other pool when it is full, and the recovery *)
(* at power-up.  Every flash operation is a step of its own: the power may *)
(* be cut before, during or after it, and the flash driver may refuse it.  *)
(* src/STM32_WPAN/App/app_zigbee_nvm.c is its only caller.                 *)
(***************************************************************************)
EXTENDS Integers, FiniteSets

CONSTANTS nb_pages,       \* pages of a pool
          EE_NB_MAX_ELT,  \* elements that fit in a page
          Addr, Data,     \* virtual addresses and words the caller uses
          MaxCrashes,     \* bound: power losses of a behaviour
          CutErase,       \* whether an erase that is cut may lose header words only
          MayErase,       \* whether the application erases its data
          RefusedOps,     \* calls during which the flash driver may refuse
          Blank,          \* an erased 64-bit word
          Corrupt,        \* a zeroed word or one whose CRC is wrong
          None            \* EEE_NOT_FOUND

ASSUME EepromAssumption ==
  /\ nb_pages \in Nat \ {0} /\ EE_NB_MAX_ELT \in Nat \ {0}
  /\ Addr \subseteq Nat /\ MaxCrashes \in Nat
  /\ CutErase \in BOOLEAN /\ MayErase \in BOOLEAN
  /\ RefusedOps \subseteq {"write", "clean", "recover", "reformat", "format"}
  /\ Blank # Corrupt /\ Corrupt # None
  /\ \A x \in {Blank, Corrupt, None} : x \notin Data /\ x \notin [addr : Addr, data : Data]

(* The states of a page, numbered as in the source. *)
ERASED == 0
RECEIVE == 1
ACTIVE == 2
VALID == 3
ERASING == 4

Element == [addr : Addr, data : Data]
Word == Element \cup {Blank, Corrupt}
Slots == 0 .. EE_NB_MAX_ELT - 1
Bank == 0 .. 2 * nb_pages - 1
Pages == 0 .. 2 * nb_pages          \* the last one lies behind the bank
Capacity == EE_NB_MAX_ELT * nb_pages
Page == [hdr : SUBSET (RECEIVE .. ERASING), el : [Slots -> Word]]
BlankPage == [hdr |-> {}, el |-> [i \in Slots |-> Blank]]

VARIABLES flash,   \* contents of the pages: survives a power loss
          pv,      \* EEE_var[0]
          job,     \* the call under way and where it is
          status,  \* what the last call returned
          crashes  \* power losses so far

vars == <<flash, pv, job, status, crashes>>

FreshVars == [current_write_page |-> 0, nb_written_elements |-> 0,
              next_write_offset |-> 0]

-----------------------------------------------------------------------------
(* Reading the flash.                                                      *)

FirstPage(p) == IF p < nb_pages THEN 0 ELSE nb_pages
NextPool(p) == IF p < nb_pages THEN nb_pages ELSE 0
PoolOf(p) == FirstPage(p) .. FirstPage(p) + nb_pages - 1

(* The state is the last programmed word of the header. *)
GetState(fl, p) == CHOOSE s \in ERASED .. ERASING :
  /\ s = ERASED \/ s \in fl[p].hdr
  /\ \A t \in fl[p].hdr : t <= s

Hits(fl, a, p) == {h \in (FirstPage(p) .. p) \X Slots :
  LET e == fl[h[1]].el[h[2]] IN e \in Element /\ e.addr = a}

Later(h, g) == h[1] > g[1] \/ (h[1] = g[1] /\ h[2] >= g[2])

(* EE_ReadEl: the youngest element of the address at or below page p. *)
ReadEl(fl, a, p) == LET found == Hits(fl, a, p) IN
  IF found = {} THEN None
  ELSE LET h == CHOOSE h \in found : \A g \in found : Later(h, g)
       IN fl[h[1]].el[h[2]].data

(* EEE_Dump: the whole pool in order, a later element overwriting. *)
Dump(fl, a, p) ==
  LET found == Hits(fl, a, FirstPage(p) + nb_pages - 1) IN
  IF found = {} THEN None
  ELSE LET h == CHOOSE h \in found : \A g \in found : Later(h, g)
       IN fl[h[1]].el[h[2]].data

-----------------------------------------------------------------------------
(* Changing the flash: a word that is not blank cannot be programmed.      *)

SetState(fl, p, s) == [fl EXCEPT ![p].hdr = @ \cup {s}]
Program(fl, p, i, w) ==
  [fl EXCEPT ![p].el[i] = IF @ = Blank THEN w ELSE @]
Erase(fl, p) == [fl EXCEPT ![p] = BlankPage]

Current == pv.current_write_page
Full == pv.next_write_offset >= EE_NB_MAX_ELT
Lowest(S) == CHOOSE x \in S : \A y \in S : x <= y
Highest(S) == CHOOSE x \in S : \A y \in S : x >= y

(* The pages of the other pool that EE_Transfer still has to mark and the  *)
(* ones that recovery still has to erase.                                  *)
Unmarked == {p \in PoolOf(NextPool(Current)) :
               GetState(flash, p) \in {ACTIVE, VALID}}
Unerased_FirstOnly == {p \in {NextPool(Current)} : GetState(flash, p) # ERASED}
Unerased == {p \in PoolOf(NextPool(Current)) : GetState(flash, p) # ERASED}

-----------------------------------------------------------------------------
(* The call under way: op is the call, asked the write it serves, el the   *)
(* element to append and then what follows it, var the next variable to    *)
(* transfer and at the page to erase or to mark.                           *)

NoJob == [pc |-> "idle", op |-> "none", asked |-> None, el |-> None,
          then |-> "done", var |-> 0, at |-> 0]
Off == [NoJob EXCEPT !.pc = "off"]
Reformat == [NoJob EXCEPT !.pc = "erase", !.op = "reformat"]

Done(st) == job' = NoJob /\ status' = st

Init == /\ flash = [p \in Pages |-> BlankPage]
        /\ pv = FreshVars
        /\ job = Off
        /\ status = "OFF"
        /\ crashes = 0

-----------------------------------------------------------------------------
(* The calls of app_zigbee_nvm.c, one at a time.  A write that returns     *)
(* EEE_CLEAN_NEEDED is followed by EEE_Clean.                              *)

Ready == job.pc = "idle" /\ status # "CLEAN_NEEDED"

EEE_Write(a, d) ==
  LET appending == [NoJob EXCEPT !.pc = "el", !.op = "write",
                      !.asked = [addr |-> a, data |-> d],
                      !.el = [addr |-> a, data |-> d]] IN
  /\ Ready
  /\ \/ /\ pv.nb_written_elements < Capacity
        /\ job' = appending
        /\ UNCHANGED status
     \/ /\ pv.nb_written_elements >= Capacity
        /\ GetState(flash, NextPool(Current)) = ERASED
        /\ job' = [appending EXCEPT !.pc = "receive"]
        /\ UNCHANGED status
     \/ /\ pv.nb_written_elements >= Capacity
        /\ GetState(flash, NextPool(Current)) # ERASED
        /\ Done("STATE_ERROR")
  /\ UNCHANGED <<flash, pv, crashes>>

EEE_Clean ==
  /\ job.pc = "idle" /\ status = "CLEAN_NEEDED"
  /\ IF GetState(flash, NextPool(Current)) = ERASING
       THEN /\ job' = [NoJob EXCEPT !.pc = "erase", !.op = "clean",
                                    !.at = NextPool(Current)]
            /\ UNCHANGED status
       ELSE Done("STATE_ERROR")
  /\ UNCHANGED <<flash, pv, crashes>>

(* APP_ZIGBEE_NVM_Erase: EEE_Init with format = 1. *)
NVM_Erase ==
  /\ Ready /\ MayErase
  /\ job' = [Reformat EXCEPT !.op = "format"]
  /\ pv' = FreshVars
  /\ UNCHANGED <<flash, status, crashes>>

-----------------------------------------------------------------------------
(* Power-up: APP_ZIGBEE_NVM_Init, EEE_Init with format = 0, EE_Recovery.   *)

(* Page p shows state s and its neighbour confirms it. *)
Reliable(fl, s, p) ==
  /\ GetState(fl, p) = s
  /\ IF p = FirstPage(p) THEN GetState(fl, p + 1) = ERASED
                         ELSE GetState(fl, p - 1) \in {s, VALID}

Found(fl) == {c \in {RECEIVE, ACTIVE} \X Bank : Reliable(fl, c[1], c[2])}
Candidate(fl) == CHOOSE c \in Found(fl) : \A b \in Found(fl) : Later(b, c)

Written(fl, p) == Cardinality({i \in Slots : \A j \in 0 .. i : fl[p].el[j] # Blank})

Adopt(p) ==
  /\ pv' = [current_write_page |-> p,
            nb_written_elements |-> Written(flash, p) + EE_NB_MAX_ELT * (p - FirstPage(p)),
            next_write_offset |-> Written(flash, p)]
  /\ job' = [NoJob EXCEPT !.op = "recover",
               !.pc = IF GetState(flash, p) = RECEIVE THEN "copy" ELSE "sweep"]

PowerUp ==
  /\ job.pc = "off"
  /\ \/ /\ Found(flash) = {}          \* EEE_STATE_ERROR: the area is formatted
        /\ job' = Reformat
        /\ UNCHANGED pv
     \/ /\ Found(flash) # {}
        /\ LET s == Candidate(flash)[1]
               p == Candidate(flash)[2] IN
           IF p # FirstPage(p) /\ GetState(flash, p - 1) = s
             THEN /\ job' = [NoJob EXCEPT !.pc = "fix", !.op = "recover", !.at = p]
                  /\ UNCHANGED pv
             ELSE Adopt(p)
  /\ UNCHANGED <<flash, status, crashes>>

(* The page before was left full but not VALID. *)
FixPrevious ==
  /\ job.pc = "fix"
  /\ flash' = SetState(flash, job.at - 1, VALID)
  /\ Adopt(job.at)
  /\ UNCHANGED <<status, crashes>>

(* The pages of the other pool that are not erased are erased one by one.  *)
SweepPage ==
  /\ job.pc = "sweep" /\ Unerased # {}
  /\ flash' = Erase(flash, Lowest(Unerased))
  /\ UNCHANGED <<pv, job, status, crashes>>

SweepDone ==
  /\ job.pc = "sweep" /\ Unerased = {}
  /\ Done("OK")
  /\ UNCHANGED <<flash, pv, crashes>>

-----------------------------------------------------------------------------
(* FD_EraseSectors over a pool (clean) or over the bank (format), and the  *)
(* header of the first page once a format has erased the bank.             *)

LastErased == IF job.op = "clean" THEN FirstPage(job.at) + nb_pages - 1
                                  ELSE 2 * nb_pages - 1

ErasePage ==
  /\ job.pc = "erase"
  /\ flash' = Erase(flash, job.at)
  /\ IF job.at # LastErased
       THEN job' = [job EXCEPT !.at = @ + 1] /\ UNCHANGED status
       ELSE IF job.op = "clean" THEN Done("OK")
       ELSE job' = [job EXCEPT !.pc = "first", !.at = 0] /\ UNCHANGED status
  /\ UNCHANGED <<pv, crashes>>

SetFirstActive ==
  /\ job.pc = "first"
  /\ flash' = SetState(flash, 0, ACTIVE)
  /\ Done("OK")
  /\ UNCHANGED <<pv, crashes>>

-----------------------------------------------------------------------------
(* EE_WriteEl: a full page passes its state to the next one and becomes    *)
(* VALID; then the element is appended.                                    *)

OpenNextPage_NoHeader ==
  /\ job.pc = "el" /\ Full
  /\ job' = [job EXCEPT !.pc = "valid"]
  /\ UNCHANGED <<flash, pv, status, crashes>>
OpenNextPage ==
  /\ job.pc = "el" /\ Full
  /\ flash' = SetState(flash, Current + 1, GetState(flash, Current))
  /\ job' = [job EXCEPT !.pc = "valid"]
  /\ UNCHANGED <<pv, status, crashes>>

ClosePage ==
  /\ job.pc = "valid"
  /\ flash' = SetState(flash, Current, VALID)
  /\ pv' = [pv EXCEPT !.current_write_page = @ + 1, !.next_write_offset = 0]
  /\ job' = [job EXCEPT !.pc = "el"]
  /\ UNCHANGED <<status, crashes>>

AppendElement ==
  /\ job.pc = "el" /\ ~Full
  /\ flash' = Program(flash, Current, pv.next_write_offset, job.el)
  /\ pv' = [pv EXCEPT !.next_write_offset = @ + 1, !.nb_written_elements = @ + 1]
  /\ IF job.then = "done" THEN Done("OK")
       ELSE job' = [job EXCEPT !.pc = job.then, !.el = None] /\ UNCHANGED status
  /\ UNCHANGED crashes

-----------------------------------------------------------------------------
(* The pool is full: the other pool receives the element and the live ones *)
(* (EEE_Write, EE_Transfer).                                               *)

StartReceive_KeepsCount ==
  /\ job.pc = "receive"
  /\ flash' = SetState(flash, NextPool(Current), RECEIVE)
  /\ pv' = [pv EXCEPT !.current_write_page = NextPool(Current),
                       !.next_write_offset = 0]
  /\ job' = [job EXCEPT !.pc = "el", !.then = "mark"]
  /\ UNCHANGED <<status, crashes>>
StartReceive ==
  /\ job.pc = "receive"
  /\ flash' = SetState(flash, NextPool(Current), RECEIVE)
  /\ pv' = [FreshVars EXCEPT !.current_write_page = NextPool(Current)]
  /\ job' = [job EXCEPT !.pc = "el", !.then = "mark"]
  /\ UNCHANGED <<status, crashes>>

(* Full and active pages of the old pool become ERASING, last one first. *)
MarkErasing ==
  /\ job.pc = "mark" /\ Unmarked # {}
  /\ flash' = SetState(flash, Highest(Unmarked), ERASING)
  /\ UNCHANGED <<pv, job, status, crashes>>

MarkDone ==
  /\ job.pc = "mark" /\ Unmarked = {}
  /\ job' = [job EXCEPT !.pc = "copy", !.then = "copy"]
  /\ UNCHANGED <<flash, pv, status, crashes>>

OldValue(v) == ReadEl(flash, v, NextPool(Current) + nb_pages - 1)

(* A variable to copy: not the one just written and, when recovery resumes *)
(* the transfer, not one that the new pool holds already.                  *)
ToCopy_All == {v \in job.var .. Capacity - 1 : OldValue(v) # None}
ToCopy == {v \in job.var .. Capacity - 1 :
  /\ OldValue(v) # None
  /\ IF job.op = "recover" THEN ReadEl(flash, v, Current) = None
                           ELSE v # job.asked.addr}

CopyNext ==
  /\ job.pc = "copy" /\ ToCopy # {}
  /\ LET v == Lowest(ToCopy) IN
       job' = [job EXCEPT !.pc = "el", !.then = "copy", !.var = v + 1,
                          !.el = [addr |-> v, data |-> OldValue(v)]]
  /\ UNCHANGED <<flash, pv, status, crashes>>

CopyDone ==
  /\ job.pc = "copy" /\ ToCopy = {}
  /\ job' = [job EXCEPT !.pc = "activate"]
  /\ UNCHANGED <<flash, pv, status, crashes>>

(* A write reports that a clean is needed; recovery goes on to erase. *)
Activate ==
  /\ job.pc = "activate"
  /\ flash' = SetState(flash, Current, ACTIVE)
  /\ IF job.op = "write" THEN Done("CLEAN_NEEDED")
       ELSE job' = [NoJob EXCEPT !.pc = "sweep", !.op = "recover"] /\ UNCHANGED status
  /\ UNCHANGED <<pv, crashes>>

-----------------------------------------------------------------------------
(* The flash driver refuses an operation and the call ends with an error;  *)
(* APP_ZIGBEE_NVM_Init formats after any error of the recovery.            *)

AtFlash == \/ job.pc \in {"receive", "el", "valid", "activate", "fix", "erase", "first"}
           \/ job.pc = "mark" /\ Unmarked # {}
           \/ job.pc = "sweep" /\ Unerased # {}

Refused ==
  /\ AtFlash /\ job.op \in RefusedOps
  /\ IF job.op = "recover"
       THEN job' = Reformat /\ pv' = FreshVars /\ UNCHANGED status
       ELSE Done("ERROR") /\ UNCHANGED pv
  /\ UNCHANGED <<flash, crashes>>

(* A power loss leaves an element that fails its CRC, or a page that has   *)
(* lost some of its header words and nothing else.                         *)
Cut(p) == IF CutErase
          THEN {[flash EXCEPT ![p].hdr = h] : h \in (SUBSET flash[p].hdr) \ {{}}}
          ELSE {}

AfterCut ==
  {flash} \cup
  CASE job.pc = "el" /\ ~Full ->
         {Program(flash, Current, pv.next_write_offset, Corrupt)}
    [] job.pc = "erase" -> Cut(job.at)
    [] job.pc = "sweep" /\ Unerased # {} -> Cut(Lowest(Unerased))
    [] OTHER -> {}

PowerLoss ==
  /\ job.pc # "off" /\ crashes < MaxCrashes
  /\ flash' \in AfterCut
  /\ job' = Off
  /\ pv' = FreshVars
  /\ status' = "OFF"
  /\ crashes' = crashes + 1

-----------------------------------------------------------------------------
Step == \/ PowerUp \/ FixPrevious \/ SweepPage \/ SweepDone
        \/ ErasePage \/ SetFirstActive
        \/ OpenNextPage \/ ClosePage \/ AppendElement
        \/ StartReceive \/ MarkErasing \/ MarkDone
        \/ CopyNext \/ CopyDone \/ Activate

Call == \/ \E a \in Addr, d \in Data : EEE_Write(a, d)
        \/ EEE_Clean \/ NVM_Erase

Next == Step \/ Call \/ Refused \/ PowerLoss

Spec == Init /\ [][Next]_vars

-----------------------------------------------------------------------------
(* Properties.                                                             *)

(* Every page, the variables and the call have the shape the code gives    *)
(* them.                                                                   *)
TypeOK ==
  /\ flash \in [Pages -> Page]
  /\ pv \in [current_write_page : Pages, nb_written_elements : 0 .. Capacity,
             next_write_offset : 0 .. EE_NB_MAX_ELT]
  /\ job \in [pc : {"off", "idle", "el", "valid", "receive", "mark", "copy",
                    "activate", "fix", "sweep", "erase", "first"},
              op : {"none", "write", "clean", "recover", "reformat", "format"},
              asked : Element \cup {None}, el : Element \cup {None},
              then : {"done", "mark", "copy"}, var : 0 .. Capacity, at : Bank]
  /\ status \in {"OFF", "OK", "CLEAN_NEEDED", "ERROR", "STATE_ERROR"}
  /\ crashes \in 0 .. MaxCrashes

(* What a power-up at this instant would recover (EE_Recovery).            *)
Kept(a) ==
  IF Found(flash) = {} THEN None
  ELSE LET s == Candidate(flash)[1]
           p == Candidate(flash)[2]
           new == ReadEl(flash, a, p) IN
       IF new = None /\ s = RECEIVE
         THEN ReadEl(flash, a, NextPool(p) + nb_pages - 1) ELSE new

(* Between calls EEE_Read returns for every address exactly the word that  *)
(* a power-up would recover; ee_override.h: EE_NOT_FOUND only for an       *)
(* address that was never written.                                         *)
ReadsWhatIsKept ==
  job.pc = "idle" => \A a \in Addr : ReadEl(flash, a, Current) = Kept(a)

(* The RAM variables that place the next element agree with the flash, in  *)
(* particular when recovery has just rebuilt them from a flash with torn   *)
(* elements, and nothing is programmed behind that place.                  *)
PlaceAgreesWithFlash ==
  job.pc = "idle" =>
    /\ pv.next_write_offset = Written(flash, Current)
    /\ pv.nb_written_elements =
         pv.next_write_offset + EE_NB_MAX_ELT * (Current - FirstPage(Current))
    /\ \A p \in PoolOf(Current) : p > Current => flash[p].el = BlankPage.el
    /\ \A i \in Slots : i >= pv.next_write_offset => flash[Current].el[i] = Blank

(* An element is appended only to a pool that is not full, on a blank word *)
(* of that pool (the assumption stated in EE_WriteEl, l.529-530).          *)
PoolHasRoom ==
  job.pc = "el" =>
    LET p == IF Full THEN Current + 1 ELSE Current
        i == IF Full THEN 0 ELSE pv.next_write_offset IN
    /\ pv.nb_written_elements < Capacity
    /\ p \in PoolOf(Current)
    /\ flash[p].el[i] = Blank

(* Between calls the other pool is blank, so that the next transfer can    *)
(* start, unless its clean is due.                                         *)
OtherPoolReady ==
  job.pc = "idle" =>
    IF status = "CLEAN_NEEDED"
      THEN \A p \in PoolOf(NextPool(Current)) : GetState(flash, p) = ERASING
      ELSE \A p \in PoolOf(NextPool(Current)) : flash[p] = BlankPage

(* EEE_Dump, which does not check the CRC, agrees with EEE_Read on a pool  *)
(* without torn elements, also across the pages of the pool.               *)
DumpAgreesWithRead ==
  (job.pc = "idle" /\ \A p \in PoolOf(Current), i \in Slots : flash[p].el[i] # Corrupt)
    => \A a \in Addr : Dump(flash, a, Current) = ReadEl(flash, a, Current)

(* Reading is sound: both ways to read agree with what is in the flash.    *)
ReadingIsSound == TypeOK /\ ReadsWhatIsKept /\ DumpAgreesWithRead

(* A transfer finds a blank pool and room in it for all it has to copy.    *)
TransferHasRoom == PoolHasRoom /\ OtherPoolReady
=============================================================================
