---------------------------- MODULE NvImageProofs ----------------------------
(***************************************************************************)
(* Machine-checked safety of the persistent image on the emulation as this *)
(* program builds it: one page a pool, a clean that the flash driver may   *)
(* refuse, any number of addresses that fit in the page, of words and of   *)
(* power losses that NvImage admits.                                       *)
(*                                                                         *)
(* StoreInv says for each phase of a call what the two pages hold and what *)
(* they say of the words seen; the refinement of NvStore follows.          *)
(* ImageInv, which no longer looks at the flash but for one element, says  *)
(* which words of the image a save has brought there.                      *)
(***************************************************************************)
EXTENDS NvImage, EepromProofs

\* Addresses are numbered from 0 on and fit in a pool of one page.
AsBuilt == /\ nb_pages = 1 /\ RefusedOps \subseteq {"clean"}
           /\ Addr \subseteq 0 .. Capacity - 1
           /\ \A a \in Addr : 0 .. a \subseteq Addr

-----------------------------------------------------------------------------
(* The invariant of the emulation: what holds in each phase of a call. *)

\* The page is in state s and written up to slot o.
Holds(fl, c, o, s) ==
  GetState(fl, c) = s /\ \A i \in Slots : fl[c].el[i] = Blank <=> i >= o

\* Page c holds the words seen.
Reads(fl, c) == \A a \in Addr : ReadEl(fl, a, c) = seen[a]

OldPage == NextPool(Current)
InPage(s) == Holds(flash, Current, pv.next_write_offset, s)

\* A page with the words seen is in use; the other one is blank or, after a
\* transfer, marked for erasing.
Settled == /\ InPage(ACTIVE) /\ Reads(flash, Current)
           /\ GetState(flash, OldPage) \in {ERASED, ERASING}

NothingStored == BlankPool(flash, Bank) /\ \A a \in Addr : seen[a] = None

Lost ==
  /\ job = Off /\ status = "OFF" /\ pv = FreshVars
  /\ \/ NothingStored
     \/ \E c \in Bank, o \in 0 .. EE_NB_MAX_ELT :
          /\ Holds(flash, c, o, ACTIVE) /\ Reads(flash, c)
          /\ GetState(flash, NextPool(c)) = ERASED

Formatting ==
  /\ job.pc \in {"erase", "first"} /\ job.op = "reformat"
  /\ job.pc = "first" => job.at = 0
  /\ pv = FreshVars /\ NothingStored

PoweringUp ==
  /\ job.pc = "sweep" /\ job.op = "recover"
  /\ Settled /\ GetState(flash, OldPage) = ERASED

Resting ==
  /\ job = NoJob /\ status # "OFF" /\ Settled /\ doubt = None
  /\ status = "CLEAN_NEEDED" => GetState(flash, OldPage) = ERASING

Cleaning ==
  /\ job.pc = "erase" /\ job.op = "clean" /\ job.at = OldPage /\ doubt = None
  /\ Settled /\ GetState(flash, OldPage) = ERASING

\* A write under way: the element is appended, or opens the other page.
Writing ==
  /\ job.pc \in {"el", "receive"} /\ job.then = "done" /\ job.var = 0
  /\ job.el = job.asked /\ Settled
  /\ job.pc = "el" => ~ Full
  /\ job.pc = "receive" => GetState(flash, OldPage) = ERASED

Opening ==
  /\ job.pc = "el" /\ job.then = "mark" /\ job.var = 0
  /\ job.el = job.asked /\ pv.next_write_offset = 0
  /\ InPage(RECEIVE) /\ Reads(flash, OldPage) /\ GetState(flash, OldPage) = ACTIVE

\* The new page holds the word asked for first, and the others as they were, as
\* far as the transfer has come: all below job.var but the one on its way.
Transferring ==
  /\ job.pc \in {"mark", "copy", "el", "activate"}
  /\ job.then = IF job.pc = "mark" THEN "mark" ELSE "copy"
  /\ job.pc = "mark" => job.var = 0 /\ GetState(flash, OldPage) \in {ACTIVE, ERASING}
  /\ job.pc # "mark" => GetState(flash, OldPage) = ERASING
  /\ InPage(RECEIVE) /\ Reads(flash, OldPage)
  /\ flash[Current].el[0] = job.asked
  /\ ReadEl(flash, job.asked.addr, Current) = job.asked.data
  /\ \A a \in Addr \ {job.asked.addr} :
       \/ ReadEl(flash, a, Current) = seen[a]
       \/ /\ ReadEl(flash, a, Current) = None
          /\ job.pc # "activate" /\ (a >= job.var \/ (job.pc = "el" /\ a = job.el.addr))
  /\ job.pc = "el" => /\ job.el \in Element /\ job.el.data = seen[job.el.addr]
                      /\ job.el.addr # job.asked.addr
                      /\ job.el.addr < job.var
  /\ pv.next_write_offset + (IF job.pc = "el" THEN 1 ELSE 0)
       <= job.var + (IF job.asked.addr < job.var THEN 0 ELSE 1)

Asking == Writing \/ Opening \/ Transferring

StoreInv ==
  /\ Global /\ flash[2] = BlankPage
  /\ seen \in [Addr -> Data \cup {None}] /\ doubt \in Element \cup {None}
  /\ \/ Lost \/ Formatting \/ PoweringUp \/ Resting \/ Cleaning
     \/ (Asking /\ job.op = "write" /\ job.asked \in Element /\ doubt = job.asked)

-----------------------------------------------------------------------------
(* The invariant of the image. *)

\* What APP_ZIGBEE_NVM_Read would return of the words seen.
Restored ==
  LET len == seen[0] IN
  IF len \notin Lengths THEN None
  ELSE IF \E i \in 1 .. NumWords(len) : seen[i] = None THEN None
  ELSE [i \in 0 .. NumWords(len) |-> seen[i]]

Saved(n) == \A i \in 0 .. n : seen[i] = save.image[i]

\* Where the save is agrees with where the call of the emulation is.
SaveAgrees ==
  \/ (save = NoSave /\ job.op \notin {"write", "clean"})
  \/ /\ save \in [pc : {"write", "written", "cleaned"}, image : Images, at : Nat]
     /\ save.at <= NumWords(save.image[0])
     /\ Saved(save.at - 1)
     /\ \/ (save.pc = "write" /\ job.pc = "idle")
        \/ /\ save.pc = "written" /\ job.op = "write"
           /\ job.asked = [addr |-> save.at, data |-> save.image[save.at]]
        \/ /\ save.pc = "written" /\ job.pc = "idle"
           /\ status \in {"OK", "CLEAN_NEEDED"} => Saved(save.at)
        \/ /\ save.pc = "cleaned" /\ Saved(save.at)
           /\ job.pc = "idle" \/ job.op = "clean"

\* The word that fills the new page up is its first one.
OpensPage(at) == flash[Current].el[0].addr = at

ImageInv ==
  /\ SaveAgrees
  /\ torn \in BOOLEAN
  /\ ~ torn => Restored = kept
  /\ save # NoSave /\ ~ torn => save.pc = "write" /\ save.at = 0
  /\ save = NoSave /\ reported = TRUE => ~ torn
  /\ save = NoSave /\ reported = FALSE => job.pc = "idle" /\ (~ torn => OpensPage(NumWords(kept[0])))
  /\ save.pc = "written" /\ job.pc = "idle" /\ status = "CLEAN_NEEDED" => OpensPage(save.at)
  /\ save.pc = "cleaned" => OpensPage(save.at)

-----------------------------------------------------------------------------
(* Two pages. *)

LEMMA OnePage ==
  ASSUME AsBuilt
  PROVE  /\ Bank = 0 .. 1 /\ Pages = 0 .. 2 /\ Capacity = EE_NB_MAX_ELT /\ 2 \in Pages
         /\ \A c \in Bank : /\ c \in Int /\ c \in Pages /\ FirstPage(c) = c /\ LastPage(c) = c
                           /\ PoolOf(c) = {c} /\ NextPool(c) \in Bank /\ NextPool(c) # c
                           /\ NextPool(NextPool(c)) = c /\ NextPool(c) + nb_pages - 1 = NextPool(c)
                           /\ c + 1 \in {NextPool(c), 2} /\ PoolOf(NextPool(c)) = {NextPool(c)}
                           /\ \A p \in Bank : p # c => p = NextPool(c)
<1>1. nb_pages = 1 /\ EE_NB_MAX_ELT \in Nat
  BY Numbers DEF AsBuilt
<1>2. /\ Bank = 0 .. 1 /\ Pages = 0 .. 2 /\ Capacity = EE_NB_MAX_ELT /\ 2 \in Pages
  BY <1>1 DEF Bank, Pages, Capacity
<1>3. ASSUME NEW c \in Bank
      PROVE  /\ c \in Int /\ c \in Pages /\ FirstPage(c) = c /\ LastPage(c) = c
             /\ PoolOf(c) = {c} /\ NextPool(c) \in Bank /\ NextPool(c) # c
             /\ NextPool(NextPool(c)) = c /\ NextPool(c) + nb_pages - 1 = NextPool(c)
             /\ c + 1 \in {NextPool(c), 2} /\ PoolOf(NextPool(c)) = {NextPool(c)}
             /\ \A p \in Bank : p # c => p = NextPool(c)
  <2>1. c = 0 \/ c = 1
    BY <1>2
  <2>2. NextPool(0) = 1 /\ NextPool(1) = 0 /\ FirstPage(0) = 0 /\ FirstPage(1) = 1
    BY <1>1 DEF NextPool, FirstPage
  <2>3. PoolOf(0) = {0} /\ PoolOf(1) = {1} /\ LastPage(0) = 0 /\ LastPage(1) = 1
    BY <1>1, <2>2 DEF PoolOf, LastPage
  <2> QED BY <1>1, <1>2, <2>1, <2>2, <2>3
<1> QED BY <1>2, <1>3

\* What is written up to slot o is counted so by a power-up.
LEMMA HoldsIs ==
  ASSUME AsBuilt, NEW fl \in FlashType, NEW c \in Bank, NEW o \in 0 .. EE_NB_MAX_ELT,
         NEW s \in {RECEIVE, ACTIVE}, Holds(fl, c, o, s)
  PROVE  Used(fl, c, o, s) /\ Placed(c, o) = o
<1>1. PoolOf(c) = {c} /\ FirstPage(c) = c /\ c \in Int
  BY OnePage
<1>2. Used(fl, c, o, s)
  BY <1>1 DEF Used, Holds
<1>3. EE_NB_MAX_ELT * (c - c) = 0 /\ o \in Int
  BY <1>1, Numbers
<1> QED BY <1>1, <1>2, <1>3 DEF Placed

\* A page is read by its own elements alone.
LEMMA PageRead ==
  ASSUME AsBuilt, NEW fl \in FlashType, NEW g \in FlashType, NEW c \in Bank,
         g[c].el = fl[c].el, NEW a
  PROVE  ReadEl(g, a, c) = ReadEl(fl, a, c)
<1>0. c \in Int
  BY OnePage
<1>1. c \in PoolOf(c) /\ c <= c /\ FirstPage(c) = c
  BY <1>0, OnePage
<1>2. \A p \in FirstPage(c) .. c : g[p].el = fl[p].el
  BY <1>0, <1>1
<1>3. \A p \in c + 1 .. c : FALSE
  BY <1>0
<1> QED BY <1>0, <1>1, <1>2, <1>3, ReadSame

LEMMA BlankReads ==
  ASSUME AsBuilt, NEW fl \in FlashType, NEW c \in Bank, \A i \in Slots : fl[c].el[i] = Blank, NEW a
  PROVE  ReadEl(fl, a, c) = None
<1>1. FirstPage(c) = c /\ c \in Int /\ FirstPage(c) .. c = {c}
  BY OnePage
<1>2. Hits(fl, a, c) = {}
  BY <1>1, Words DEF Hits
<1> QED BY <1>2 DEF ReadEl

\* An element programmed behind the others of a page.
LEMMA Appended ==
  ASSUME AsBuilt, NEW fl \in FlashType, NEW c \in Bank, NEW o \in Slots, NEW s, Holds(fl, c, o, s),
         NEW w \in Word, w # Blank, NEW g, g = Program(fl, c, o, w)
  PROVE  /\ g \in FlashType /\ Holds(g, c, o + 1, s)
         /\ Unheaded(fl) /\ s # ERASED => Unheaded(g)
         /\ \A q \in Pages \ {c} : g[q] = fl[q] /\ GetState(g, q) = GetState(fl, q)
         /\ \A j \in Slots : g[c].el[j] = IF j = o THEN w ELSE fl[c].el[j]
         /\ \A a : ReadEl(g, a, c) = IF w \in Element /\ w.addr = a THEN w.data ELSE ReadEl(fl, a, c)
<1>1. c \in Pages /\ o \in Int /\ \A i \in Slots : i \in Int
  BY OnePage, Numbers DEF Slots
<1>2. fl[c].el[o] = Blank /\ \A i \in Slots : i >= o => fl[c].el[i] = Blank
  BY <1>1 DEF Holds
<1>3. /\ g \in FlashType
      /\ \A q \in Pages : g[q].hdr = fl[q].hdr /\ GetState(g, q) = GetState(fl, q)
      /\ \A q \in Pages \ {c} : g[q] = fl[q]
      /\ \A j \in Slots : g[c].el[j] = IF j = o THEN w ELSE fl[c].el[j]
  BY <1>1, <1>2, ProgramIs
<1>4. Holds(g, c, o + 1, s)
  <2>1. GetState(g, c) = s
    BY <1>1, <1>3 DEF Holds
  <2>2. \A i \in Slots : g[c].el[i] = Blank <=> i >= o + 1
    BY <1>1, <1>3 DEF Holds
  <2> QED BY <2>1, <2>2 DEF Holds
<1>5. ASSUME Unheaded(fl), s # ERASED PROVE Unheaded(g)
  <2>1. fl[c].hdr # {}
    BY <1>1, <1>5, States DEF Holds
  <2> QED BY <1>3, <1>5, <2>1 DEF Unheaded
<1>6. \A a : ReadEl(g, a, c) = IF w \in Element /\ w.addr = a THEN w.data ELSE ReadEl(fl, a, c)
  BY <1>2, ReadAppended
<1> QED BY <1>3, <1>4, <1>5, <1>6

\* A header word programmed on a page.
LEMMA HeaderSet ==
  ASSUME AsBuilt, NEW fl \in FlashType, NEW p \in Bank, NEW s \in RECEIVE .. ERASING,
         GetState(fl, p) <= s, NEW g, g = SetState(fl, p, s)
  PROVE  /\ g \in FlashType
         /\ Unheaded(fl) => Unheaded(g)
         /\ GetState(g, p) = s /\ \A q \in Pages : g[q].el = fl[q].el
         /\ \A q \in Pages \ {p} : g[q] = fl[q] /\ GetState(g, q) = GetState(fl, q)
         /\ \A q \in Bank : \A a : ReadEl(g, a, q) = ReadEl(fl, a, q)
<1>1. p \in Pages /\ Bank \subseteq Pages
  BY Numbers
<1>2. /\ g \in FlashType /\ g[p].hdr = fl[p].hdr \cup {s} /\ GetState(g, p) = s
      /\ \A q \in Pages : g[q].el = fl[q].el
      /\ \A q \in Pages \ {p} : g[q] = fl[q] /\ GetState(g, q) = GetState(fl, q)
  BY <1>1, SetStateIs
<1>3. Unheaded(fl) => Unheaded(g)
  BY <1>2 DEF Unheaded
<1>4. \A q \in Bank : \A a : ReadEl(g, a, q) = ReadEl(fl, a, q)
  BY <1>1, <1>2, PageRead
<1> QED BY <1>2, <1>3, <1>4
-----------------------------------------------------------------------------
(* How a step of the emulation looks to its caller. *)

With(r) == [seen EXCEPT ![r.addr] = r.data]

\* The call, or the power-up, goes on.
GoesOn ==
  /\ job'.pc # "idle" /\ job.pc # "idle" /\ Unseen
  /\ job.pc = "off" => job'.op \in {"recover", "reformat"}
  /\ job.pc # "off" => job'.op = job.op /\ job'.asked = job.asked /\ job.op # "clean"

Ended == job.pc # "idle" /\ job' = NoJob /\ doubt' = None
PowerUpEnds == Ended /\ job.op \in {"recover", "reformat"} /\ seen' = seen /\ status' = "OK"
CleanEnds == /\ Ended /\ job.op = "clean" /\ seen' = seen /\ status' \in {"OK", "ERROR"}
             /\ Current' = Current /\ flash'[Current] = flash[Current]
WriteEnds == /\ Ended /\ job.op = "write" /\ seen' = With(doubt) /\ status' \in {"OK", "CLEAN_NEEDED"}
             /\ status' = "CLEAN_NEEDED" => flash'[Current'].el[0].addr = doubt.addr

Served == GoesOn \/ PowerUpEnds \/ CleanEnds \/ WriteEnds

LEMMA StorePhases ==
  ASSUME StoreInv
  PROVE  /\ job.pc \notin {"fix", "valid"}
         /\ job.pc = "off" => Lost
         /\ job.pc = "idle" => Resting
         /\ job.pc = "sweep" => PoweringUp
         /\ job.pc = "first" => Formatting
         /\ job.pc = "erase" => Formatting \/ Cleaning
         /\ job.pc \in {"el", "receive", "mark", "copy", "activate"} =>
              Asking /\ job.op = "write" /\ job.asked \in Element /\ doubt = job.asked
         /\ job.op = "clean" => Cleaning
         /\ job.op = "write" => job.pc \in {"el", "receive", "mark", "copy", "activate"}
         /\ job.pc = "idle" => job.op = "none"
<1>1. /\ Lost => job.pc = "off" /\ job.op = "none"
      /\ Resting => job.pc = "idle" /\ job.op = "none"
  BY DEF Lost, Resting, Off, NoJob
<1>2. /\ Formatting => job.pc \in {"erase", "first"} /\ job.op = "reformat"
      /\ PoweringUp => job.pc = "sweep" /\ job.op = "recover"
      /\ Cleaning => job.pc = "erase" /\ job.op = "clean"
      /\ Asking => job.pc \in {"el", "receive", "mark", "copy", "activate"}
  BY DEF Formatting, PoweringUp, Cleaning, Asking, Writing, Opening, Transferring
<1> QED BY <1>1, <1>2 DEF StoreInv

LEMMA StoreKnown ==
  ASSUME AsBuilt, StoreInv
  PROVE  /\ Global /\ flash \in FlashType /\ Unheaded(flash) /\ flash[2] = BlankPage
         /\ job \in JobType /\ PlaceOf(pv) /\ Current \in Bank /\ OldPage \in Bank /\ OldPage # Current
         /\ Current \in Pages /\ OldPage \in Pages /\ 2 \in Pages \ {Current} /\ 2 \in Pages \ {OldPage}
         /\ pv.next_write_offset \in 0 .. EE_NB_MAX_ELT
         /\ pv.nb_written_elements = pv.next_write_offset /\ Capacity = EE_NB_MAX_ELT
         /\ seen \in [Addr -> Data \cup {None}] /\ doubt \in Element \cup {None}
         /\ status \in {"OFF", "OK", "CLEAN_NEEDED", "ERROR", "STATE_ERROR"} /\ crashes \in 0 .. MaxCrashes
<1>1. Global /\ Current \in Bank
  BY Known DEF StoreInv
<1>2. pv.nb_written_elements = pv.next_write_offset
  <2>1. /\ pv.nb_written_elements = Placed(Current, pv.next_write_offset)
        /\ pv.next_write_offset \in 0 .. EE_NB_MAX_ELT
    BY <1>1, Known
  <2>2. FirstPage(Current) = Current /\ Current \in Int
    BY <1>1, OnePage
  <2>3. EE_NB_MAX_ELT * (Current - Current) = 0
    BY <2>2, Numbers
  <2> QED BY <2>1, <2>2, <2>3 DEF Placed
<1>3. /\ OldPage \in Bank /\ OldPage # Current /\ Current \in Pages /\ OldPage \in Pages
      /\ 2 \in Pages \ {Current} /\ 2 \in Pages \ {OldPage}
  BY <1>1, OnePage DEF OldPage
<1> QED BY <1>1, <1>2, <1>3, Known, OnePage DEF StoreInv

\* What a step inside a call, or of the power-up, keeps for the caller.
LEMMA Onward ==
  ASSUME StoreInv, Remember, job.pc # "idle", job'.pc \notin {"idle", "off"}, job.op # "clean",
         \/ job.pc # "off" /\ job'.op = job.op /\ job'.asked = job.asked
         \/ job.pc = "off" /\ job.op = "none" /\ job'.op \in {"recover", "reformat"}
  PROVE  GoesOn
<1>1. job.op = "write" => doubt = job.asked
  BY StorePhases
<1>2. job.op # "format"
  BY DEF StoreInv, Lost, Formatting, PoweringUp, Resting, Cleaning, Off, NoJob
<1>3. seen' = seen /\ doubt' = doubt
  BY <1>1, <1>2 DEF Remember
<1>4. Answer' = Answer
  BY DEF Answer
<1> QED BY <1>3, <1>4 DEF GoesOn, Unseen

\* The common part of the invariant, after a step that keeps the place or sets
\* a new one.
LEMMA StoreInvNext ==
  ASSUME flash' \in FlashType, Unheaded(flash'), flash'[2] = BlankPage, PlaceOf(pv'), job' \in JobType,
         status' \in {"OFF", "OK", "CLEAN_NEEDED", "ERROR", "STATE_ERROR"}, crashes' \in 0 .. MaxCrashes,
         seen' \in [Addr -> Data \cup {None}], doubt' \in Element \cup {None},
         \/ Lost' \/ Formatting' \/ PoweringUp' \/ Resting' \/ Cleaning'
         \/ (Asking' /\ job'.op = "write" /\ job'.asked \in Element /\ doubt' = job'.asked)
  PROVE  StoreInv'
<1>1. Global'
  BY GlobalNext
<1> QED BY <1>1 DEF StoreInv

LEMMA StoreAtStart ==
  ASSUME AsBuilt, SeenInit
  PROVE  StoreInv
<1>1. Global /\ BlankPool(flash, Bank) /\ flash[2] = BlankPage
  <2>1. Inv
    BY InvAtStart DEF SeenInit
  <2> QED BY <2>1, OnePage, Numbers DEF Inv, SeenInit, Init, BlankPool
<1>2. job = Off /\ status = "OFF" /\ pv = FreshVars /\ seen = [a \in Addr |-> None] /\ doubt = None
  BY DEF SeenInit, Init
<1> QED BY <1>1, <1>2 DEF StoreInv, Lost, NothingStored

\* A power-up finds the page in use.
LEMMA TakesThePage ==
  ASSUME AsBuilt, NEW fl \in FlashType, NEW c \in Bank, fl[2] = BlankPage,
         GetState(fl, c) = ACTIVE, GetState(fl, NextPool(c)) = ERASED
  PROVE  Found(fl) # {} /\ Candidate(fl) = <<ACTIVE, c>>
<1>1. GetState(fl, 2) = ERASED
  BY OnePage, BlankState
<1>2. Reliable(fl, ACTIVE, c)
  BY <1>1, OnePage DEF Reliable
<1>3. ASSUME NEW f \in Found(fl) PROVE f = <<ACTIVE, c>>
  <2>1. f \in {RECEIVE, ACTIVE} \X Bank /\ GetState(fl, f[2]) = f[1]
    BY DEF Found, Reliable
  <2>2. f = <<f[1], f[2]>> /\ f[1] # ERASED /\ f[2] \in Bank
    BY <2>1 DEF RECEIVE, ACTIVE, ERASED
  <2>3. f[2] = c
    BY <2>1, <2>2, OnePage
  <2> QED BY <2>1, <2>2, <2>3
<1>4. Found(fl) = {<<ACTIVE, c>>}
  BY <1>2, <1>3 DEF Found
<1>5. Later(<<ACTIVE, c>>, <<ACTIVE, c>>)
  BY OnePage DEF Later, ACTIVE
<1> QED BY <1>4, <1>5 DEF Candidate

LEMMA BuiltPowerUp ==
  ASSUME AsBuilt, StoreInv, PowerUp, Remember
  PROVE  StoreInv' /\ Served
<1>1. /\ Lost /\ job.pc = "off" /\ job.op = "none" /\ UNCHANGED <<flash, status, crashes>>
      /\ flash \in FlashType /\ Unheaded(flash) /\ flash[2] = BlankPage /\ PlaceOf(pv)
      /\ status \in {"OFF", "OK", "CLEAN_NEEDED", "ERROR", "STATE_ERROR"} /\ crashes \in 0 .. MaxCrashes
      /\ seen \in [Addr -> Data \cup {None}] /\ doubt \in Element \cup {None}
  BY StorePhases, StoreKnown DEF PowerUp, Lost, Off, NoJob
<1>2. CASE NothingStored
  <2>1. job' = Reformat /\ pv' = pv
    BY <1>1, <1>2, NothingFound DEF PowerUp, NothingStored
  <2>2. job' \in JobType /\ job'.pc = "erase" /\ job'.op = "reformat"
    BY <2>1, CallTypes
  <2>3. GoesOn
    BY <1>1, <2>2, Onward
  <2>4. seen' = seen /\ doubt' = doubt /\ NothingStored'
    BY <1>1, <1>2, <2>3 DEF GoesOn, Unseen, NothingStored
  <2>5. Formatting'
    BY <1>1, <2>1, <2>2, <2>4 DEF Formatting, Lost
  <2> QED BY <1>1, <2>1, <2>2, <2>3, <2>4, <2>5, StoreInvNext DEF Served
<1>3. CASE ~ NothingStored
  <2>1. PICK c \in Bank, o \in 0 .. EE_NB_MAX_ELT :
          /\ Holds(flash, c, o, ACTIVE) /\ Reads(flash, c)
          /\ GetState(flash, NextPool(c)) = ERASED
    BY <1>1, <1>3 DEF Lost
  <2>2. Found(flash) # {} /\ Candidate(flash)[1] = ACTIVE /\ Candidate(flash)[2] = c
    <3>1. GetState(flash, c) = ACTIVE
      BY <2>1 DEF Holds
    <3>2. Found(flash) # {} /\ Candidate(flash) = <<ACTIVE, c>>
      BY <1>1, <2>1, <3>1, TakesThePage
    <3> QED BY <3>2
  <2>3. Adopt(c)
    BY <2>2, OnePage DEF PowerUp
  <2>4. Used(flash, c, o, ACTIVE) /\ GetState(flash, c) = ACTIVE
    BY <1>1, <2>1, HoldsIs DEF Holds
  <2>5. PlaceOf(pv') /\ pv'.current_write_page = c /\ pv'.next_write_offset = o
    BY <1>1, <2>3, <2>4, Adopting DEF Adopt
  <2>6. job' = [NoJob EXCEPT !.op = "recover", !.pc = "sweep"]
    BY <2>3, <2>4 DEF Adopt, RECEIVE, ACTIVE
  <2>7. job' \in JobType /\ job'.pc = "sweep" /\ job'.op = "recover"
    BY <2>6, CallTypes DEF JobType
  <2>8. GoesOn
    BY <1>1, <2>7, Onward
  <2>9. seen' = seen /\ doubt' = doubt /\ Current' = c /\ flash' = flash
    BY <1>1, <2>5, <2>8 DEF GoesOn, Unseen, Current
  <2>10. PoweringUp'
    <3>1. OldPage' = NextPool(c)
      BY <2>9 DEF OldPage
    <3> QED BY <2>1, <2>5, <2>7, <2>9, <3>1 DEF PoweringUp, Settled, InPage, Reads
  <2> QED BY <1>1, <2>5, <2>7, <2>8, <2>9, <2>10, StoreInvNext DEF Served
<1> QED BY <1>2, <1>3
\* A call ends with a page in use: what is read then is what the caller sees.
LEMMA ComesToRest ==
  ASSUME Remember, job' = NoJob, status' \in {"OK", "CLEAN_NEEDED", "ERROR", "STATE_ERROR"},
         flash' \in FlashType, Unheaded(flash'), flash'[2] = BlankPage, PlaceOf(pv'),
         crashes' \in 0 .. MaxCrashes, Holds(flash', Current', pv'.next_write_offset, ACTIVE),
         GetState(flash', OldPage') \in IF status' = "CLEAN_NEEDED" THEN {ERASING} ELSE {ERASED, ERASING}
  PROVE  /\ StoreInv' /\ doubt' = None
         /\ seen' = [a \in Addr |-> ReadEl(flash', a, Current')]
<1>1. seen' = [a \in Addr |-> ReadEl(flash', a, Current')] /\ doubt' = None
  BY Ends
<1>2. seen' \in [Addr -> Data \cup {None}]
  <2>1. Current' \in Bank
    BY DEF PlaceOf, Current
  <2>2. \A a \in Addr : ReadEl(flash', a, Current') \in Data \cup {None}
    BY <2>1, ReadIs
  <2> QED BY <1>1, <2>2
<1>3. Settled'
  <2>1. Reads(flash, Current)'
    BY <1>1 DEF Reads
  <2> QED BY <2>1 DEF Settled, InPage
<1>4. Resting'
  BY <1>1, <1>3 DEF Resting
<1> QED BY <1>1, <1>2, <1>4, CallTypes, StoreInvNext

\* What is read as before was seen before.
LEMMA SeenAgain ==
  ASSUME AsBuilt, StoreInv, seen' = [a \in Addr |-> ReadEl(flash', a, Current')],
         \A a \in Addr : ReadEl(flash', a, Current') = seen[a]
  PROVE  seen' = seen
<1>1. seen \in [Addr -> Data \cup {None}]
  BY StoreKnown
<1> QED BY <1>1

LEMMA BuiltSweep ==
  ASSUME AsBuilt, StoreInv, SweepPage \/ SweepDone, Remember
  PROVE  StoreInv' /\ Served
<1>1. /\ PoweringUp /\ job.pc = "sweep" /\ job.op = "recover"
      /\ flash \in FlashType /\ Unheaded(flash) /\ flash[2] = BlankPage /\ PlaceOf(pv)
      /\ crashes \in 0 .. MaxCrashes /\ Current \in Bank
  BY StorePhases, StoreKnown DEF SweepPage, SweepDone, PoweringUp
<1>2. /\ InPage(ACTIVE) /\ Reads(flash, Current) /\ GetState(flash, OldPage) = ERASED
  BY <1>1 DEF PoweringUp, Settled
<1>3. Unerased = {}
  BY <1>1, <1>2, OnePage DEF Unerased, OldPage
<1>4. job' = NoJob /\ status' = "OK" /\ UNCHANGED <<flash, pv, crashes>>
  BY <1>3 DEF SweepPage, SweepDone, Done
<1>5. Current' = Current /\ OldPage' = OldPage
  BY <1>4 DEF Current, OldPage
<1>6. StoreInv' /\ doubt' = None /\ seen' = [a \in Addr |-> ReadEl(flash', a, Current')]
  BY <1>1, <1>2, <1>4, <1>5, ComesToRest DEF InPage
<1>7. seen' = seen
  BY <1>2, <1>4, <1>5, <1>6, SeenAgain DEF Reads
<1> QED BY <1>1, <1>4, <1>6, <1>7 DEF Served, PowerUpEnds, Ended

\* A page that is erased, of the bank that is formatted or of the old pool.
LEMMA BuiltErase ==
  ASSUME AsBuilt, StoreInv, ErasePage, Remember
  PROVE  StoreInv' /\ Served
<1>1. /\ job.pc = "erase" /\ flash' = Erase(flash, job.at) /\ UNCHANGED <<pv, crashes>>
      /\ flash \in FlashType /\ Unheaded(flash) /\ flash[2] = BlankPage /\ PlaceOf(pv) /\ job \in JobType
      /\ crashes \in 0 .. MaxCrashes /\ Current \in Bank /\ OldPage \in Bank /\ OldPage # Current
      /\ (Formatting \/ Cleaning) /\ job.at \in Bank /\ Bank \subseteq Pages
      /\ status \in {"OFF", "OK", "CLEAN_NEEDED", "ERROR", "STATE_ERROR"}
      /\ seen \in [Addr -> Data \cup {None}] /\ doubt \in Element \cup {None}
      /\ 2 \in Pages /\ 2 \notin Bank
  BY StorePhases, StoreKnown, Known, OnePage, Numbers, SMTT(60) DEF ErasePage
<1>2. /\ flash' \in FlashType /\ flash'[job.at] = BlankPage /\ GetState(flash', job.at) = ERASED
      /\ \A q \in Pages \ {job.at} : flash'[q] = flash[q] /\ GetState(flash', q) = GetState(flash, q)
  <2>1. PICK p \in Pages : p = job.at
    BY <1>1
  <2>2. flash' = Erase(flash, p) /\ flash \in FlashType
    BY <1>1, <2>1
  <2>3. /\ flash' \in FlashType /\ flash'[p] = BlankPage /\ GetState(flash', p) = ERASED
        /\ \A q \in Pages \ {p} : flash'[q] = flash[q] /\ GetState(flash', q) = GetState(flash, q)
    BY <2>2, EraseIs
  <2> QED BY <2>1, <2>3
<1>3. Unheaded(flash') /\ flash'[2] = BlankPage
  BY <1>1, <1>2 DEF Unheaded
<1>4. Current' = Current /\ OldPage' = OldPage
  BY <1>1 DEF Current, OldPage
<1>5. CASE Formatting
  <2>1. job.op = "reformat" /\ NothingStored /\ pv = FreshVars
    BY <1>5 DEF Formatting
  <2>2. /\ job' = [job EXCEPT !.at = @ + 1] /\ job.at # 1
        \/ job' = [job EXCEPT !.pc = "first", !.at = 0]
    BY <1>1, <2>1 DEF ErasePage, LastErased, AsBuilt
  <2>3. status' = status
    BY <2>1 DEF ErasePage
  <2>4. /\ job' \in JobType /\ job'.op = "reformat" /\ job'.asked = job.asked
        /\ job'.pc \in {"erase", "first"}
        /\ job'.pc = "first" => job'.at = 0
    <3>1. 0 \in Bank /\ (job.at # 1 => job.at + 1 \in Bank)
      BY <1>1, OnePage
    <3> QED BY <1>1, <2>1, <2>2, <3>1 DEF JobType
  <2>5. GoesOn
    BY <1>1, <2>1, <2>4, Onward
  <2>6. seen' = seen /\ doubt' = doubt
    BY <2>5 DEF GoesOn, Unseen
  <2>7. NothingStored'
    BY <1>1, <1>2, <2>1, <2>6 DEF NothingStored, BlankPool
  <2>8. Formatting'
    BY <1>1, <2>1, <2>4, <2>7 DEF Formatting
  <2> QED BY <1>1, <1>2, <1>3, <2>3, <2>4, <2>5, <2>6, <2>8, StoreInvNext DEF Served
<1>6. CASE Cleaning
  <2>1. job.op = "clean" /\ job.at = OldPage /\ InPage(ACTIVE) /\ Reads(flash, Current)
    BY <1>6 DEF Cleaning, Settled
  <2>2. job' = NoJob /\ status' = "OK"
    <3>1. LastErased = job.at
      BY <1>1, <2>1, OnePage DEF LastErased, AsBuilt
    <3> QED BY <2>1, <3>1 DEF ErasePage, Done
  <2>3. /\ flash'[Current] = flash[Current] /\ GetState(flash', Current) = GetState(flash, Current)
        /\ GetState(flash', OldPage) = ERASED
    BY <1>1, <1>2, <2>1
  <2>4. StoreInv' /\ doubt' = None /\ seen' = [a \in Addr |-> ReadEl(flash', a, Current')]
    <3>1. Holds(flash', Current', pv'.next_write_offset, ACTIVE)
      BY <1>1, <1>4, <2>1, <2>3 DEF InPage, Holds
    <3> QED BY <1>1, <1>2, <1>3, <1>4, <2>2, <2>3, <3>1, ComesToRest
  <2>5. seen' = seen
    <3>1. \A a : ReadEl(flash', a, Current) = ReadEl(flash, a, Current)
      BY <1>1, <1>2, <2>3, PageRead
    <3> QED BY <1>4, <2>1, <2>4, <3>1, SeenAgain DEF Reads
  <2> QED BY <1>1, <1>4, <2>1, <2>2, <2>3, <2>4, <2>5 DEF Served, CleanEnds, Ended
<1> QED BY <1>1, <1>5, <1>6

LEMMA BuiltFirst ==
  ASSUME AsBuilt, StoreInv, SetFirstActive, Remember
  PROVE  StoreInv' /\ Served
<1>1. /\ job.pc = "first" /\ flash' = SetState(flash, 0, ACTIVE) /\ UNCHANGED <<pv, crashes>>
      /\ flash \in FlashType /\ Unheaded(flash) /\ flash[2] = BlankPage /\ PlaceOf(pv)
      /\ crashes \in 0 .. MaxCrashes /\ Formatting /\ job' = NoJob /\ status' = "OK"
  BY StorePhases, StoreKnown DEF SetFirstActive, Done
<1>2. /\ job.op = "reformat" /\ pv = FreshVars /\ BlankPool(flash, Bank) /\ \A a \in Addr : seen[a] = None
  BY <1>1 DEF Formatting, NothingStored
<1>3. /\ Current' = 0 /\ pv'.next_write_offset = 0 /\ 0 \in Bank /\ 0 \in Pages
      /\ OldPage' \in Bank /\ OldPage' # 0 /\ OldPage' \in Pages /\ 2 \in Pages \ {0}
  <2>1. Current' = 0 /\ pv'.next_write_offset = 0
    BY <1>1, <1>2, ZeroIs DEF Current
  <2> QED BY <2>1, OnePage DEF OldPage
<1>4. GetState(flash, 0) = ERASED /\ flash[0] = BlankPage /\ GetState(flash, OldPage') = ERASED
  BY <1>1, <1>2, <1>3, BlankState DEF BlankPool
<1>5. /\ flash' \in FlashType /\ Unheaded(flash') /\ GetState(flash', 0) = ACTIVE
      /\ \A q \in Pages : flash'[q].el = flash[q].el
      /\ \A q \in Pages \ {0} : flash'[q] = flash[q] /\ GetState(flash', q) = GetState(flash, q)
  <2>1. ERASED <= ACTIVE /\ ACTIVE \in RECEIVE .. ERASING
    BY DEF ERASED, RECEIVE, ACTIVE, ERASING
  <2> QED BY <1>1, <1>3, <1>4, <2>1, HeaderSet
<1>6. \A i \in Slots : flash'[0].el[i] = Blank
  BY <1>3, <1>4, <1>5, BlankPageIs
<1>7. StoreInv' /\ doubt' = None /\ seen' = [a \in Addr |-> ReadEl(flash', a, Current')]
  <2>1. Holds(flash', Current', pv'.next_write_offset, ACTIVE)
    <3>1. \A i \in Slots : i >= 0
      BY Numbers DEF Slots
    <3> QED BY <1>3, <1>5, <1>6, <3>1 DEF Holds
  <2> QED BY <1>1, <1>3, <1>4, <1>5, <2>1, ComesToRest
<1>8. seen' = seen
  <2>1. \A a : ReadEl(flash', a, 0) = None
    BY <1>3, <1>5, <1>6, BlankReads
  <2> QED BY <1>2, <1>3, <1>7, <2>1, SeenAgain
<1> QED BY <1>1, <1>2, <1>7, <1>8 DEF Served, PowerUpEnds, Ended
-----------------------------------------------------------------------------
(* A write, and the transfer when the page is full. *)

\* The transfer copies each address once, in their order: there is room.
LEMMA RoomForOne ==
  ASSUME AsBuilt, StoreInv, job.pc = "el"
  PROVE  ~ Full /\ pv.next_write_offset \in Slots
<1>1. /\ pv.next_write_offset \in 0 .. EE_NB_MAX_ELT /\ EE_NB_MAX_ELT \in Nat \ {0}
      /\ Asking /\ job.asked \in Element /\ job.var \in 0 .. EE_NB_MAX_ELT
  BY StorePhases, StoreKnown, Known, Numbers
<1>2. job.asked.addr \in 0 .. EE_NB_MAX_ELT - 1
  <2>1. Addr \subseteq 0 .. EE_NB_MAX_ELT - 1
    BY OnePage DEF AsBuilt
  <2> QED BY <1>1, <2>1 DEF Element
<1>3. CASE Writing
  BY <1>1, <1>3 DEF Writing, Full, Slots
<1>4. CASE Opening
  BY <1>1, <1>4 DEF Opening, Full, Slots
<1>5. CASE Transferring
  <2>1. pv.next_write_offset + 1 <= job.var + (IF job.asked.addr < job.var THEN 0 ELSE 1)
    BY <1>5 DEF Transferring
  <2> QED BY <1>1, <1>2, <2>1 DEF Full, Slots
<1> QED BY <1>1, <1>3, <1>4, <1>5 DEF Asking

\* A call that begins, or is turned down at once.
Begins(op, asked) ==
  /\ job.pc = "idle" /\ doubt = None /\ seen' = seen
  /\ \/ /\ job'.op = op /\ job'.pc \notin {"idle", "off"} /\ job'.asked = asked /\ doubt' = asked
     \/ op = "write" /\ job' = NoJob /\ status' = "STATE_ERROR" /\ doubt' = None

LEMMA BuiltWrite ==
  ASSUME AsBuilt, StoreInv, Remember, NEW a \in Addr, NEW d \in Data, EEE_Write(a, d)
  PROVE  StoreInv' /\ Begins("write", [addr |-> a, data |-> d])
<1>1. /\ Resting /\ job.pc = "idle" /\ status # "CLEAN_NEEDED" /\ UNCHANGED <<flash, pv, crashes>>
      /\ flash \in FlashType /\ Unheaded(flash) /\ flash[2] = BlankPage /\ PlaceOf(pv)
      /\ crashes \in 0 .. MaxCrashes /\ doubt = None /\ Settled
      /\ status \in {"OFF", "OK", "CLEAN_NEEDED", "ERROR", "STATE_ERROR"}
      /\ seen \in [Addr -> Data \cup {None}]
      /\ pv.next_write_offset \in 0 .. EE_NB_MAX_ELT
      /\ pv.nb_written_elements = pv.next_write_offset /\ Capacity = EE_NB_MAX_ELT
  BY StorePhases, StoreKnown DEF EEE_Write, Ready, Resting
<1>2. Current' = Current /\ OldPage' = OldPage /\ Full' = Full
  BY <1>1 DEF Current, OldPage, Full
<1> DEFINE e == [addr |-> a, data |-> d]
           appending == [NoJob EXCEPT !.pc = "el", !.op = "write", !.asked = e, !.el = e]
<1>3. e \in Element
  BY DEF Element
<1>4. /\ appending \in JobType /\ appending.pc = "el" /\ appending.op = "write" /\ appending.el = e
      /\ appending.asked = e /\ appending.then = "done" /\ appending.var = 0
  BY <1>3, CallTypes, ZenonT(60) DEF JobType, NoJob
<1>5. \/ pv.nb_written_elements < Capacity /\ job' = appending /\ status' = status
      \/ /\ GetState(flash, OldPage) = ERASED
         /\ job' = [appending EXCEPT !.pc = "receive"] /\ status' = status
      \/ Done("STATE_ERROR")
  BY ZenonT(30) DEF EEE_Write, OldPage
<1> HIDE DEF e, appending
<1>6. CASE Done("STATE_ERROR")
  <2>1. job' = NoJob /\ status' = "STATE_ERROR"
    BY <1>6 DEF Done
  <2>2. StoreInv' /\ doubt' = None /\ seen' = [x \in Addr |-> ReadEl(flash', x, Current')]
    BY <1>1, <1>2, <2>1, ComesToRest DEF Settled, InPage
  <2>3. seen' = seen
    BY <1>1, <1>2, <2>2, SeenAgain DEF Settled, Reads
  <2> QED BY <1>1, <2>1, <2>2, <2>3 DEF Begins
<1>7. CASE ~ Done("STATE_ERROR")
  <2>1. /\ job' \in JobType /\ job'.pc \in {"el", "receive"} /\ job'.op = "write" /\ job'.asked = e
        /\ job'.el = e /\ job'.then = "done" /\ job'.var = 0 /\ status' = status
        /\ job'.pc = "el" => pv.nb_written_elements < Capacity
        /\ job'.pc = "receive" => GetState(flash, OldPage) = ERASED
    BY <1>4, <1>5, <1>7 DEF JobType
  <2>2. seen' = seen /\ doubt' = e
    BY <2>1 DEF Remember
  <2>3. Settled'
    BY <1>1, <1>2, <2>2 DEF Settled, InPage, Reads
  <2>4. job'.pc = "el" => ~ Full'
    BY <1>1, <1>2, <2>1, Numbers DEF Full
  <2>5. Writing'
    BY <1>1, <1>2, <2>1, <2>3, <2>4 DEF Writing
  <2>6. StoreInv'
    BY <1>1, <1>3, <2>1, <2>2, <2>5, StoreInvNext DEF Asking
  <2> QED BY <1>1, <2>1, <2>2, <2>6 DEF Begins, e
<1> QED BY <1>6, <1>7

LEMMA BuiltClean ==
  ASSUME AsBuilt, StoreInv, EEE_Clean, Remember
  PROVE  StoreInv' /\ Begins("clean", None) /\ Current' = Current /\ flash' = flash
<1>1. /\ Resting /\ job.pc = "idle" /\ status = "CLEAN_NEEDED" /\ UNCHANGED <<flash, pv, crashes>>
      /\ flash \in FlashType /\ Unheaded(flash) /\ flash[2] = BlankPage /\ PlaceOf(pv)
      /\ crashes \in 0 .. MaxCrashes /\ doubt = None /\ Settled /\ GetState(flash, OldPage) = ERASING
      /\ seen \in [Addr -> Data \cup {None}] /\ OldPage \in Bank
  BY StorePhases, StoreKnown DEF EEE_Clean, Resting
<1>2. Current' = Current /\ OldPage' = OldPage
  BY <1>1 DEF Current, OldPage
<1>3. job' = [NoJob EXCEPT !.pc = "erase", !.op = "clean", !.at = OldPage] /\ status' = status
  BY <1>1 DEF EEE_Clean, OldPage
<1>4. job' \in JobType /\ job'.pc = "erase" /\ job'.op = "clean" /\ job'.at = OldPage /\ job'.asked = None
  BY <1>1, <1>3, CallTypes, ZenonT(60) DEF JobType, NoJob
<1>5. seen' = seen /\ doubt' = None
  BY <1>1, <1>4 DEF Remember
<1>6. Cleaning'
  BY <1>1, <1>2, <1>4, <1>5 DEF Cleaning, Settled, InPage, Reads
<1>7. StoreInv'
  BY <1>1, <1>3, <1>4, <1>5, <1>6, StoreInvNext
<1> QED BY <1>1, <1>2, <1>4, <1>5, <1>7 DEF Begins

LEMMA BuiltRefused ==
  ASSUME AsBuilt, StoreInv, Refused, Remember
  PROVE  StoreInv' /\ Served
<1>1. job.op = "clean"
  BY DEF Refused, AsBuilt
<1>2. /\ Cleaning /\ job.pc = "erase" /\ UNCHANGED <<flash, pv, crashes>> /\ job' = NoJob /\ status' = "ERROR"
      /\ flash \in FlashType /\ Unheaded(flash) /\ flash[2] = BlankPage /\ PlaceOf(pv)
      /\ crashes \in 0 .. MaxCrashes
  BY <1>1, StorePhases, StoreKnown DEF Refused, Done, Cleaning
<1>3. Current' = Current /\ OldPage' = OldPage
  BY <1>2 DEF Current, OldPage
<1>4. StoreInv' /\ doubt' = None /\ seen' = [a \in Addr |-> ReadEl(flash', a, Current')]
  BY <1>2, <1>3, ComesToRest DEF Cleaning, Settled, InPage
<1>5. seen' = seen
  BY <1>2, <1>3, <1>4, SeenAgain DEF Cleaning, Settled, Reads
<1> QED BY <1>1, <1>2, <1>3, <1>4, <1>5 DEF Served, CleanEnds, Ended

LEMMA BuiltReceive ==
  ASSUME AsBuilt, StoreInv, StartReceive, Remember
  PROVE  StoreInv' /\ Served
<1>1. /\ job.pc = "receive" /\ Asking /\ job.op = "write" /\ job.asked \in Element /\ doubt = job.asked
      /\ flash' = SetState(flash, OldPage, RECEIVE) /\ UNCHANGED <<status, crashes>>
      /\ pv' = [FreshVars EXCEPT !.current_write_page = OldPage]
      /\ job' = [job EXCEPT !.pc = "el", !.then = "mark"]
      /\ flash \in FlashType /\ Unheaded(flash) /\ flash[2] = BlankPage /\ job \in JobType
      /\ crashes \in 0 .. MaxCrashes /\ Current \in Bank /\ OldPage \in Bank /\ OldPage # Current
      /\ status \in {"OFF", "OK", "CLEAN_NEEDED", "ERROR", "STATE_ERROR"}
      /\ seen \in [Addr -> Data \cup {None}]
      /\ Current \in Pages /\ OldPage \in Pages /\ 2 \in Pages \ {OldPage}
  BY StorePhases, StoreKnown DEF StartReceive, OldPage
<1>2. /\ Writing /\ Settled /\ GetState(flash, OldPage) = ERASED /\ job.el = job.asked /\ job.var = 0
  BY <1>1 DEF Asking, Writing, Opening, Transferring
<1>3. flash[OldPage] = BlankPage
  BY <1>1, <1>2, States DEF Unheaded
<1>4. /\ flash' \in FlashType /\ Unheaded(flash') /\ GetState(flash', OldPage) = RECEIVE
      /\ \A q \in Pages : flash'[q].el = flash[q].el
      /\ \A q \in Pages \ {OldPage} : flash'[q] = flash[q] /\ GetState(flash', q) = GetState(flash, q)
      /\ \A q \in Bank : \A a : ReadEl(flash', a, q) = ReadEl(flash, a, q)
  <2>1. ERASED <= RECEIVE /\ RECEIVE \in RECEIVE .. ERASING
    BY DEF ERASED, RECEIVE, ERASING
  <2> QED BY <1>1, <1>2, <2>1, HeaderSet
<1>5. PlaceOf(pv') /\ Current' = OldPage /\ pv'.next_write_offset = 0 /\ OldPage' = Current
  <2>1. /\ pv' = [current_write_page |-> OldPage, nb_written_elements |-> 0, next_write_offset |-> 0]
    BY <1>1 DEF FreshVars
  <2>2. FirstPage(OldPage) = OldPage /\ OldPage \in Int /\ OldPage' = NextPool(pv'.current_write_page)
        /\ NextPool(OldPage) = Current
    BY <1>1, OnePage DEF OldPage, Current
  <2>3. Placed(OldPage, 0) = 0
    <3>1. EE_NB_MAX_ELT * (OldPage - OldPage) = 0
      BY <2>2, Numbers
    <3> QED BY <2>2, <3>1 DEF Placed
  <2>4. /\ pv'.current_write_page = OldPage /\ pv'.nb_written_elements = 0 /\ pv'.next_write_offset = 0
        /\ pv' \in PvType
    <3>1. OldPage \in Pages /\ 0 \in 0 .. Capacity /\ 0 \in 0 .. EE_NB_MAX_ELT
      BY <1>1, Numbers
    <3> QED BY <2>1, <3>1 DEF PvType
  <2> QED BY <1>1, <2>2, <2>3, <2>4 DEF PlaceOf, Current
<1>6. /\ job' \in JobType /\ job'.pc = "el" /\ job'.then = "mark" /\ job'.op = job.op
      /\ job'.asked = job.asked /\ job'.el = job.el /\ job'.var = job.var
  BY <1>1 DEF JobType
<1>7. GoesOn
  BY <1>1, <1>6, Onward
<1>8. seen' = seen /\ doubt' = doubt
  BY <1>7 DEF GoesOn, Unseen
<1>9. Opening'
  <2>1. Holds(flash', OldPage, 0, RECEIVE)
    <3>1. \A i \in Slots : i >= 0 /\ flash'[OldPage].el[i] = Blank
      BY <1>1, <1>3, <1>4, BlankPageIs, Numbers DEF Slots
    <3> QED BY <1>4, <3>1 DEF Holds
  <2>2. \A a \in Addr : ReadEl(flash', a, Current) = seen'[a]
    BY <1>1, <1>2, <1>4, <1>8 DEF Settled, Reads
  <2>3. GetState(flash', Current) = ACTIVE
    BY <1>1, <1>2, <1>4 DEF Settled, InPage, Holds
  <2> QED BY <1>2, <1>5, <1>6, <2>1, <2>2, <2>3 DEF Opening, InPage, Reads
<1> QED BY <1>1, <1>4, <1>5, <1>6, <1>7, <1>8, <1>9, StoreInvNext DEF Served, Asking
LEMMA BuiltAppend ==
  ASSUME AsBuilt, StoreInv, AppendElement, Remember
  PROVE  StoreInv' /\ Served
<1>1. /\ job.pc = "el" /\ Asking /\ job.op = "write" /\ job.asked \in Element /\ doubt = job.asked
      /\ pv' = [pv EXCEPT !.next_write_offset = @ + 1, !.nb_written_elements = @ + 1]
      /\ crashes' = crashes /\ flash \in FlashType /\ Unheaded(flash) /\ flash[2] = BlankPage
      /\ job \in JobType /\ PlaceOf(pv)
      /\ crashes \in 0 .. MaxCrashes /\ Current \in Bank /\ OldPage \in Bank /\ OldPage # Current
      /\ status \in {"OFF", "OK", "CLEAN_NEEDED", "ERROR", "STATE_ERROR"}
      /\ seen \in [Addr -> Data \cup {None}]
      /\ Current \in Pages /\ OldPage \in Pages \ {Current} /\ 2 \in Pages \ {Current}
  BY StorePhases, StoreKnown DEF AppendElement
<1>2. PICK o \in Slots : o = pv.next_write_offset
  BY <1>1, RoomForOne
<1>3. PICK s \in {RECEIVE, ACTIVE} : Holds(flash, Current, o, s) /\ s = GetState(flash, Current)
  BY <1>1, <1>2 DEF Asking, Writing, Settled, Opening, Transferring, InPage, Holds
<1>4. PICK e \in Element : e = job.el /\ e \in Word /\ e # Blank
  BY <1>1, Words DEF Asking, Writing, Opening, Transferring
<1>5. flash' = Program(flash, Current, o, e)
  BY <1>2, <1>4 DEF AppendElement
<1>6. /\ flash' \in FlashType /\ Holds(flash', Current, o + 1, s) /\ Unheaded(flash')
      /\ \A q \in Pages \ {Current} : flash'[q] = flash[q] /\ GetState(flash', q) = GetState(flash, q)
      /\ \A j \in Slots : flash'[Current].el[j] = IF j = o THEN e ELSE flash[Current].el[j]
      /\ \A a : ReadEl(flash', a, Current) = IF a = e.addr THEN e.data ELSE ReadEl(flash, a, Current)
  <2>1. s # ERASED /\ flash \in FlashType /\ Current \in Bank
    BY <1>1 DEF ERASED, RECEIVE, ACTIVE
  <2>2. /\ flash' \in FlashType /\ Holds(flash', Current, o + 1, s)
        /\ Unheaded(flash) /\ s # ERASED => Unheaded(flash')
        /\ \A q \in Pages \ {Current} : flash'[q] = flash[q] /\ GetState(flash', q) = GetState(flash, q)
        /\ \A j \in Slots : flash'[Current].el[j] = IF j = o THEN e ELSE flash[Current].el[j]
        /\ \A a : ReadEl(flash', a, Current) = IF e \in Element /\ e.addr = a THEN e.data ELSE ReadEl(flash, a, Current)
    BY <1>3, <1>4, <1>5, <2>1, Appended
  <2> QED BY <1>1, <2>1, <2>2
<1>7. /\ PlaceOf(pv') /\ Current' = Current /\ OldPage' = OldPage /\ pv'.next_write_offset = o + 1
  <2>1. /\ pv \in PvType /\ pv.nb_written_elements = o
        /\ Capacity = EE_NB_MAX_ELT /\ o + 1 \in 0 .. EE_NB_MAX_ELT
    BY <1>1, <1>2, StoreKnown, Numbers DEF PlaceOf, Slots
  <2>2. /\ pv' \in PvType /\ pv'.current_write_page = Current /\ pv'.next_write_offset = o + 1
        /\ pv'.nb_written_elements = o + 1
    BY <1>1, <1>2, <2>1 DEF PvType, Current
  <2>3. Placed(Current, o + 1) = o + 1
    <3>1. FirstPage(Current) = Current /\ Current \in Int
      BY <1>1, OnePage
    <3>2. EE_NB_MAX_ELT * (Current - Current) = 0
      BY <3>1, Numbers
    <3> QED BY <2>1, <3>1, <3>2 DEF Placed
  <2> QED BY <1>1, <2>2, <2>3 DEF PlaceOf, Current, OldPage
<1>8. flash'[2] = BlankPage /\ GetState(flash', OldPage) = GetState(flash, OldPage)
      /\ \A a : ReadEl(flash', a, OldPage) = ReadEl(flash, a, OldPage)
  <2>1. flash'[OldPage].el = flash[OldPage].el
    BY <1>1, <1>6
  <2>2. \A a : ReadEl(flash', a, OldPage) = ReadEl(flash, a, OldPage)
    BY <1>1, <1>6, <2>1, PageRead
  <2> QED BY <1>1, <1>6, <2>2
<1>9. CASE Writing
  <2>1. /\ e = job.asked /\ job.then = "done" /\ Reads(flash, Current)
        /\ GetState(flash, Current) = ACTIVE /\ GetState(flash, OldPage) \in {ERASED, ERASING}
    BY <1>4, <1>9 DEF Writing, Settled, InPage, Holds
  <2>2. job' = NoJob /\ status' = "OK"
    BY <2>1 DEF AppendElement, Done
  <2>3. StoreInv' /\ doubt' = None /\ seen' = [a \in Addr |-> ReadEl(flash', a, Current')]
    <3>1. Holds(flash', Current', pv'.next_write_offset, ACTIVE)
      BY <1>3, <1>6, <1>7, <2>1
    <3> QED BY <1>1, <1>6, <1>7, <1>8, <2>1, <2>2, <3>1, ComesToRest
  <2>4. seen' = With(doubt)
    BY <1>1, <1>6, <1>7, <2>1, <2>3 DEF Reads, With
  <2> QED BY <1>1, <2>2, <2>3, <2>4 DEF Served, WriteEnds, Ended
<1>10. CASE Opening \/ Transferring
  <2>1. /\ job.then \in {"mark", "copy"} /\ s = RECEIVE /\ Reads(flash, OldPage)
        /\ job.then = "mark" <=> Opening
    BY <1>1, <1>3, <1>10 DEF Opening, Transferring, InPage, Holds
  <2>2. job' = [job EXCEPT !.pc = job.then, !.el = None] /\ status' = status
    BY <2>1 DEF AppendElement
  <2>3. /\ job' \in JobType /\ job'.pc = job.then /\ job'.then = job.then /\ job'.op = job.op
        /\ job'.asked = job.asked /\ job'.var = job.var
    BY <1>1, <2>1, <2>2 DEF JobType
  <2>4. GoesOn
    BY <1>1, <2>1, <2>3, Onward
  <2>5. seen' = seen /\ doubt' = doubt
    BY <2>4 DEF GoesOn, Unseen
  <2>6. InPage(RECEIVE)' /\ Reads(flash, OldPage)'
    BY <1>6, <1>7, <1>8, <2>1, <2>5 DEF InPage, Reads
  <2>7. 0 \in Slots /\ o \in Nat /\ (flash[Current].el[0] # Blank => o # 0)
    BY <1>3, Numbers DEF Slots, Holds
  <2>8. CASE Opening
    <3>1. /\ e = job.asked /\ job.then = "mark" /\ job.var = 0 /\ o = 0 /\ GetState(flash, OldPage) = ACTIVE
          /\ job.asked.addr \in Nat
      BY <1>1, <1>2, <1>4, <2>8, Numbers DEF Opening, Element
    <3>2. flash'[Current].el[0] = job.asked /\ ReadEl(flash', job.asked.addr, Current) = job.asked.data
      BY <1>2, <1>6, <3>1
    <3>3. \A a \in Addr \ {job.asked.addr} : ReadEl(flash', a, Current) = None
      <4>1. \A i \in Slots : flash[Current].el[i] = Blank
        BY <1>3, <3>1, Numbers DEF Holds, Slots
      <4>2. \A a : ReadEl(flash, a, Current) = None
        BY <1>1, <4>1, BlankReads
      <4> QED BY <1>6, <3>1, <4>2
    <3>4. \A a \in Addr : a >= 0
      BY Numbers
    <3>5. Transferring'
      BY <1>7, <1>8, <2>3, <2>5, <2>6, <3>1, <3>2, <3>3, <3>4 DEF Transferring
    <3> QED BY <1>1, <1>6, <1>7, <1>8, <2>2, <2>3, <2>4, <2>5, <3>5, StoreInvNext DEF Served, Asking
  <2>9. CASE Transferring
    <3>1. /\ job.then = "copy" /\ GetState(flash, OldPage) = ERASING
          /\ flash[Current].el[0] = job.asked /\ ReadEl(flash, job.asked.addr, Current) = job.asked.data
          /\ e.data = seen[e.addr] /\ e.addr # job.asked.addr
          /\ o + 1 <= job.var + (IF job.asked.addr < job.var THEN 0 ELSE 1)
      BY <1>1, <1>2, <1>4, <2>9 DEF Transferring
    <3>2. \A a \in Addr \ {job.asked.addr} :
            \/ ReadEl(flash, a, Current) = seen[a]
            \/ ReadEl(flash, a, Current) = None /\ (a >= job.var \/ a = e.addr)
      BY <1>1, <1>4, <2>9 DEF Transferring
    <3>3. flash'[Current].el[0] = job.asked
      <4>1. job.asked # Blank
        BY <1>1, Words
      <4> QED BY <1>6, <2>7, <3>1, <4>1
    <3>4. ReadEl(flash', job.asked.addr, Current) = job.asked.data
      BY <1>6, <3>1
    <3>5. \A a \in Addr \ {job.asked.addr} :
            \/ ReadEl(flash', a, Current) = seen[a]
            \/ ReadEl(flash', a, Current) = None /\ a >= job.var
      BY <1>6, <3>1, <3>2
    <3>6. /\ job'.pc = "copy" /\ job'.then = "copy" /\ GetState(flash, OldPage)' = ERASING
          /\ flash'[Current'].el[0] = job'.asked
          /\ ReadEl(flash', job'.asked.addr, Current') = job'.asked.data
          /\ \A a \in Addr \ {job'.asked.addr} :
               \/ ReadEl(flash', a, Current') = seen'[a]
               \/ ReadEl(flash', a, Current') = None /\ a >= job'.var
          /\ pv'.next_write_offset + 0 <= job'.var + (IF job'.asked.addr < job'.var THEN 0 ELSE 1)
      BY <1>7, <1>8, <2>3, <2>5, <2>7, <3>1, <3>3, <3>4, <3>5
    <3>7. Transferring'
      BY <2>6, <3>6 DEF Transferring
    <3> QED BY <1>1, <1>6, <1>7, <1>8, <2>2, <2>3, <2>4, <2>5, <3>7, StoreInvNext DEF Served, Asking
  <2> QED BY <1>10, <2>8, <2>9
<1> QED BY <1>1, <1>9, <1>10 DEF Asking
\* The rest of the transfer: what the steps have in common.
LEMMA TransferIs ==
  ASSUME AsBuilt, StoreInv, job.pc \in {"mark", "copy", "activate"}
  PROVE  /\ Transferring /\ job.op = "write" /\ job.asked \in Element /\ doubt = job.asked
         /\ flash \in FlashType /\ Unheaded(flash) /\ flash[2] = BlankPage /\ PlaceOf(pv) /\ job \in JobType
         /\ crashes \in 0 .. MaxCrashes /\ Current \in Bank /\ OldPage \in Bank /\ OldPage # Current
         /\ status \in {"OFF", "OK", "CLEAN_NEEDED", "ERROR", "STATE_ERROR"}
         /\ seen \in [Addr -> Data \cup {None}] /\ doubt \in Element \cup {None}
         /\ Current \in Pages \ {OldPage} /\ OldPage \in Pages \ {Current}
         /\ 2 \in Pages \ {Current} /\ 2 \in Pages \ {OldPage}
         /\ Unmarked = {p \in {OldPage} : GetState(flash, p) \in {ACTIVE, VALID}}
         /\ \A v : OldValue(v) = ReadEl(flash, v, OldPage)
         /\ \A a \in Addr : OldValue(a) = seen[a]
         /\ job.var \in Nat /\ job.var <= Capacity /\ Capacity \in Nat /\ Addr \subseteq 0 .. Capacity - 1
         /\ job.asked.addr \in Nat /\ pv.next_write_offset \in Nat
<1>1. Transferring /\ Current \in Bank /\ OldPage \in Bank
  <2>1. Asking
    BY StorePhases
  <2> QED BY <2>1, StoreKnown DEF Asking, Writing, Opening
<1>2. PoolOf(NextPool(Current)) = {OldPage} /\ NextPool(Current) + nb_pages - 1 = OldPage
  BY <1>1, OnePage DEF OldPage
<1>3. \A v : OldValue(v) = ReadEl(flash, v, OldPage)
  BY <1>2 DEF OldValue
<1>4. \A a \in Addr : OldValue(a) = seen[a]
  BY <1>1, <1>3 DEF Transferring, Reads
<1>5. /\ job.var \in Nat /\ job.var <= Capacity /\ Capacity \in Nat /\ Addr \subseteq 0 .. Capacity - 1
      /\ job.asked.addr \in Nat /\ pv.next_write_offset \in Nat
  <2>1. job.var \in 0 .. Capacity /\ pv.next_write_offset \in 0 .. EE_NB_MAX_ELT
    BY StoreKnown, Known
  <2>2. job.asked \in Element
    BY StorePhases
  <2>3. job.asked.addr \in Addr /\ Addr \subseteq Nat /\ Capacity \in Nat /\ EE_NB_MAX_ELT \in Nat
    BY <2>2, Numbers DEF Element
  <2>4. Addr \subseteq 0 .. Capacity - 1
    BY DEF AsBuilt
  <2>5. job.var \in Nat /\ job.var <= Capacity
    BY <2>1, <2>3
  <2>6. job.asked.addr \in Nat
    BY <2>3
  <2>7. pv.next_write_offset \in Nat
    BY <2>1, <2>3
  <2> QED BY <2>3, <2>4, <2>5, <2>6, <2>7
<1> QED BY <1>1, <1>2, <1>3, <1>4, <1>5, StorePhases, StoreKnown DEF Unmarked

LEMMA BuiltMark ==
  ASSUME AsBuilt, StoreInv, MarkErasing, Remember
  PROVE  StoreInv' /\ Served
<1>1. job.pc = "mark" /\ Unmarked # {} /\ UNCHANGED <<pv, job, status, crashes>>
      /\ flash' = SetState(flash, Highest(Unmarked), ERASING)
  BY DEF MarkErasing
<1>2. /\ Transferring /\ job.op = "write" /\ job.asked \in Element /\ doubt = job.asked
      /\ flash \in FlashType /\ Unheaded(flash) /\ flash[2] = BlankPage /\ PlaceOf(pv) /\ job \in JobType
      /\ crashes \in 0 .. MaxCrashes /\ Current \in Bank /\ OldPage \in Bank /\ OldPage # Current
      /\ status \in {"OFF", "OK", "CLEAN_NEEDED", "ERROR", "STATE_ERROR"}
      /\ seen \in [Addr -> Data \cup {None}] /\ doubt \in Element \cup {None}
      /\ Current \in Pages \ {OldPage} /\ 2 \in Pages \ {OldPage} /\ OldPage \in Pages
      /\ Unmarked = {p \in {OldPage} : GetState(flash, p) \in {ACTIVE, VALID}}
  BY <1>1, TransferIs
<1>3. Highest(Unmarked) = OldPage
  <2>1. Highest(Unmarked) \in Unmarked
    BY <1>1, <1>2, LowestHighest
  <2> QED BY <1>2, <2>1
<1>4. /\ flash' \in FlashType /\ Unheaded(flash') /\ GetState(flash', OldPage) = ERASING
      /\ \A q \in Pages : flash'[q].el = flash[q].el
      /\ \A q \in Pages \ {OldPage} : flash'[q] = flash[q] /\ GetState(flash', q) = GetState(flash, q)
      /\ \A q \in Bank : \A a : ReadEl(flash', a, q) = ReadEl(flash, a, q)
  <2>1. ERASING \in RECEIVE .. ERASING /\ GetState(flash, OldPage) <= ERASING
    BY <1>2, States DEF ERASED, RECEIVE, ERASING
  <2>2. flash' = SetState(flash, OldPage, ERASING) /\ flash \in FlashType /\ Unheaded(flash) /\ OldPage \in Bank
    BY <1>1, <1>2, <1>3
  <2> QED BY <2>1, <2>2, HeaderSet
<1>5. GoesOn
  BY <1>1, <1>2, Onward
<1>6. seen' = seen /\ doubt' = doubt /\ Current' = Current /\ OldPage' = OldPage
  BY <1>1, <1>5 DEF GoesOn, Unseen, Current, OldPage
<1>7. Transferring'
  <2>1. InPage(RECEIVE)' /\ Reads(flash, OldPage)'
    BY <1>1, <1>2, <1>4, <1>6 DEF Transferring, InPage, Holds, Reads
  <2>2. \A a : ReadEl(flash', a, Current') = ReadEl(flash, a, Current)
    BY <1>2, <1>4, <1>6
  <2>3. flash'[Current'].el[0] = flash[Current].el[0] /\ GetState(flash', OldPage') = ERASING
    BY <1>2, <1>4, <1>6
  <2> QED BY <1>1, <1>2, <1>6, <2>1, <2>2, <2>3 DEF Transferring
<1>8. flash'[2] = BlankPage
  BY <1>2, <1>4
<1> QED BY <1>1, <1>2, <1>4, <1>5, <1>6, <1>7, <1>8, StoreInvNext DEF Served, Asking

LEMMA BuiltMarkDone ==
  ASSUME AsBuilt, StoreInv, MarkDone, Remember
  PROVE  StoreInv' /\ Served
<1>1. job.pc = "mark" /\ Unmarked = {} /\ UNCHANGED <<flash, pv, status, crashes>>
      /\ job' = [job EXCEPT !.pc = "copy", !.then = "copy"]
  BY DEF MarkDone
<1>2. /\ Transferring /\ job.op = "write" /\ job.asked \in Element /\ doubt = job.asked
      /\ flash \in FlashType /\ Unheaded(flash) /\ flash[2] = BlankPage /\ PlaceOf(pv) /\ job \in JobType
      /\ crashes \in 0 .. MaxCrashes
      /\ status \in {"OFF", "OK", "CLEAN_NEEDED", "ERROR", "STATE_ERROR"}
      /\ seen \in [Addr -> Data \cup {None}] /\ doubt \in Element \cup {None}
      /\ Unmarked = {p \in {OldPage} : GetState(flash, p) \in {ACTIVE, VALID}}
  BY <1>1, TransferIs
<1>3. /\ job' \in JobType /\ job'.pc = "copy" /\ job'.then = "copy" /\ job'.op = job.op
      /\ job'.asked = job.asked /\ job'.var = job.var
  BY <1>1, <1>2 DEF JobType
<1>4. GoesOn
  BY <1>1, <1>2, <1>3, Onward
<1>5. seen' = seen /\ doubt' = doubt /\ Current' = Current /\ OldPage' = OldPage
  BY <1>1, <1>4 DEF GoesOn, Unseen, Current, OldPage
<1>6. GetState(flash, OldPage) = ERASING
  BY <1>1, <1>2 DEF Transferring
<1>7. Transferring'
  BY <1>1, <1>2, <1>3, <1>5, <1>6 DEF Transferring, InPage, Reads
<1> QED BY <1>1, <1>2, <1>3, <1>4, <1>5, <1>7, StoreInvNext DEF Served, Asking

LEMMA BuiltCopyNext ==
  ASSUME AsBuilt, StoreInv, CopyNext, Remember
  PROVE  StoreInv' /\ Served
<1>1. job.pc = "copy" /\ ToCopy # {} /\ UNCHANGED <<flash, pv, status, crashes>>
  BY DEF CopyNext
<1>2. /\ Transferring /\ job.op = "write" /\ job.asked \in Element /\ doubt = job.asked
      /\ flash \in FlashType /\ Unheaded(flash) /\ flash[2] = BlankPage /\ PlaceOf(pv) /\ job \in JobType
      /\ crashes \in 0 .. MaxCrashes /\ OldPage \in Bank
      /\ status \in {"OFF", "OK", "CLEAN_NEEDED", "ERROR", "STATE_ERROR"}
      /\ seen \in [Addr -> Data \cup {None}] /\ doubt \in Element \cup {None}
      /\ \A v : OldValue(v) = ReadEl(flash, v, OldPage)
      /\ \A a \in Addr : OldValue(a) = seen[a]
      /\ job.var \in Nat /\ Capacity \in Nat /\ Addr \subseteq 0 .. Capacity - 1
      /\ job.asked.addr \in Nat /\ pv.next_write_offset \in Nat
  BY <1>1, TransferIs
<1>3. ToCopy = {v \in job.var .. Capacity - 1 : OldValue(v) # None /\ v # job.asked.addr}
  BY <1>2 DEF ToCopy
<1>4. PICK v \in ToCopy : v = Lowest(ToCopy) /\ \A x \in ToCopy : v <= x
  <2>1. ToCopy \in SUBSET Nat
    BY <1>2, <1>3
  <2>2. \E m \in ToCopy : \A x \in ToCopy : m <= x
    BY <1>1, <2>1, LeastNatural
  <2> QED BY <2>2, Zenon DEF Lowest
<1>5. /\ v \in Addr /\ v \in Nat /\ v >= job.var /\ v + 1 \in 0 .. Capacity
      /\ v # job.asked.addr /\ OldValue(v) = seen[v] /\ seen[v] \in Data
  <2>1. v \in Addr
    <3>1. ReadEl(flash, v, OldPage) # None
      BY <1>2, <1>3, <1>4
    <3> QED BY <1>2, <3>1, ReadIs
  <2>2. v \in job.var .. Capacity - 1 /\ v # job.asked.addr /\ OldValue(v) # None
    BY <1>3, <1>4
  <2>3. v \in Nat /\ v >= job.var /\ v + 1 \in 0 .. Capacity
    BY <1>2, <2>2
  <2> QED BY <1>2, <2>1, <2>2, <2>3
<1>6. PICK e \in Element : e = [addr |-> v, data |-> OldValue(v)] /\ e.addr = v /\ e.data = seen[v]
  <2> DEFINE x == [addr |-> v, data |-> OldValue(v)]
  <2>1. OldValue(v) \in Data
    BY <1>5
  <2>2. x \in Element
    BY <1>5, <2>1 DEF Element
  <2>3. x.addr = v /\ x.data = seen[v]
    BY <1>5
  <2> QED BY <2>2, <2>3
<1>7. job' = [job EXCEPT !.pc = "el", !.then = "copy", !.var = v + 1, !.el = e]
  BY <1>4, <1>6 DEF CopyNext
<1>8. /\ job' \in JobType /\ job'.pc = "el" /\ job'.then = "copy" /\ job'.op = job.op
      /\ job'.asked = job.asked /\ job'.var = v + 1 /\ job'.el = e
  BY <1>2, <1>5, <1>7 DEF JobType
<1>9. GoesOn
  BY <1>1, <1>2, <1>8, Onward
<1>10. seen' = seen /\ doubt' = doubt /\ Current' = Current /\ OldPage' = OldPage
  BY <1>1, <1>9 DEF GoesOn, Unseen, Current, OldPage
<1>11. ASSUME NEW a \in Addr \ {job.asked.addr}
       PROVE  \/ ReadEl(flash, a, Current) = seen[a]
              \/ ReadEl(flash, a, Current) = None /\ (a >= v + 1 \/ a = v)
  <2>1. \/ ReadEl(flash, a, Current) = seen[a]
        \/ ReadEl(flash, a, Current) = None /\ a >= job.var
    BY <1>1, <1>2 DEF Transferring
  <2>2. ASSUME a >= job.var, a < v PROVE seen[a] = None
    <3>1. a \in job.var .. Capacity - 1 /\ a \notin ToCopy
      <4>1. a \in Nat /\ a \in 0 .. Capacity - 1
        BY <1>2, Numbers
      <4>2. a \in job.var .. Capacity - 1
        BY <1>2, <2>2, <4>1
      <4>3. a \notin ToCopy
        BY <1>4, <1>5, <2>2, <4>1
      <4> QED BY <4>2, <4>3
    <3> QED BY <1>2, <1>3, <3>1
  <2>3. a \in Nat
    BY Numbers
  <2> QED BY <1>5, <2>1, <2>2, <2>3
<1>12. pv'.next_write_offset + 1 <= (v + 1) + (IF job.asked.addr < v + 1 THEN 0 ELSE 1)
  <2>1. /\ pv.next_write_offset + 0 <= job.var + (IF job.asked.addr < job.var THEN 0 ELSE 1)
        /\ pv' = pv /\ pv.next_write_offset \in Nat /\ job.asked.addr \in Nat /\ job.var \in Nat
    BY <1>1, <1>2 DEF Transferring
  <2> QED BY <1>5, <2>1
<1>13. Transferring'
  <2>1. /\ GetState(flash', OldPage') = ERASING /\ InPage(RECEIVE)' /\ Reads(flash, OldPage)'
        /\ flash'[Current'].el[0] = job'.asked
        /\ ReadEl(flash', job'.asked.addr, Current') = job'.asked.data
    BY <1>1, <1>2, <1>8, <1>10 DEF Transferring, InPage, Reads
  <2>2. /\ job'.el \in Element /\ job'.el.data = seen'[job'.el.addr]
        /\ job'.el.addr # job'.asked.addr /\ job'.el.addr < job'.var
    BY <1>5, <1>6, <1>8, <1>10
  <2>3. \A a \in Addr \ {job'.asked.addr} :
          \/ ReadEl(flash', a, Current') = seen'[a]
          \/ ReadEl(flash', a, Current') = None /\ (a >= job'.var \/ a = job'.el.addr)
    BY <1>1, <1>6, <1>8, <1>10, <1>11
  <2> QED BY <1>8, <1>12, <2>1, <2>2, <2>3 DEF Transferring
<1> QED BY <1>1, <1>2, <1>8, <1>9, <1>10, <1>13, StoreInvNext DEF Served, Asking

LEMMA BuiltCopyDone ==
  ASSUME AsBuilt, StoreInv, CopyDone, Remember
  PROVE  StoreInv' /\ Served
<1>1. job.pc = "copy" /\ ToCopy = {} /\ UNCHANGED <<flash, pv, status, crashes>>
      /\ job' = [job EXCEPT !.pc = "activate"]
  BY DEF CopyDone
<1>2. /\ Transferring /\ job.op = "write" /\ job.asked \in Element /\ doubt = job.asked
      /\ flash \in FlashType /\ Unheaded(flash) /\ flash[2] = BlankPage /\ PlaceOf(pv) /\ job \in JobType
      /\ crashes \in 0 .. MaxCrashes
      /\ status \in {"OFF", "OK", "CLEAN_NEEDED", "ERROR", "STATE_ERROR"}
      /\ seen \in [Addr -> Data \cup {None}] /\ doubt \in Element \cup {None}
      /\ \A a \in Addr : OldValue(a) = seen[a]
      /\ job.var \in Nat /\ Capacity \in Nat /\ Addr \subseteq 0 .. Capacity - 1
  BY <1>1, TransferIs
<1>3. /\ job' \in JobType /\ job'.pc = "activate" /\ job'.then = job.then /\ job'.op = job.op
      /\ job'.asked = job.asked /\ job'.var = job.var
  BY <1>1, <1>2 DEF JobType
<1>4. GoesOn
  BY <1>1, <1>2, <1>3, Onward
<1>5. seen' = seen /\ doubt' = doubt /\ Current' = Current /\ OldPage' = OldPage
  BY <1>1, <1>4 DEF GoesOn, Unseen, Current, OldPage
<1>6. ASSUME NEW a \in Addr \ {job.asked.addr} PROVE ReadEl(flash, a, Current) = seen[a]
  <2>1. \/ ReadEl(flash, a, Current) = seen[a]
        \/ ReadEl(flash, a, Current) = None /\ a >= job.var
    BY <1>1, <1>2 DEF Transferring
  <2>2. ASSUME a >= job.var PROVE seen[a] = None
    <3>1. a \in job.var .. Capacity - 1
      BY <1>2, <2>2
    <3> QED BY <1>1, <1>2, <3>1 DEF ToCopy
  <2> QED BY <2>1, <2>2
<1>7. Transferring'
  BY <1>1, <1>2, <1>3, <1>5, <1>6 DEF Transferring, InPage, Reads
<1> QED BY <1>1, <1>2, <1>3, <1>4, <1>5, <1>7, StoreInvNext DEF Served, Asking

LEMMA BuiltActivate ==
  ASSUME AsBuilt, StoreInv, Activate, Remember
  PROVE  StoreInv' /\ Served
<1>1. job.pc = "activate" /\ flash' = SetState(flash, Current, ACTIVE) /\ UNCHANGED <<pv, crashes>>
  BY DEF Activate
<1>2. /\ Transferring /\ job.op = "write" /\ job.asked \in Element /\ doubt = job.asked
      /\ flash \in FlashType /\ Unheaded(flash) /\ flash[2] = BlankPage /\ PlaceOf(pv)
      /\ crashes \in 0 .. MaxCrashes /\ Current \in Bank
      /\ seen \in [Addr -> Data \cup {None}]
      /\ Current \in Pages /\ 2 \in Pages \ {Current} /\ OldPage \in Pages \ {Current}
  BY <1>1, TransferIs
<1>3. job' = NoJob /\ status' = "CLEAN_NEEDED"
  BY <1>2 DEF Activate, Done
<1>4. Current' = Current /\ OldPage' = OldPage
  BY <1>1 DEF Current, OldPage
<1>5. /\ flash' \in FlashType /\ Unheaded(flash') /\ GetState(flash', Current) = ACTIVE
      /\ \A q \in Pages : flash'[q].el = flash[q].el
      /\ \A q \in Pages \ {Current} : flash'[q] = flash[q] /\ GetState(flash', q) = GetState(flash, q)
      /\ \A q \in Bank : \A a : ReadEl(flash', a, q) = ReadEl(flash, a, q)
  <2>1. ACTIVE \in RECEIVE .. ERASING /\ GetState(flash, Current) <= ACTIVE
    BY <1>2 DEF Transferring, InPage, Holds, RECEIVE, ACTIVE, ERASING
  <2> QED BY <1>1, <1>2, <2>1, HeaderSet
<1>6. flash'[2] = BlankPage /\ GetState(flash', OldPage) = ERASING
  BY <1>1, <1>2, <1>5 DEF Transferring
<1>7. StoreInv' /\ doubt' = None /\ seen' = [a \in Addr |-> ReadEl(flash', a, Current')]
  <2>1. Holds(flash', Current', pv'.next_write_offset, ACTIVE)
    BY <1>1, <1>2, <1>4, <1>5 DEF Transferring, InPage, Holds
  <2> QED BY <1>1, <1>2, <1>3, <1>4, <1>5, <1>6, <2>1, ComesToRest
<1>8. seen' = With(doubt)
  <2>1. \A a \in Addr : ReadEl(flash', a, Current) = IF a = doubt.addr THEN doubt.data ELSE seen[a]
    BY <1>1, <1>2, <1>5 DEF Transferring
  <2> QED BY <1>2, <1>4, <1>7, <2>1 DEF With
<1>9. flash'[Current'].el[0] = doubt
  BY <1>2, <1>4, <1>5 DEF Transferring
<1> QED BY <1>1, <1>2, <1>3, <1>7, <1>8, <1>9 DEF Served, WriteEnds, Ended
-----------------------------------------------------------------------------
(* Power losses, and all steps of the emulation. *)

\* What a loss leaves when it comes while the other page is blank.
LEMMA CutIs ==
  ASSUME AsBuilt, StoreInv, PowerLoss, GetState(flash, OldPage) = ERASED
  PROVE  \/ flash' = flash
         \/ job.pc = "el" /\ flash' = Program(flash, Current, pv.next_write_offset, Corrupt)
<1>1. flash \in FlashType /\ Current \in Bank /\ job.at \in Bank /\ Bank \subseteq Pages
  BY StoreKnown, Known, Numbers
<1>2. CASE job.pc = "erase"
  <2>1. Formatting
    BY <1>2, StorePhases DEF Cleaning, ERASED, ERASING
  <2>2. flash[job.at].hdr = {}
    BY <1>1, <2>1, BlankPageIs DEF Formatting, NothingStored, BlankPool
  <2>3. Cut(job.at) = {}
    BY <2>2 DEF Cut
  <2> QED BY <1>2, <2>3 DEF PowerLoss, AfterCut
<1>3. CASE job.pc = "sweep"
  <2>1. Unerased = {}
    BY <1>1, OnePage DEF Unerased, OldPage
  <2> QED BY <1>3, <2>1 DEF PowerLoss, AfterCut
<1>4. CASE job.pc = "el"
  BY <1>4 DEF PowerLoss, AfterCut
<1>5. CASE job.pc \notin {"erase", "sweep", "el"}
  BY <1>5 DEF PowerLoss, AfterCut
<1> QED BY <1>2, <1>3, <1>4, <1>5

LEMMA BuiltLoss ==
  ASSUME AsBuilt, StoreInv, PowerLoss, GetState(flash, OldPage) = ERASED, Remember
  PROVE  StoreInv' /\ seen' = seen /\ doubt' = doubt /\ job' = Off
<1>1. /\ job.pc # "off" /\ job' = Off /\ pv' = FreshVars /\ status' = "OFF" /\ crashes' = crashes + 1
      /\ crashes < MaxCrashes
      /\ flash \in FlashType /\ Unheaded(flash) /\ flash[2] = BlankPage /\ Current \in Bank
      /\ crashes \in 0 .. MaxCrashes /\ MaxCrashes \in Nat
      /\ seen \in [Addr -> Data \cup {None}] /\ doubt \in Element \cup {None}
      /\ OldPage \in Pages \ {Current} /\ 2 \in Pages \ {Current}
      /\ pv.next_write_offset \in 0 .. EE_NB_MAX_ELT /\ EE_NB_MAX_ELT \in Nat
  BY StoreKnown, Numbers DEF PowerLoss
<1>2. seen' = seen /\ doubt' = doubt
  BY <1>1, CallTypes DEF Remember, Off, NoJob
<1>3. crashes' \in 0 .. MaxCrashes /\ PlaceOf(pv') /\ job' \in JobType
  BY <1>1, ZeroIs, CallTypes
<1>4. CASE NothingStored /\ job.pc # "el"
  <2>1. flash' = flash
    BY <1>4, CutIs
  <2>2. Lost'
    BY <1>1, <1>2, <1>4, <2>1 DEF Lost, NothingStored
  <2> QED BY <1>1, <1>2, <1>3, <2>1, <2>2, StoreInvNext
<1>5. CASE Settled
  <2>1. Holds(flash, Current, pv.next_write_offset, ACTIVE) /\ Reads(flash, Current)
    BY <1>5 DEF Settled, InPage
  <2>2. PICK o \in 0 .. EE_NB_MAX_ELT :
          /\ flash' \in FlashType /\ Unheaded(flash') /\ flash'[2] = BlankPage
          /\ Holds(flash', Current, o, ACTIVE) /\ GetState(flash', OldPage) = ERASED
          /\ \A a : ReadEl(flash', a, Current) = ReadEl(flash, a, Current)
    <3>1. CASE flash' = flash
      BY <1>1, <2>1, <3>1
    <3>2. CASE flash' # flash
      <4>1. job.pc = "el" /\ flash' = Program(flash, Current, pv.next_write_offset, Corrupt)
        BY <3>2, CutIs
      <4>2. PICK i \in Slots : i = pv.next_write_offset
        BY <4>1, RoomForOne
      <4>3. i + 1 \in 0 .. EE_NB_MAX_ELT /\ Corrupt \in Word /\ Corrupt # Blank /\ ACTIVE # ERASED
            /\ Corrupt \notin Element
        BY <1>1, <4>2, Words DEF Slots, ACTIVE, ERASED
      <4>4. flash' = Program(flash, Current, i, Corrupt) /\ Holds(flash, Current, i, ACTIVE)
            /\ flash \in FlashType /\ Current \in Bank
        BY <1>1, <2>1, <4>1, <4>2
      <4>5. /\ flash' \in FlashType /\ Holds(flash', Current, i + 1, ACTIVE)
            /\ Unheaded(flash) /\ ACTIVE # ERASED => Unheaded(flash')
            /\ \A q \in Pages \ {Current} : flash'[q] = flash[q] /\ GetState(flash', q) = GetState(flash, q)
            /\ \A a : ReadEl(flash', a, Current) =
                     IF Corrupt \in Element /\ Corrupt.addr = a THEN Corrupt.data ELSE ReadEl(flash, a, Current)
        BY <4>3, <4>4, Appended
      <4>6. flash'[2] = BlankPage /\ GetState(flash', OldPage) = ERASED
        BY <1>1, <4>5
      <4> QED BY <1>1, <4>3, <4>5, <4>6
    <3> QED BY <3>1, <3>2
  <2>3. Lost'
    <3>1. Reads(flash, Current) => \A a \in Addr : ReadEl(flash', a, Current) = seen'[a]
      BY <1>2, <2>2 DEF Reads
    <3>2. \E c \in Bank, x \in 0 .. EE_NB_MAX_ELT :
            /\ Holds(flash', c, x, ACTIVE) /\ \A a \in Addr : ReadEl(flash', a, c) = seen'[a]
            /\ GetState(flash', NextPool(c)) = ERASED
      BY <1>1, <2>1, <2>2, <3>1 DEF OldPage
    <3> QED BY <1>1, <3>2 DEF Lost, Reads
  <2> QED BY <1>1, <1>2, <1>3, <2>2, <2>3, StoreInvNext
<1>6. (NothingStored /\ job.pc # "el") \/ Settled
  <2>1. ~ Cleaning /\ ~ Opening /\ ~ Transferring /\ ~ Lost
    BY <1>1 DEF Cleaning, Opening, Transferring, Lost, Off, NoJob, ERASED, ACTIVE, ERASING
  <2>2. Formatting \/ PoweringUp \/ Resting \/ Writing
    BY <2>1 DEF StoreInv, Asking
  <2> QED BY <2>2 DEF Formatting, PoweringUp, Resting, Writing
<1> QED BY <1>1, <1>2, <1>4, <1>5, <1>6

LEMMA BuiltServes ==
  ASSUME AsBuilt, StoreInv, Step \/ Refused, Remember
  PROVE  StoreInv' /\ Served
<1>1. ~ FixPrevious /\ ~ ClosePage
  BY StorePhases DEF FixPrevious, ClosePage
<1>2. ~ OpenNextPage
  BY RoomForOne DEF OpenNextPage
<1>3. CASE PowerUp \/ SweepPage \/ SweepDone \/ ErasePage \/ SetFirstActive
  BY <1>3, BuiltPowerUp, BuiltSweep, BuiltErase, BuiltFirst
<1>4. CASE AppendElement \/ StartReceive \/ MarkErasing \/ MarkDone
  BY <1>4, BuiltAppend, BuiltReceive, BuiltMark, BuiltMarkDone
<1>5. CASE CopyNext \/ CopyDone \/ Activate \/ Refused
  BY <1>5, BuiltCopyNext, BuiltCopyDone, BuiltActivate, BuiltRefused
<1> QED BY <1>1, <1>2, <1>3, <1>4, <1>5 DEF Step

-----------------------------------------------------------------------------
(* The refinement of NvStore. *)

LEMMA ServedAsPromised ==
  ASSUME AsBuilt, StoreInv, Served
  PROVE  Unseen \/ Promise!StoreNext
<1>1. seen \in [Addr -> Data \cup {None}] /\ doubt \in Element \cup {None} /\ Promise!WriteRequest = Element
  BY StoreKnown DEF Promise!WriteRequest, Element
<1>2. NoJob.pc = "idle" /\ NoJob.op = "none"
  BY DEF NoJob
<1>3. CASE PowerUpEnds
  <2>1. Answer = "down" /\ Answer' = "ok" /\ seen' = seen /\ doubt' = None
    BY <1>2, <1>3 DEF PowerUpEnds, Ended, Answer
  <2>2. Promise!Answer
    BY <1>1, <2>1 DEF Promise!Answer
  <2> QED BY <2>2 DEF Promise!StoreNext
<1>4. CASE CleanEnds
  <2>1. Answer' \in {"ok", "error"} /\ seen' = seen /\ doubt' = None
    BY <1>2, <1>4 DEF CleanEnds, Ended, Answer
  <2>2. doubt = None
    BY <1>4, StorePhases DEF CleanEnds, Cleaning
  <2>3. Promise!Answer
    BY <1>1, <2>1, <2>2 DEF Promise!Answer
  <2> QED BY <2>3 DEF Promise!StoreNext
<1>5. CASE WriteEnds
  <2>1. Answer' = "ok" /\ seen' = With(doubt) /\ doubt' = None
    BY <1>2, <1>5 DEF WriteEnds, Ended, Answer
  <2>2. doubt \in Element
    BY <1>5, StorePhases DEF WriteEnds
  <2>3. Promise!Answer
    BY <1>1, <2>1, <2>2 DEF Promise!Answer, Promise!Written, With
  <2> QED BY <2>3 DEF Promise!StoreNext
<1> QED BY <1>3, <1>4, <1>5 DEF Served, GoesOn

LEMMA BegunAsPromised ==
  ASSUME AsBuilt, StoreInv, NEW op \in {"write", "clean"}, NEW r \in Element \cup {None}, Begins(op, r)
  PROVE  Promise!StoreNext
<1>1. Resting /\ job.pc = "idle" /\ job.op = "none" /\ doubt = None /\ seen' = seen
  BY StorePhases DEF Begins
<1>2. Answer \in {"ok", "error"}
  BY <1>1 DEF Answer
<1>3. Promise!WriteRequest = Element
  BY DEF Promise!WriteRequest, Element
<1>4. CASE job'.op = op /\ job'.pc \notin {"idle", "off"} /\ doubt' = r
  <2>1. Answer' = "busy"
    BY <1>4 DEF Answer
  <2>2. Promise!Ask
    BY <1>1, <1>2, <1>3, <1>4, <2>1 DEF Promise!Ask
  <2> QED BY <2>2 DEF Promise!StoreNext
<1>5. CASE job' = NoJob /\ status' = "STATE_ERROR" /\ doubt' = None
  <2>1. Answer' = "error"
    BY <1>5 DEF Answer, NoJob
  <2>2. Promise!Answer
    BY <1>1, <1>5, <2>1 DEF Promise!Answer
  <2> QED BY <2>2 DEF Promise!StoreNext
<1> QED BY <1>4, <1>5 DEF Begins

\* A call of the application is a step of the promised store, or none.
LEMMA StoreStutters ==
  ASSUME AsBuilt, StoreInv, UNCHANGED allvars
  PROVE  StoreInv' /\ Unseen
<1>1. UNCHANGED <<flash, pv, job, status, crashes, seen, doubt>>
  BY DEF allvars
<1>2. Current' = Current /\ OldPage' = OldPage
  BY <1>1 DEF Current, OldPage
<1>3. Global'
  BY <1>1, StoreKnown, Known, GlobalNext DEF StoreInv
<1>4. Settled' = Settled /\ NothingStored' = NothingStored
  BY <1>1, <1>2 DEF Settled, NothingStored, InPage, Reads
<1>5. /\ Lost => Lost'
      /\ Formatting => Formatting'
      /\ PoweringUp => PoweringUp'
      /\ Resting => Resting'
      /\ Cleaning => Cleaning'
  BY <1>1, <1>2, <1>4 DEF Lost, Formatting, PoweringUp, Resting, Cleaning, Reads
<1>6. Asking => Asking'
  BY <1>1, <1>2, <1>4 DEF Asking, Writing, Opening, Transferring, InPage, Reads, Full
<1>7. Answer' = Answer
  BY <1>1 DEF Answer
<1> QED BY <1>1, <1>3, <1>5, <1>6, <1>7 DEF StoreInv, Unseen

LEMMA LossAsPromised ==
  ASSUME seen' = seen, doubt' = doubt, job' = Off
  PROVE  Promise!StoreNext
<1>1. Answer' = "down"
  BY DEF Answer, Off, NoJob
<1> QED BY <1>1 DEF Promise!StoreNext, Promise!PowerLoss

-----------------------------------------------------------------------------
(* Images. *)

LEMMA ImagesAre ==
  ASSUME AsBuilt, NEW img \in Images
  PROVE  /\ img[0] \in Lengths /\ NumWords(img[0]) \in Nat
         /\ \A i \in 0 .. NumWords(img[0]) : i \in Addr /\ img[i] \in Data
         /\ img = [i \in 0 .. NumWords(img[0]) |-> img[i]]
<1>1. PICK len \in Lengths, w \in [Addr -> Data] :
        img = [i \in 0 .. NumWords(len) |-> IF i = 0 THEN len ELSE w[i]]
  BY DEF Images
<1>2. len \in Data /\ NumWords(len) \in Addr /\ NumWords(len) \in Nat
  BY EepromAssumption DEF Lengths
<1>3. 0 .. NumWords(len) \subseteq Addr
  BY <1>2 DEF AsBuilt
<1>4. img[0] = len
  BY <1>1, <1>2
<1>5. \A i \in 0 .. NumWords(len) : img[i] \in Data
  BY <1>1, <1>2, <1>3
<1>6. img = [i \in 0 .. NumWords(len) |-> img[i]]
  BY <1>1
<1> QED BY <1>2, <1>3, <1>4, <1>5, <1>6

\* The words of an image are read back as that image.
LEMMA RestoredIs ==
  ASSUME AsBuilt, NEW img \in Images, \A i \in 0 .. NumWords(img[0]) : seen[i] = img[i]
  PROVE  Restored = img
<1>1. /\ img[0] \in Lengths /\ NumWords(img[0]) \in Nat
      /\ \A i \in 0 .. NumWords(img[0]) : img[i] \in Data
      /\ img = [i \in 0 .. NumWords(img[0]) |-> img[i]]
  BY ImagesAre
<1>2. seen[0] = img[0]
  BY <1>1
<1>3. \A i \in 1 .. NumWords(img[0]) : seen[i] # None
  BY <1>1, EepromAssumption
<1>4. [i \in 0 .. NumWords(img[0]) |-> seen[i]] = [i \in 0 .. NumWords(img[0]) |-> img[i]]
  OBVIOUS
<1> QED BY <1>1, <1>2, <1>3, <1>4 DEF Restored

\* Between two calls the flash is read as it was seen.
LEMMA ReadsAsSeen ==
  ASSUME AsBuilt, StoreInv, job.pc = "idle"
  PROVE  NVM_Read = Restored
<1>1. Reads(flash, Current) /\ Addr \subseteq Nat
  BY StorePhases, EepromAssumption DEF Resting, Settled
<1>2. \A i \in Addr : Stored(i) = seen[i]
  BY <1>1 DEF Stored, Reads, ZIGBEE_DB_START_ADDR
<1>3. CASE Addr = {}
  <2>1. Lengths = {}
    BY <1>3 DEF Lengths
  <2> QED BY <2>1 DEF NVM_Read, Restored
<1>4. CASE Addr # {}
  <2>1. 0 \in Addr
    <3>1. PICK a \in Addr : a \in Nat /\ 0 .. a \subseteq Addr
      BY <1>1, <1>4 DEF AsBuilt
    <3> QED BY <3>1
  <2>2. Stored(0) = seen[0]
    BY <1>2, <2>1
  <2>3. CASE seen[0] \notin Lengths
    BY <2>2, <2>3 DEF NVM_Read, Restored
  <2>4. CASE seen[0] \in Lengths
    <3>1. NumWords(seen[0]) \in Addr /\ NumWords(seen[0]) \in Nat
      BY <1>1, <2>4 DEF Lengths
    <3>2. \A i \in 0 .. NumWords(seen[0]) : Stored(i) = seen[i]
      BY <1>2, <3>1 DEF AsBuilt
    <3>3. \A i \in 1 .. NumWords(seen[0]) : i \in 0 .. NumWords(seen[0])
      BY <3>1
    <3>4. [i \in 0 .. NumWords(seen[0]) |-> Stored(i)] = [i \in 0 .. NumWords(seen[0]) |-> seen[i]]
      BY <3>2
    <3>5. (\E i \in 1 .. NumWords(seen[0]) : Stored(i) = None)
            <=> \E i \in 1 .. NumWords(seen[0]) : seen[i] = None
      BY <3>2, <3>3
    <3> QED BY <2>2, <2>4, <3>4, <3>5 DEF NVM_Read, Restored
  <2> QED BY <2>3, <2>4
<1> QED BY <1>3, <1>4

LEMMA ImageAtStart ==
  ASSUME AsBuilt, ImageInit
  PROVE  StoreInv /\ ImageInv
<1>1. /\ StoreInv /\ seen = [a \in Addr |-> None] /\ job = Off
      /\ save = NoSave /\ reported = None /\ kept = None /\ torn = FALSE
  BY StoreAtStart DEF ImageInit, SeenInit, Init
<1>2. Restored = None
  <2>1. CASE 0 \in Addr
    <3>1. seen[0] \notin Lengths
      BY <1>1, <2>1, EepromAssumption DEF Lengths
    <3> QED BY <3>1 DEF Restored
  <2>2. CASE 0 \notin Addr
    <3>1. \A a \in Addr : a \in Nat /\ 0 .. a \subseteq Addr
      BY EepromAssumption DEF AsBuilt
    <3>2. Addr = {}
      BY <2>2, <3>1
    <3>3. Lengths = {}
      BY <3>2 DEF Lengths
    <3> QED BY <3>3 DEF Restored
  <2> QED BY <2>1, <2>2
<1>3. None # TRUE /\ None # FALSE
  BY ImageAssumption
<1> QED BY <1>1, <1>2, <1>3 DEF ImageInv, SaveAgrees, Off, NoJob, NoSave

\* A save under way, and the words it has brought to the flash.
LEMMA SaveIs ==
  ASSUME AsBuilt, StoreInv, ImageInv, save # NoSave
  PROVE  /\ save \in [pc : {"write", "written", "cleaned"}, image : Images, at : Nat]
         /\ save.image \in Images /\ save.at \in Nat /\ NumWords(save.image[0]) \in Nat
         /\ save.at \in 0 .. NumWords(save.image[0]) /\ save.at \in Addr /\ save.image[save.at] \in Data
         /\ Saved(save.at - 1)
         /\ save.pc = "write" => job.pc = "idle"
         /\ save.pc = "written" /\ job.pc = "idle" /\ status \in {"OK", "CLEAN_NEEDED"} => Saved(save.at)
         /\ save.pc = "cleaned" => Saved(save.at)
         /\ save.pc # "write" => torn = TRUE
<1>1. /\ save \in [pc : {"write", "written", "cleaned"}, image : Images, at : Nat]
      /\ save.at <= NumWords(save.image[0])
  BY DEF ImageInv, SaveAgrees
<1>2. NumWords(save.image[0]) \in Nat /\ save.at \in 0 .. NumWords(save.image[0])
  BY <1>1, ImagesAre
<1>3. save.at \in Addr /\ save.image[save.at] \in Data
  BY <1>1, <1>2, ImagesAre
<1>4. /\ Saved(save.at - 1)
      /\ save.pc = "write" => job.pc = "idle"
      /\ save.pc = "written" /\ job.pc = "idle" /\ status \in {"OK", "CLEAN_NEEDED"} => Saved(save.at)
      /\ save.pc = "cleaned" => Saved(save.at)
  <2>1. job.pc = "idle" => job.op # "write"
    BY StorePhases
  <2> QED BY <2>1 DEF ImageInv, SaveAgrees
<1>5. save.pc # "write" => torn = TRUE
  BY DEF ImageInv
<1> QED BY <1>1, <1>2, <1>3, <1>4, <1>5

\* What the words seen say stays said.
LEMMA SeenAlike ==
  ASSUME seen' = seen, save'.image = save.image
  PROVE  Restored' = Restored /\ \A n : Saved(n)' = Saved(n)
<1>1. Restored' = Restored
  BY DEF Restored
<1>2. \A n : Saved(n)' = Saved(n)
  BY DEF Saved
<1> QED BY <1>1, <1>2

\* The emulation goes on: a call under way, or one that ends.
LEMMA ImageServed ==
  ASSUME AsBuilt, StoreInv, StoreInv', ImageInv, Served, UNCHANGED client
  PROVE  ImageInv'
<1>1. /\ save' = save /\ reported' = reported /\ kept' = kept /\ torn' = torn
      /\ save'.image = save.image /\ job.pc # "idle"
  BY DEF client, Served, GoesOn, PowerUpEnds, CleanEnds, WriteEnds, Ended
<1>2. save # NoSave => torn = TRUE
  BY <1>1, SaveIs
<1>3. save = NoSave => reported # FALSE
  BY <1>1 DEF ImageInv
<1>4. NoSave.pc = "none" /\ NoJob.pc = "idle" /\ NoJob.op = "none"
  BY DEF NoSave, NoJob
<1>5. seen' = seen => (~ torn' => Restored' = kept') /\ \A n : Saved(n)' = Saved(n)
  BY <1>1, SeenAlike DEF ImageInv
<1>6. torn \in BOOLEAN /\ (save = NoSave /\ reported = TRUE => ~ torn)
  BY DEF ImageInv
<1>7. CASE save = NoSave
  <2>1. job.op \notin {"write", "clean"}
    BY <1>4, <1>7 DEF ImageInv, SaveAgrees
  <2>2. seen' = seen /\ job'.op \notin {"write", "clean"}
    BY <1>4, <2>1 DEF Served, GoesOn, PowerUpEnds, CleanEnds, WriteEnds, Ended, Unseen
  <2> QED BY <1>1, <1>3, <1>4, <1>5, <1>6, <1>7, <2>2 DEF ImageInv, SaveAgrees
<1>8. CASE save # NoSave /\ job.op = "write"
  <2>1. save.pc = "written" /\ job.asked = [addr |-> save.at, data |-> save.image[save.at]]
    BY <1>1, <1>4, <1>8 DEF ImageInv, SaveAgrees
  <2>2. doubt = job.asked /\ doubt.addr = save.at /\ doubt.data = save.image[save.at]
    BY <1>8, <2>1, StorePhases
  <2>3. CASE GoesOn
    <3>1. seen' = seen /\ job'.pc # "idle" /\ job'.op = "write" /\ job'.asked = job.asked
      BY <1>8, <2>3, StorePhases DEF GoesOn, Unseen
    <3>2. SaveAgrees'
      BY <1>1, <1>5, <1>8, <2>1, <3>1 DEF ImageInv, SaveAgrees
    <3> QED BY <1>1, <1>2, <1>6, <1>8, <2>1, <3>1, <3>2 DEF ImageInv
  <2>4. CASE WriteEnds
    <3>1. save.at \in Addr /\ save.at \in Nat /\ Saved(save.at - 1)
      BY <1>8, SaveIs
    <3>2. /\ seen' = With(doubt) /\ job' = NoJob
          /\ status' = "CLEAN_NEEDED" => OpensPage(save.at)'
      BY <1>1, <2>2, <2>4 DEF WriteEnds, Ended, OpensPage
    <3>3. seen'[save.at] = save.image[save.at] /\ \A i \in 0 .. save.at - 1 : seen'[i] = seen[i]
      BY <2>2, <3>1, <3>2, StoreKnown DEF With
    <3>4. Saved(save.at - 1)' /\ Saved(save.at)'
      BY <1>1, <3>1, <3>3 DEF Saved
    <3>5. SaveAgrees'
      BY <1>1, <1>4, <1>8, <2>1, <3>2, <3>4 DEF ImageInv, SaveAgrees
    <3> QED BY <1>1, <1>2, <1>4, <1>6, <1>8, <2>1, <3>2, <3>5 DEF ImageInv
  <2> QED BY <1>8, <2>3, <2>4 DEF Served, PowerUpEnds, CleanEnds
<1>9. CASE save # NoSave /\ job.op # "write"
  <2>1. save.pc = "cleaned" /\ job.op = "clean" /\ Saved(save.at) /\ OpensPage(save.at)
    BY <1>1, <1>4, <1>9 DEF ImageInv, SaveAgrees
  <2>2. CleanEnds
    BY <2>1, StorePhases DEF Served, GoesOn, PowerUpEnds, WriteEnds, Cleaning
  <2>3. seen' = seen /\ job' = NoJob /\ OpensPage(save.at)'
    BY <1>1, <2>1, <2>2 DEF CleanEnds, Ended, OpensPage
  <2>4. SaveAgrees'
    BY <1>1, <1>4, <1>5, <1>9, <2>1, <2>3 DEF ImageInv, SaveAgrees
  <2> QED BY <1>1, <1>2, <1>6, <1>9, <2>1, <2>3, <2>4 DEF ImageInv
<1> QED BY <1>7, <1>8, <1>9

\* What the application does while the emulation rests.
LEMMA ImageStarts ==
  ASSUME AsBuilt, StoreInv, ImageInv, StartStack
  PROVE  ImageInv'
<1>1. UNCHANGED <<flash, pv, job, status, seen>> /\ UNCHANGED <<save, reported, kept, torn>>
  BY DEF StartStack, allvars
<1>2. Restored' = Restored /\ \A n : Saved(n)' = Saved(n) /\ OpensPage(n)' = OpensPage(n)
  BY <1>1, SeenAlike DEF OpensPage, Current
<1> QED BY <1>1, <1>2 DEF ImageInv, SaveAgrees

LEMMA ImageRequested ==
  ASSUME AsBuilt, StoreInv, ImageInv, NEW image \in Images, Persist_Save(image)
  PROVE  ImageInv'
<1>1. /\ UNCHANGED <<flash, pv, job, status, seen>> /\ UNCHANGED <<reported, kept, torn>>
      /\ save = NoSave /\ job.pc = "idle"
      /\ save' = [pc |-> "write", image |-> image, at |-> 0]
  BY DEF Persist_Save, allvars, Ready
<1>2. Restored' = Restored
  BY <1>1 DEF Restored
<1>3. /\ save'.pc = "write" /\ save'.image = image /\ save'.at = 0 /\ save' # NoSave
      /\ save' \in [pc : {"write", "written", "cleaned"}, image : Images, at : Nat]
  BY <1>1 DEF NoSave
<1>4. Saved(save.at - 1)'
  BY <1>3 DEF Saved
<1>5. SaveAgrees'
  BY <1>1, <1>3, <1>4, ImagesAre DEF SaveAgrees
<1> QED BY <1>1, <1>2, <1>3, <1>5 DEF ImageInv

LEMMA ImageLoss ==
  ASSUME ImageInv, save' = NoSave, reported' = None, kept' = kept, torn' = torn, seen' = seen, job' = Off
  PROVE  ImageInv'
<1>1. Restored' = Restored
  BY DEF Restored
<1>2. Off.op = "none" /\ NoSave.pc = "none" /\ None # TRUE /\ None # FALSE
  BY ImageAssumption DEF Off, NoJob, NoSave
<1> QED BY <1>1, <1>2 DEF ImageInv, SaveAgrees

\* A word is written, and the pool cleaned, under the save that asks for it.
LEMMA WordBegins ==
  ASSUME AsBuilt, StoreInv, ImageInv, WriteWord
  PROVE  /\ StoreInv' /\ ImageInv'
         /\ Begins("write", [addr |-> save.at, data |-> save.image[save.at]])
<1>1. save.pc = "write" /\ save # NoSave /\ UNCHANGED <<reported, kept>> /\ torn' = TRUE /\ Remember
  BY DEF WriteWord, NoSave
<1>2. /\ save \in [pc : {"write", "written", "cleaned"}, image : Images, at : Nat]
      /\ save.at \in Nat /\ save.at <= NumWords(save.image[0]) /\ Saved(save.at - 1)
      /\ save.at \in Addr /\ save.image[save.at] \in Data
  BY <1>1, SaveIs
<1>3. PICK a \in Addr, d \in Data : a = save.at /\ d = save.image[save.at]
  BY <1>2
<1>4. EEE_Write(a, d)
  <2>1. save.at + ZIGBEE_DB_START_ADDR = a
    BY <1>2, <1>3 DEF ZIGBEE_DB_START_ADDR
  <2> QED BY <1>3, <2>1 DEF WriteWord
<1>5. StoreInv' /\ Begins("write", [addr |-> a, data |-> d])
  BY <1>1, <1>4, BuiltWrite
<1>6. /\ save' = [save EXCEPT !.pc = "written"] /\ save'.pc = "written"
      /\ save'.image = save.image /\ save'.at = save.at
      /\ save' \in [pc : {"write", "written", "cleaned"}, image : Images, at : Nat]
  BY <1>2 DEF WriteWord
<1>7. seen' = seen /\ Saved(save.at - 1)'
  BY <1>2, <1>5, <1>6, SeenAlike DEF Begins
<1>8. \/ job'.op = "write" /\ job'.pc # "idle" /\ job'.asked = [addr |-> save.at, data |-> save.image[save.at]]
      \/ job'.pc = "idle" /\ status' = "STATE_ERROR"
  BY <1>3, <1>5 DEF Begins, NoJob
<1>9. SaveAgrees'
  BY <1>2, <1>6, <1>7, <1>8 DEF SaveAgrees
<1>10. ImageInv'
  BY <1>1, <1>6, <1>8, <1>9 DEF ImageInv, NoSave
<1> QED BY <1>3, <1>5, <1>10

LEMMA CleanBegins ==
  ASSUME AsBuilt, StoreInv, ImageInv, CleanPool
  PROVE  StoreInv' /\ ImageInv' /\ Begins("clean", None)
<1>1. /\ save.pc = "written" /\ save # NoSave /\ UNCHANGED <<reported, kept, torn>> /\ EEE_Clean /\ Remember
      /\ job.pc = "idle" /\ status = "CLEAN_NEEDED"
  BY DEF CleanPool, EEE_Clean, NoSave
<1>2. /\ save \in [pc : {"write", "written", "cleaned"}, image : Images, at : Nat]
      /\ save.at <= NumWords(save.image[0]) /\ Saved(save.at - 1) /\ Saved(save.at) /\ torn = TRUE
  BY <1>1, SaveIs
<1>3. StoreInv' /\ Begins("clean", None) /\ Current' = Current /\ flash' = flash
  BY <1>1, BuiltClean
<1>4. seen' = seen /\ job'.op = "clean" /\ job'.pc # "idle"
  BY <1>3 DEF Begins
<1>5. /\ save'.pc = "cleaned" /\ save'.image = save.image /\ save'.at = save.at
      /\ save' \in [pc : {"write", "written", "cleaned"}, image : Images, at : Nat]
  BY <1>2 DEF CleanPool
<1>6. Saved(save.at - 1)' /\ Saved(save.at)' /\ OpensPage(save.at)'
  <2>1. OpensPage(save.at)
    BY <1>1 DEF ImageInv
  <2>2. OpensPage(save.at)'
    BY <1>3, <1>5, <2>1 DEF OpensPage
  <2>3. Saved(save.at - 1)' /\ Saved(save.at)'
    BY <1>2, <1>4, <1>5, SeenAlike
  <2> QED BY <2>2, <2>3
<1>7. SaveAgrees'
  BY <1>2, <1>4, <1>5, <1>6 DEF SaveAgrees
<1>8. ImageInv'
  BY <1>1, <1>2, <1>4, <1>5, <1>6, <1>7 DEF ImageInv, NoSave
<1> QED BY <1>3, <1>8

\* A word that is in the flash: on with the next one, or the save is done.
LEMMA ImageAdvances ==
  ASSUME AsBuilt, StoreInv, ImageInv, save # NoSave, job.pc = "idle", UNCHANGED allvars,
         Saved(save.at), NEW ok \in BOOLEAN, Advance(ok), save.pc # "write",
         ~ ok => OpensPage(save.at)
  PROVE  ImageInv'
<1>1. UNCHANGED <<flash, pv, job, status, seen>>
  BY DEF allvars
<1>2. /\ save \in [pc : {"write", "written", "cleaned"}, image : Images, at : Nat]
      /\ save.image \in Images /\ save.at \in Nat /\ NumWords(save.image[0]) \in Nat
      /\ save.at <= NumWords(save.image[0]) /\ torn = TRUE
  BY SaveIs
<1>3. Restored' = Restored /\ \A n : OpensPage(n)' = OpensPage(n)
  BY <1>1 DEF Restored, OpensPage, Current
<1>4. CASE Last
  <2>1. save' = NoSave /\ reported' = ok /\ kept' = save.image /\ torn' = FALSE
    BY <1>2, <1>4 DEF Advance
  <2>2. Restored' = kept'
    <3>1. \A i \in 0 .. NumWords(save.image[0]) : seen[i] = save.image[i]
      BY <1>4 DEF Last, Saved
    <3>2. Restored = save.image
      BY <1>2, <3>1, RestoredIs
    <3> QED BY <1>3, <2>1, <3>2
  <2>3. ok = FALSE => OpensPage(NumWords(kept[0]))'
    <3>1. PICK n : n = NumWords(save.image[0])
      OBVIOUS
    <3>2. ok = FALSE => OpensPage(n)'
      BY <1>3, <1>4, <3>1 DEF Last
    <3>3. NumWords(kept'[0]) = n
      BY <2>1, <3>1
    <3> QED BY <3>2, <3>3 DEF OpensPage
  <2>4. SaveAgrees'
    <3>1. job.op = "none"
      BY StorePhases
    <3> QED BY <1>1, <2>1, <3>1 DEF SaveAgrees
  <2>5. NoSave.pc = "none"
    BY DEF NoSave
  <2> QED BY <1>1, <2>1, <2>2, <2>3, <2>4, <2>5 DEF ImageInv
<1>5. CASE ~ Last
  <2>1. /\ save' = [save EXCEPT !.pc = "write", !.at = @ + 1] /\ UNCHANGED <<reported, kept>> /\ torn' = TRUE
    BY <1>2, <1>5 DEF Advance
  <2>2. /\ save'.pc = "write" /\ save'.image = save.image /\ save'.at = save.at + 1
        /\ save' \in [pc : {"write", "written", "cleaned"}, image : Images, at : Nat]
    <3>1. PICK n \in Nat : n = save.at + 1
      BY <1>2
    <3>2. save' = [save EXCEPT !.pc = "write", !.at = n]
      BY <2>1, <3>1
    <3> QED BY <1>2, <3>1, <3>2
  <2>3. save'.at <= NumWords(save'.image[0]) /\ save'.at - 1 = save.at
    BY <1>2, <1>5, <2>2 DEF Last
  <2>4. Saved(save.at - 1)'
    BY <1>1, <2>2, <2>3 DEF Saved
  <2>5. SaveAgrees'
    BY <1>1, <2>2, <2>3, <2>4 DEF SaveAgrees
  <2> QED BY <2>1, <2>2, <2>5 DEF ImageInv, NoSave
<1> QED BY <1>4, <1>5

\* What the save does once a call of the emulation has ended.
LEMMA ImageAnswered ==
  ASSUME AsBuilt, StoreInv, ImageInv, WordWritten \/ PoolCleaned \/ WriteFailed
  PROVE  ImageInv' /\ UNCHANGED allvars
<1>1. save # NoSave /\ save.pc # "write" /\ job.pc = "idle" /\ UNCHANGED allvars
  <2>1. save.pc \in {"written", "cleaned"} /\ job.pc = "idle" /\ UNCHANGED allvars
    BY DEF WordWritten, PoolCleaned, WriteFailed
  <2> QED BY <2>1 DEF NoSave
<1>2. CASE WordWritten
  <2>1. Saved(save.at) /\ Advance(TRUE)
    BY <1>1, <1>2, SaveIs DEF WordWritten
  <2> QED BY <1>1, <2>1, ImageAdvances
<1>3. CASE PoolCleaned
  <2>1. Saved(save.at) /\ Advance(FALSE) /\ OpensPage(save.at)
    BY <1>1, <1>3, SaveIs DEF PoolCleaned, ImageInv
  <2> QED BY <1>1, <2>1, ImageAdvances
<1>4. CASE WriteFailed
  <2>1. /\ UNCHANGED <<flash, pv, job, status, seen>> /\ UNCHANGED <<kept, torn>>
        /\ save' = NoSave /\ reported' = FALSE /\ torn = TRUE
    BY <1>1, <1>4, SaveIs DEF WriteFailed, allvars
  <2>2. job.op = "none"
    BY <1>1, StorePhases
  <2>3. SaveAgrees'
    BY <2>1, <2>2 DEF SaveAgrees
  <2> QED BY <1>1, <2>1, <2>3 DEF ImageInv, NoSave
<1> QED BY <1>2, <1>3, <1>4

LEMMA ImageStutters ==
  ASSUME ImageInv, UNCHANGED imagevars
  PROVE  ImageInv'
<1>1. UNCHANGED <<flash, pv, job, status, seen>> /\ UNCHANGED <<save, reported, kept, torn>>
  BY DEF imagevars, allvars, client
<1>2. Restored' = Restored /\ \A n : Saved(n)' = Saved(n) /\ OpensPage(n)' = OpensPage(n)
  BY <1>1, SeenAlike DEF OpensPage, Current
<1> QED BY <1>1, <1>2 DEF ImageInv, SaveAgrees

-----------------------------------------------------------------------------
(* Every step, and what follows of the specification. *)

LEMMA ImageStep ==
  ASSUME AsBuilt, StoreInv, ImageInv, [ImageNext]_imagevars
  PROVE  StoreInv' /\ ImageInv' /\ (Unseen \/ Promise!StoreNext)
<1>1. CASE Emulation
  <2>1. (Step \/ Refused) /\ Remember /\ UNCHANGED client
    BY <1>1 DEF Emulation
  <2>2. StoreInv' /\ Served
    BY <2>1, BuiltServes
  <2> QED BY <2>1, <2>2, ImageServed, ServedAsPromised
<1>2. CASE StartStack
  <2>1. UNCHANGED allvars
    BY <1>2 DEF StartStack
  <2> QED BY <1>2, <2>1, ImageStarts, StoreStutters
<1>3. CASE WriteWord
  <2>1. save # NoSave
    BY <1>3 DEF WriteWord, NoSave
  <2>2. [addr |-> save.at, data |-> save.image[save.at]] \in Element \cup {None}
    BY <2>1, SaveIs DEF Element
  <2>3. /\ StoreInv' /\ ImageInv'
        /\ Begins("write", [addr |-> save.at, data |-> save.image[save.at]])
    BY <1>3, WordBegins
  <2> QED BY <2>2, <2>3, BegunAsPromised
<1>4. CASE CleanPool
  BY <1>4, CleanBegins, BegunAsPromised
<1>5. CASE WordWritten \/ PoolCleaned \/ WriteFailed
  BY <1>5, ImageAnswered, StoreStutters
<1>6. CASE LosePower
  <2>1. /\ PowerLoss /\ Remember /\ GetState(flash, OldPage) = ERASED
        /\ save' = NoSave /\ reported' = None /\ kept' = kept /\ torn' = torn
    BY <1>6 DEF LosePower, OldPage
  <2>2. StoreInv' /\ seen' = seen /\ doubt' = doubt /\ job' = Off
    BY <2>1, BuiltLoss
  <2> QED BY <2>1, <2>2, ImageLoss, LossAsPromised
<1>7. CASE \E image \in Images : Persist_Save(image)
  <2>1. PICK image \in Images : Persist_Save(image)
    BY <1>7
  <2>2. UNCHANGED allvars
    BY <2>1 DEF Persist_Save
  <2> QED BY <2>1, <2>2, ImageRequested, StoreStutters
<1>8. CASE UNCHANGED imagevars
  <2>1. UNCHANGED allvars
    BY <1>8 DEF imagevars
  <2> QED BY <1>8, <2>1, ImageStutters, StoreStutters
<1> QED BY <1>1, <1>2, <1>3, <1>4, <1>5, <1>6, <1>7, <1>8 DEF ImageNext, Saving

LEMMA ImageInvKept ==
  ASSUME AsBuilt
  PROVE  ImageSpec => [](StoreInv /\ ImageInv)
<1>1. ImageInit => StoreInv /\ ImageInv
  BY ImageAtStart
<1>2. StoreInv /\ ImageInv /\ [ImageNext]_imagevars => (StoreInv /\ ImageInv)'
  BY ImageStep
<1> QED BY <1>1, <1>2, PTL DEF ImageSpec

\* For images that fit in a page (AsBuilt), of which app_zigbee_nvm.h asks for up
\* to 1000 words and a page as built holds 508: between two saves, and after every
\* power-up, APP_ZIGBEE_NVM_Read returns the image APP_ZIGBEE_NVM_Write last
\* brought to the flash, unless a later save stopped short.
THEOREM SavedImageAlwaysRead ==
  ASSUME AsBuilt
  PROVE  ImageSpec => []SavedImageIsRead
<1>1. StoreInv /\ ImageInv => SavedImageIsRead
  BY ReadsAsSeen DEF SavedImageIsRead, ImageInv
<1> QED BY <1>1, ImageInvKept, PTL

\* When APP_ZIGBEE_NVM_Write returns true, the image it was given is in the flash
\* to its last word and is what APP_ZIGBEE_NVM_Read returns from then on.
THEOREM ReportAlwaysHonest ==
  ASSUME AsBuilt
  PROVE  ImageSpec => []ReportIsHonest
<1>1. ImageInv => (save = NoSave /\ reported = TRUE => ~ torn)
  BY DEF ImageInv
<1>2. SavedImageIsRead /\ ImageInv => ReportIsHonest
  BY <1>1 DEF ReportIsHonest, SavedImageIsRead
<1> QED BY <1>2, SavedImageAlwaysRead, ImageInvKept, PTL

\* When it returns false, it stopped short, or the last word of the image opened
\* a new page: the only case in which a save that is whole is called a failure.
THEOREM FailureIsShortOrAtANewPage ==
  ASSUME AsBuilt
  PROVE  ImageSpec => [](save = NoSave /\ reported = FALSE /\ ~ torn => OpensPage(NumWords(kept[0])))
<1>1. ImageInv => (save = NoSave /\ reported = FALSE /\ ~ torn => OpensPage(NumWords(kept[0])))
  BY DEF ImageInv
<1> QED BY <1>1, ImageInvKept, PTL

\* Under the calls of the image code, with power losses and cleans the flash
\* driver refuses, the emulation is the store of words of ee_override.h: each
\* step is one of NvStore's, or a stutter.
THEOREM BuiltImplementsStore ==
  ASSUME AsBuilt
  PROVE  ImageSpec => KeepsItsPromise
<1>1. ImageInit => Promise!StoreInit
  BY SeenAtStart DEF ImageInit
<1>2. StoreInv /\ ImageInv /\ [ImageNext]_imagevars => [Promise!StoreNext]_(Promise!svars)
  BY ImageStep DEF Unseen, Promise!svars
<1> QED BY <1>1, <1>2, ImageInvKept, PTL DEF ImageSpec, KeepsItsPromise, Promise!StoreSpec

\* A power-up never formats a page that holds words, after any loss but one from
\* the start of a transfer to the end of its clean: nowhere else does EE_Recovery
\* lose the bank with one page a pool.
THEOREM BuiltRecovers ==
  ASSUME AsBuilt
  PROVE  ImageSpec => PowerLossIsRecovered
<1>1. ASSUME StoreInv, PowerUp, \E a \in Addr : seen[a] # None
      PROVE  job'.op = "recover"
  <2>1. Lost /\ flash \in FlashType /\ flash[2] = BlankPage
    BY <1>1, StorePhases, StoreKnown DEF PowerUp
  <2>2. PICK c \in Bank :
          /\ GetState(flash, c) = ACTIVE /\ GetState(flash, NextPool(c)) = ERASED
    BY <1>1, <2>1 DEF Lost, NothingStored, Holds
  <2>3. Found(flash) # {} /\ Candidate(flash) = <<ACTIVE, c>>
    BY <2>1, <2>2, TakesThePage
  <2>4. Adopt(c)
    <3>1. Candidate(flash)[1] = ACTIVE /\ Candidate(flash)[2] = c
      BY <2>3
    <3> QED BY <1>1, <2>3, <3>1, OnePage DEF PowerUp
  <2> QED BY <2>4 DEF Adopt, NoJob
<1>2. StoreInv /\ ImageInv /\ [ImageNext]_imagevars
        => [(PowerUp /\ doubt # Corrupt /\ \E a \in Addr : seen[a] # None) => job'.op = "recover"]_allvars
  BY <1>1
<1> QED BY <1>2, ImageInvKept, PTL DEF ImageSpec, PowerLossIsRecovered
=============================================================================
