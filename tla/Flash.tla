-------------------------------- MODULE Flash --------------------------------
(***************************************************************************)
(* The flash controller of the CC2530 (CC2530flashCtrler.cc): pages are    *)
(* erased and words programmed at the address in FADDR.                    *)
(*                                                                         *)
(* FADDR is a word address whose bits are the bank (3), the page in the    *)
(* bank (4) and the word in the page (9, one of them in FADDRH); here it   *)
(* is the record of these fields. The controller remembers the address and *)
(* a pointer to a bank from the last write to FADDRH or FADDRL, and uses   *)
(* them when the last byte of a word arrives.                              *)
(*                                                                         *)
(* Flash is also reached through XDATA: an access above 0x8000 goes to the *)
(* bank MEMCTR selects, a write included (sim.src/mem.cc).                 *)
(***************************************************************************)
EXTENDS Naturals, FiniteSets

CONSTANTS
  NBanks,        \* 8
  PagesPerBank,  \* 16
  Halves,        \* the values software writes to bit 0 of FADDRH
  Lows,          \* and to FADDRL: the two select a word in the page
  WordBytes,     \* the bytes of a word: 4
  MaxWrites,     \* bound: the words programmed in a page between erases
  MaxHeld        \* bound: the words not erased, in all banks

Banks == 0 .. NBanks - 1
High == [bank : Banks, page : 0 .. PagesPerBank - 1, half : Halves]
Word == [page : 0 .. PagesPerBank - 1, half : Halves, low : Lows]
Page == Banks \X (0 .. PagesPerBank - 1)

ASSUME FlashAssumption ==
  /\ NBanks \in Nat \ {0} /\ PagesPerBank \in Nat \ {0}
  /\ 0 \in Halves /\ 0 \in Lows
  /\ WordBytes \in Nat /\ WordBytes > 1
  /\ MaxWrites \in Nat /\ MaxHeld \in Nat

VARIABLES
  faddrh, faddrl,  \* the cells FADDRH and FADDRL
  address,         \* the address the controller holds, as <<high, low>>
  flash,           \* the bank its pointer selects
  writing,
  TXNum,           \* the bytes collected in reg
  PageTab,         \* NumberOfWrites of the pages
  WordTab,         \* NumberOfWrites of the words of each bank
  memctr,          \* MCON: the bank seen in XDATA
  contents,        \* what the words of each bank hold
  aimed,           \* history: what set the pointer: "bank" (an erase of the page
                   \* in FADDR), "faddr" (a write to FADDR) or "stale"
  strayed          \* history: a word has been programmed in another bank than
                   \* FADDR's, or through XDATA

faddr == <<faddrh, faddrl>>
registers == <<faddrh, faddrl, address, flash, aimed>>
vars == <<registers, writing, TXNum, PageTab, WordTab, memctr, contents, strayed>>

TypeOK ==
  /\ faddrh \in High /\ faddrl \in Lows
  /\ address \in High \X Lows
  /\ flash \in Banks
  /\ writing \in BOOLEAN
  /\ TXNum \in 0 .. WordBytes - 1
  /\ PageTab \in [Page -> Nat]
  /\ WordTab \in [Banks \X Word -> Nat]
  /\ memctr \in Banks
  /\ contents \in [Banks \X Word -> {"erased", "programmed", "other"}]
  /\ aimed \in {"bank", "faddr", "stale"}
  /\ strayed \in BOOLEAN

PageOf(high) == <<high.bank, high.page>>
WordOf(addr) == [page |-> addr[1].page, half |-> addr[1].half, low |-> addr[2]]
ZeroHigh == [bank |-> 0, page |-> 0, half |-> 0]

\* After construction: ChipErase has erased every page, bank by bank, and left
\* the pointer at the last one.
Init ==
  /\ faddrh \in High /\ faddrl \in Lows
  /\ address = <<ZeroHigh, 0>>
  /\ flash = NBanks - 1
  /\ writing = FALSE /\ TXNum = 0
  /\ PageTab = [p \in Page |-> 0]
  /\ WordTab = [c \in Banks \X Word |-> 0]
  /\ memctr = 0
  /\ contents = [c \in Banks \X Word |-> "erased"]
  /\ aimed = "stale" /\ strayed = FALSE

-----------------------------------------------------------------------------
(* The registers.                                                          *)

\* (address & 0xE000)>>14: the lowest of the three bits is shifted out.
BankSelected(high) == high.bank \div 2

\* The address taken from the cells, which get the value after the hook.
SetAddress_Cells(high, low) ==
  /\ faddrh' = high /\ faddrl' = low
  /\ address' = faddr
  /\ flash' = BankSelected(high)
  /\ aimed' = "faddr"
  /\ UNCHANGED <<writing, TXNum, PageTab, WordTab, memctr, contents, strayed>>

SetAddress(high, low) ==
  /\ faddrh' = high /\ faddrl' = low
  /\ address' = <<high, low>>
  /\ flash' = BankSelected(high)
  /\ aimed' = "faddr"
  /\ UNCHANGED <<writing, TXNum, PageTab, WordTab, memctr, contents, strayed>>

WriteFADDRH == \E high \in High : SetAddress(high, faddrl)
WriteFADDRL == \E low \in Lows : SetAddress(faddrh, low)

\* erasePage, of the page in the cell FADDRH. BUSY is set and cleared inside.
InPage(p, c) == c[1] = p[1] /\ c[2].page = p[2]

\* The erase leaves the counts of the words.
erasePage_Words(p) ==
  /\ flash' = p[1]
  /\ contents' = [c \in Banks \X Word |-> IF InPage(p, c) THEN "erased" ELSE contents[c]]
  /\ PageTab' = [PageTab EXCEPT ![p] = 0]
  /\ UNCHANGED WordTab

\* The pointer decides which bank is erased.
erasePage_Pointer(p) ==
  /\ contents' = [c \in Banks \X Word |->
                    IF InPage(<<flash, p[2]>>, c) THEN "erased" ELSE contents[c]]
  /\ WordTab' = [c \in Banks \X Word |-> IF InPage(p, c) THEN 0 ELSE WordTab[c]]
  /\ PageTab' = [PageTab EXCEPT ![p] = 0]
  /\ UNCHANGED flash

\* The erase keeps the pointer.
erasePage_Local(p) ==
  /\ contents' = [c \in Banks \X Word |-> IF InPage(p, c) THEN "erased" ELSE contents[c]]
  /\ WordTab' = [c \in Banks \X Word |-> IF InPage(p, c) THEN 0 ELSE WordTab[c]]
  /\ PageTab' = [PageTab EXCEPT ![p] = 0]
  /\ UNCHANGED flash

erasePage(p) ==
  /\ flash' = p[1]
  /\ contents' = [c \in Banks \X Word |-> IF InPage(p, c) THEN "erased" ELSE contents[c]]
  /\ WordTab' = [c \in Banks \X Word |-> IF InPage(p, c) THEN 0 ELSE WordTab[c]]
  /\ PageTab' = [PageTab EXCEPT ![p] = 0]

\* FCTL: the bits ERASE and WRITE, looked at in this order.
WriteFCTL(erase, write) ==
  /\ IF erase
     THEN /\ erasePage(PageOf(faddrh))
          /\ aimed' = IF aimed = "stale" THEN "stale" ELSE "bank"
     ELSE UNCHANGED <<flash, contents, WordTab, PageTab, aimed>>
  /\ writing' = write
  /\ UNCHANGED <<faddrh, faddrl, address, TXNum, memctr, strayed>>

-----------------------------------------------------------------------------
(* FWDATA collects the bytes of a word; the last one programs it.          *)

\* flashWrite: the counts follow the address, the bytes the pointer.
flashWrite ==
  LET counted == <<address[1].bank, WordOf(address)>>
      written == <<flash, WordOf(address)>>
  IN  /\ PageTab' = [PageTab EXCEPT ![PageOf(address[1])] = PageTab[PageOf(address[1])] + 1]
      /\ WordTab' = [WordTab EXCEPT ![counted] = WordTab[counted] + 1]
      /\ contents' = [contents EXCEPT ![written] = "programmed"]
      /\ strayed' = (strayed \/ written # counted)

Room == Cardinality({c \in Banks \X Word : contents[c] # "erased"}) < MaxHeld

\* TXNum is not set back.
WriteFWDATA_Runs ==
  /\ writing
  /\ PageTab[PageOf(address[1])] < MaxWrites /\ Room
  /\ TXNum' = TXNum + 1
  /\ IF TXNum = WordBytes - 1 THEN flashWrite
     ELSE UNCHANGED <<PageTab, WordTab, contents, strayed>>
  /\ UNCHANGED <<registers, writing, memctr>>

WriteFWDATA ==
  /\ writing
  /\ PageTab[PageOf(address[1])] < MaxWrites /\ Room
  /\ TXNum' = (TXNum + 1) % WordBytes
  /\ IF TXNum = WordBytes - 1 THEN flashWrite
     ELSE UNCHANGED <<PageTab, WordTab, contents, strayed>>
  /\ UNCHANGED <<registers, writing, memctr>>

-----------------------------------------------------------------------------
(* What else reaches flash or the controller.                              *)

\* MCON, and a write to XDATA above 0x8000.
WriteMCON ==
  /\ memctr' \in Banks
  /\ UNCHANGED <<registers, writing, TXNum, PageTab, WordTab, contents, strayed>>

WriteXData(w) ==
  /\ Room
  /\ contents' = [contents EXCEPT ![<<memctr, w>>] = "other"]
  /\ strayed' = TRUE
  /\ UNCHANGED <<registers, writing, TXNum, PageTab, WordTab, memctr>>

\* A reset of the chip: the SFRs are cleared, the XREGs, with FADDR, are not,
\* and neither is the pointer. Every count is forgotten.
Reset ==
  /\ address' = <<ZeroHigh, 0>>
  /\ writing' = FALSE /\ TXNum' = 0
  /\ PageTab' = [p \in Page |-> 0]
  /\ WordTab' = [c \in Banks \X Word |-> 0]
  /\ memctr' = 0
  /\ aimed' = "stale"
  /\ strayed' = (strayed \/ \E c \in Banks \X Word : contents[c] # "erased")
  /\ UNCHANGED <<faddrh, faddrl, flash, contents>>

Next ==
  \/ WriteFADDRH \/ WriteFADDRL
  \/ \E erase, write \in BOOLEAN : WriteFCTL(erase, write)
  \/ WriteFWDATA
  \/ WriteMCON
  \/ \E w \in Word : WriteXData(w)
  \/ Reset

Spec == Init /\ [][Next]_vars

-----------------------------------------------------------------------------
(* Properties.                                                             *)

\* The controller's address is the one in FADDR and its pointer is at the bank
\* of the page, or at half its number after a write to FADDR: no order of
\* register writes, erases and words leaves them at an older address, and only
\* a reset does.
FollowsFADDR ==
  aimed # "stale" =>
    /\ address = faddr
    /\ flash = IF aimed = "bank" THEN faddrh.bank ELSE BankSelected(faddrh)

\* Erasing the page in FADDR and programming it without a write to FADDR in
\* between works in every bank, programming after a write to FADDR in bank 0:
\* the word that becomes programmed is the one in FADDR.
HitsAfterErase ==
  [][\A c \in Banks \X Word :
       (contents'[c] = "programmed" /\ contents[c] # "programmed")
       /\ (aimed = "bank" \/ (aimed = "faddr" /\ faddrh.bank = 0))
       => c = <<faddrh.bank, WordOf(faddr)>>]_vars

\* Whatever the pointer, a step never erases a word outside the page in FADDR,
\* and it programs one word at the most.
NeighboursKept ==
  [][/\ \A c \in Banks \X Word :
          contents'[c] = "erased" /\ contents[c] # "erased" => InPage(PageOf(faddrh), c)
     /\ \A c, d \in Banks \X Word :
          contents'[c] # contents[c] /\ contents'[d] # contents[d]
          /\ contents'[c] = "programmed" => c = d]_vars

\* As long as every word went where FADDR says and no reset or XDATA write came
\* between, a word is erased exactly if its count is 0, and a page is if all its
\* words are: the counts that warn of wear tell what the flash holds.
CountsTellContents ==
  ~strayed =>
    /\ \A c \in Banks \X Word : WordTab[c] = 0 <=> contents[c] = "erased"
    /\ \A p \in Page :
         PageTab[p] = 0 <=> \A c \in Banks \X Word : InPage(p, c) => contents[c] = "erased"

\* flashWrite's comment: "13 LSB of faddr are word address, flashbank number
\* already selected when address is written to faddr registers": a word lands in
\* the bank of the address in FADDR, at the least when software has written it.
WordsLandAtFADDR ==
  [][\A c \in Banks \X Word :
       (contents'[c] = "programmed" /\ contents[c] # "programmed") /\ aimed = "faddr"
       => c = <<faddrh.bank, WordOf(faddr)>>]_vars
=============================================================================
