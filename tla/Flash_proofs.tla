----------------------------- MODULE Flash_proofs -----------------------------
(***************************************************************************)
(* Proofs about Flash: its types, that the controller follows FADDR, which *)
(* words a step can touch, and that the counts tell the contents, for any  *)
(* number of banks, pages and words.                                       *)
(***************************************************************************)
EXTENDS Flash, TLAPS

USE FlashAssumption

-----------------------------------------------------------------------------
(* Addresses.                                                              *)

\* The fields of an address: its word, its page, and the bank after a write to
\* FADDR, which is the bank itself for bank 0.
LEMMA AddressFields ==
  ASSUME NEW high \in High, NEW low \in Lows
  PROVE  /\ high.bank \in Banks
         /\ PageOf(high) \in Page
         /\ WordOf(<<high, low>>) \in Word
         /\ BankSelected(high) \in Banks
         /\ high.bank = 0 => BankSelected(high) = 0
         /\ InPage(PageOf(high), <<high.bank, WordOf(<<high, low>>)>>)
<1>1. high.bank \in Banks /\ high.page \in 0 .. PagesPerBank - 1 /\ high.half \in Halves
  BY DEF High
<1>2. BankSelected(high) \in Banks /\ (high.bank = 0 => BankSelected(high) = 0)
  BY <1>1 DEF BankSelected, Banks
<1> QED
  BY <1>1, <1>2 DEF PageOf, Page, WordOf, Word, InPage

LEMMA ZeroAddress == ZeroHigh \in High /\ <<ZeroHigh, 0>> \in High \X Lows
  BY DEF ZeroHigh, High, Banks

\* The address of the controller as a word and its page.
LEMMA ControllerAddress ==
  ASSUME TypeOK
  PROVE  /\ address[1] \in High /\ address[1].bank \in Banks
         /\ PageOf(address[1]) \in Page /\ WordOf(address) \in Word
         /\ InPage(PageOf(address[1]), <<address[1].bank, WordOf(address)>>)
<1>1. PICK high \in High, low \in Lows : address = <<high, low>>
  BY DEF TypeOK
<1> QED
  BY <1>1, AddressFields

-----------------------------------------------------------------------------
(* Types.                                                                  *)

LEMMA TypeInit == Init => TypeOK
<1> SUFFICES ASSUME Init
    PROVE  TypeOK
  OBVIOUS
<1>1. address \in High \X Lows /\ flash \in Banks /\ memctr \in Banks
  BY ZeroAddress DEF Init, Banks
<1>2. TXNum \in 0 .. WordBytes - 1
  BY DEF Init
<1> QED
  BY <1>1, <1>2 DEF Init, TypeOK

LEMMA TypeStep == TypeOK /\ [Next]_vars => TypeOK'
<1> SUFFICES ASSUME TypeOK, [Next]_vars
    PROVE  TypeOK'
  OBVIOUS
<1>1. ASSUME NEW high \in High, NEW low \in Lows, SetAddress(high, low)
      PROVE  TypeOK'
  BY <1>1, AddressFields DEF SetAddress, TypeOK
<1>2. CASE WriteFADDRH
  BY <1>1, <1>2 DEF WriteFADDRH, TypeOK
<1>3. CASE WriteFADDRL
  BY <1>1, <1>3 DEF WriteFADDRL, TypeOK
<1>4. ASSUME NEW erase \in BOOLEAN, NEW write \in BOOLEAN, WriteFCTL(erase, write)
      PROVE  TypeOK'
  <2>1. PageOf(faddrh) \in Page /\ faddrh.bank \in Banks
    BY AddressFields DEF TypeOK
  <2>2. CASE erase
    BY <1>4, <2>1, <2>2 DEF WriteFCTL, erasePage, TypeOK, PageOf
  <2>3. CASE ~erase
    BY <1>4, <2>3 DEF WriteFCTL, TypeOK
  <2> QED
    BY <2>2, <2>3
<1>5. CASE WriteFWDATA
  <2>1. TXNum' \in 0 .. WordBytes - 1
    BY <1>5 DEF WriteFWDATA, TypeOK
  <2>2. CASE TXNum = WordBytes - 1
    <3>1. flashWrite
      BY <1>5, <2>2 DEF WriteFWDATA
    <3>2. /\ PageTab' \in [Page -> Nat] /\ WordTab' \in [Banks \X Word -> Nat]
          /\ contents' \in [Banks \X Word -> {"erased", "programmed", "other"}]
      BY <3>1, ControllerAddress DEF flashWrite, TypeOK
    <3>3. strayed' \in BOOLEAN
      BY <3>1 DEF flashWrite, TypeOK
    <3> QED
      BY <1>5, <2>1, <3>2, <3>3 DEF WriteFWDATA, TypeOK, registers
  <2>3. CASE TXNum # WordBytes - 1
    BY <1>5, <2>1, <2>3 DEF WriteFWDATA, TypeOK, registers
  <2> QED
    BY <2>2, <2>3
<1>6. CASE WriteMCON
  BY <1>6 DEF WriteMCON, TypeOK, registers
<1>7. ASSUME NEW w \in Word, WriteXData(w)
      PROVE  TypeOK'
  BY <1>7 DEF WriteXData, TypeOK, registers
<1>8. CASE Reset
  <2>1. address' \in High \X Lows /\ memctr' \in Banks /\ TXNum' \in 0 .. WordBytes - 1
    BY <1>8, ZeroAddress DEF Reset, Banks
  <2>2. strayed' \in BOOLEAN
    BY <1>8 DEF Reset, TypeOK
  <2> QED
    BY <1>8, <2>1, <2>2 DEF Reset, TypeOK
<1>9. CASE UNCHANGED vars
  BY <1>9 DEF vars, registers, TypeOK
<1> QED
  BY <1>2, <1>3, <1>4, <1>5, <1>6, <1>7, <1>8, <1>9 DEF Next

\* Registers, counts and contents keep their types, in any order of the writes.
THEOREM TypeCorrect == Spec => []TypeOK
  BY TypeInit, TypeStep, PTL DEF Spec

-----------------------------------------------------------------------------
(* The controller follows FADDR.                                           *)

LEMMA FollowsStep == TypeOK /\ FollowsFADDR /\ [Next]_vars => FollowsFADDR'
<1> SUFFICES ASSUME TypeOK, FollowsFADDR, [Next]_vars
    PROVE  FollowsFADDR'
  OBVIOUS
<1>1. ASSUME NEW high \in High, NEW low \in Lows, SetAddress(high, low)
      PROVE  FollowsFADDR'
  BY <1>1 DEF SetAddress, FollowsFADDR, faddr
<1>2. CASE WriteFADDRH
  BY <1>1, <1>2 DEF WriteFADDRH, TypeOK
<1>3. CASE WriteFADDRL
  BY <1>1, <1>3 DEF WriteFADDRL, TypeOK
<1>4. ASSUME NEW erase \in BOOLEAN, NEW write \in BOOLEAN, WriteFCTL(erase, write)
      PROVE  FollowsFADDR'
  BY <1>4 DEF WriteFCTL, erasePage, PageOf, FollowsFADDR, faddr
<1>5. CASE WriteFWDATA
  BY <1>5 DEF WriteFWDATA, registers, FollowsFADDR, faddr
<1>6. CASE WriteMCON
  BY <1>6 DEF WriteMCON, registers, FollowsFADDR, faddr
<1>7. ASSUME NEW w \in Word, WriteXData(w)
      PROVE  FollowsFADDR'
  BY <1>7 DEF WriteXData, registers, FollowsFADDR, faddr
<1>8. CASE Reset
  BY <1>8 DEF Reset, FollowsFADDR
<1>9. CASE UNCHANGED vars
  BY <1>9 DEF vars, registers, FollowsFADDR, faddr
<1> QED
  BY <1>2, <1>3, <1>4, <1>5, <1>6, <1>7, <1>8, <1>9 DEF Next

\* In any order of writes to FADDR, erases and words, the controller works at the
\* address in FADDR, in its bank or the one at half its number.
THEOREM FollowsAlways == Spec => []FollowsFADDR
<1>1. Init => FollowsFADDR
  BY DEF Init, FollowsFADDR
<1> QED
  BY <1>1, TypeCorrect, FollowsStep, PTL DEF Spec

-----------------------------------------------------------------------------
(* The words a step touches.                                               *)

\* A step programs only the word the pointer and the address select, erases only
\* the page in FADDR, and does one of the two at the most.
LEMMA WhatAStepTouches ==
  ASSUME TypeOK, [Next]_vars
  PROVE  \A c \in Banks \X Word :
           contents'[c] # contents[c] =>
             \/ /\ contents'[c] = "erased" /\ InPage(PageOf(faddrh), c)
                /\ \A d \in Banks \X Word : contents'[d] \in {contents[d], "erased"}
             \/ /\ contents'[c] \in {"programmed", "other"}
                /\ contents'[c] = "programmed" => c = <<flash, WordOf(address)>>
                /\ \A d \in Banks \X Word : d # c => contents'[d] = contents[d]
<1> SUFFICES ASSUME NEW c \in Banks \X Word, contents'[c] # contents[c]
    PROVE  \/ /\ contents'[c] = "erased" /\ InPage(PageOf(faddrh), c)
              /\ \A d \in Banks \X Word : contents'[d] \in {contents[d], "erased"}
           \/ /\ contents'[c] \in {"programmed", "other"}
              /\ contents'[c] = "programmed" => c = <<flash, WordOf(address)>>
              /\ \A d \in Banks \X Word : d # c => contents'[d] = contents[d]
  OBVIOUS
<1>1. contents \in [Banks \X Word -> {"erased", "programmed", "other"}]
  BY DEF TypeOK
<1>2. ASSUME NEW erase \in BOOLEAN, NEW write \in BOOLEAN, WriteFCTL(erase, write)
      PROVE  /\ contents'[c] = "erased" /\ InPage(PageOf(faddrh), c)
             /\ \A d \in Banks \X Word : contents'[d] \in {contents[d], "erased"}
  <2>1. erasePage(PageOf(faddrh))
    BY <1>2 DEF WriteFCTL
  <2> QED
    BY <1>1, <2>1 DEF erasePage
<1>3. CASE WriteFWDATA
  <2>1. contents' = [contents EXCEPT ![<<flash, WordOf(address)>>] = "programmed"]
    BY <1>3 DEF WriteFWDATA, flashWrite
  <2> QED
    BY <1>1, <2>1
<1>4. ASSUME NEW w \in Word, WriteXData(w)
      PROVE  /\ contents'[c] = "other"
             /\ \A d \in Banks \X Word : d # c => contents'[d] = contents[d]
  BY <1>1, <1>4 DEF WriteXData
<1>5. ~WriteFADDRH /\ ~WriteFADDRL /\ ~WriteMCON /\ ~Reset /\ vars' # vars
  BY DEF WriteFADDRH, WriteFADDRL, SetAddress, WriteMCON, Reset, vars
<1> QED
  BY <1>2, <1>3, <1>4, <1>5 DEF Next

\* Whatever the pointer, no word outside the page in FADDR is erased and no two
\* words are programmed at once.
THEOREM NeighboursAlwaysKept == Spec => NeighboursKept
<1>1. TypeOK /\ [Next]_vars =>
        [/\ \A c \in Banks \X Word :
              contents'[c] = "erased" /\ contents[c] # "erased" => InPage(PageOf(faddrh), c)
         /\ \A c, d \in Banks \X Word :
              contents'[c] # contents[c] /\ contents'[d] # contents[d]
              /\ contents'[c] = "programmed" => c = d]_vars
  BY WhatAStepTouches
<1> QED
  BY <1>1, TypeCorrect, PTL DEF Spec, NeighboursKept

\* After an erase of the page in FADDR, or in bank 0, a word is programmed where
\* FADDR says, for any number of banks.
THEOREM AlwaysHitsAfterErase == Spec => HitsAfterErase
<1>1. ASSUME TypeOK, FollowsFADDR, [Next]_vars, NEW c \in Banks \X Word,
             contents'[c] = "programmed", contents[c] # "programmed",
             aimed = "bank" \/ (aimed = "faddr" /\ faddrh.bank = 0)
      PROVE  c = <<faddrh.bank, WordOf(faddr)>>
  <2>1. c = <<flash, WordOf(address)>>
    BY <1>1, WhatAStepTouches
  <2>2. address = faddr /\ flash = faddrh.bank
    BY <1>1, AddressFields DEF FollowsFADDR, TypeOK
  <2> QED
    BY <2>1, <2>2
<1>2. TypeOK /\ FollowsFADDR /\ [Next]_vars =>
        [\A c \in Banks \X Word :
           (contents'[c] = "programmed" /\ contents[c] # "programmed")
           /\ (aimed = "bank" \/ (aimed = "faddr" /\ faddrh.bank = 0))
           => c = <<faddrh.bank, WordOf(faddr)>>]_vars
  BY <1>1
<1> QED
  BY <1>2, TypeCorrect, FollowsAlways, PTL DEF Spec, HitsAfterErase

-----------------------------------------------------------------------------
(* The counts and the contents.                                            *)

\* The two conjuncts of CountsTellContents, of given tables.
WordsTell(wt, con) == \A c \in Banks \X Word : wt[c] = 0 <=> con[c] = "erased"
PagesTell(pt, con) ==
  \A p \in Page :
    pt[p] = 0 <=> \A c \in Banks \X Word : InPage(p, c) => con[c] = "erased"

\* Pages are disjoint.
LEMMA OnePage ==
  ASSUME NEW p \in Page, NEW q \in Page, NEW c \in Banks \X Word,
         InPage(p, c), InPage(q, c)
  PROVE  p = q
<1>1. p = <<p[1], p[2]>> /\ q = <<q[1], q[2]>>
  BY DEF Page
<1>2. p[1] = q[1] /\ p[2] = q[2]
  BY DEF InPage
<1> QED
  BY <1>1, <1>2

LEMMA EraseTells ==
  ASSUME TypeOK, NEW p \in Page, erasePage(p),
         WordsTell(WordTab, contents), PagesTell(PageTab, contents)
  PROVE  WordsTell(WordTab', contents') /\ PagesTell(PageTab', contents')
<1>1. WordsTell(WordTab', contents')
  <2>1. \A c \in Banks \X Word :
          \/ WordTab'[c] = 0 /\ contents'[c] = "erased"
          \/ WordTab'[c] = WordTab[c] /\ contents'[c] = contents[c]
    BY DEF erasePage
  <2> QED
    BY <2>1 DEF WordsTell
<1>2. ASSUME NEW q \in Page
      PROVE  PageTab'[q] = 0 <=>
               \A c \in Banks \X Word : InPage(q, c) => contents'[c] = "erased"
  <2>1. CASE q = p
    BY <2>1 DEF erasePage, TypeOK
  <2>2. CASE q # p
    <3>1. PageTab'[q] = PageTab[q]
      BY <2>2 DEF erasePage, TypeOK
    <3>2. \A c \in Banks \X Word : InPage(q, c) => contents'[c] = contents[c]
      BY <2>2, OnePage DEF erasePage
    <3> QED
      BY <3>1, <3>2 DEF PagesTell
  <2> QED
    BY <2>1, <2>2
<1> QED
  BY <1>1, <1>2 DEF PagesTell

LEMMA ProgramTells ==
  ASSUME TypeOK, flashWrite, ~strayed',
         WordsTell(WordTab, contents), PagesTell(PageTab, contents)
  PROVE  WordsTell(WordTab', contents') /\ PagesTell(PageTab', contents')
<1> DEFINE word == <<address[1].bank, WordOf(address)>>
           page == PageOf(address[1])
<1>1. word \in Banks \X Word /\ page \in Page /\ InPage(page, word)
  BY ControllerAddress
<1>2. /\ PageTab' = [PageTab EXCEPT ![page] = PageTab[page] + 1]
      /\ WordTab' = [WordTab EXCEPT ![word] = WordTab[word] + 1]
      /\ contents' = [contents EXCEPT ![word] = "programmed"]
  BY DEF flashWrite
<1> HIDE DEF word, page
<1>3. WordTab'[word] # 0 /\ contents'[word] # "erased"
  BY <1>1, <1>2 DEF TypeOK
<1>4. \A c \in Banks \X Word :
        c # word => WordTab'[c] = WordTab[c] /\ contents'[c] = contents[c]
  BY <1>1, <1>2 DEF TypeOK
<1>5. WordsTell(WordTab', contents')
  BY <1>3, <1>4 DEF WordsTell
<1>6. ASSUME NEW q \in Page
      PROVE  PageTab'[q] = 0 <=>
               \A c \in Banks \X Word : InPage(q, c) => contents'[c] = "erased"
  <2>1. CASE q = page
    <3>1. PageTab'[q] # 0
      BY <1>1, <1>2, <2>1 DEF TypeOK
    <3> QED
      BY <1>1, <1>3, <2>1, <3>1
  <2>2. CASE q # page
    <3>1. PageTab'[q] = PageTab[q]
      BY <1>1, <1>2, <2>2 DEF TypeOK
    <3>2. ~InPage(q, word)
      BY <1>1, <2>2, OnePage
    <3> QED
      BY <1>4, <3>1, <3>2 DEF PagesTell
  <2> QED
    BY <2>1, <2>2
<1> QED
  BY <1>5, <1>6 DEF PagesTell

LEMMA CountsStep == TypeOK /\ CountsTellContents /\ [Next]_vars => CountsTellContents'
<1> SUFFICES ASSUME TypeOK, [Next]_vars, ~strayed',
                    ~strayed => WordsTell(WordTab, contents) /\ PagesTell(PageTab, contents)
    PROVE  WordsTell(WordTab', contents') /\ PagesTell(PageTab', contents')
  BY DEF CountsTellContents, WordsTell, PagesTell
<1>1. ASSUME NEW erase \in BOOLEAN, NEW write \in BOOLEAN, WriteFCTL(erase, write)
      PROVE  WordsTell(WordTab', contents') /\ PagesTell(PageTab', contents')
  <2>1. ~strayed
    BY <1>1 DEF WriteFCTL
  <2>2. CASE erase
    <3>1. PageOf(faddrh) \in Page /\ erasePage(PageOf(faddrh))
      BY <1>1, <2>2, AddressFields DEF WriteFCTL, TypeOK
    <3> QED
      BY <2>1, <3>1, EraseTells
  <2>3. CASE ~erase
    BY <1>1, <2>1, <2>3 DEF WriteFCTL
  <2> QED
    BY <2>2, <2>3
<1>2. CASE WriteFWDATA
  <2>1. CASE flashWrite
    <3>1. ~strayed
      BY <2>1 DEF flashWrite, TypeOK
    <3> QED
      BY <2>1, <3>1, ProgramTells
  <2>2. CASE UNCHANGED <<PageTab, WordTab, contents, strayed>>
    BY <2>2
  <2> QED
    BY <1>2, <2>1, <2>2 DEF WriteFWDATA
<1>3. CASE Reset
  <2>1. \A c \in Banks \X Word : contents'[c] = "erased"
    BY <1>3 DEF Reset, TypeOK
  <2> QED
    BY <1>3, <2>1 DEF Reset, WordsTell, PagesTell
<1>4. ASSUME NEW w \in Word, WriteXData(w)
      PROVE  FALSE
  BY <1>4 DEF WriteXData
<1>5. CASE WriteFADDRH \/ WriteFADDRL \/ WriteMCON \/ UNCHANGED vars
  BY <1>5 DEF WriteFADDRH, WriteFADDRL, SetAddress, WriteMCON, vars
<1> QED
  BY <1>1, <1>2, <1>3, <1>4, <1>5 DEF Next

\* While no word strays the counts of words and pages are 0 exactly where the
\* flash is erased.
THEOREM CountsAlwaysTell == Spec => []CountsTellContents
<1>1. Init => CountsTellContents
  BY DEF Init, CountsTellContents
<1> QED
  BY <1>1, TypeCorrect, CountsStep, PTL DEF Spec
=============================================================================
