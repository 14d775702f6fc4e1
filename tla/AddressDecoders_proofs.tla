----------------------- MODULE AddressDecoders_proofs -----------------------
(***************************************************************************)
(* For spaces, chips and startup decoders of any size: decoders stay       *)
(* disjoint, the cells follow them, and a step that maps an area moves no  *)
(* other address unless an inactive decoder could come to life; where none *)
(* can at startup, none ever can, and the list implements AddressMap.      *)
(***************************************************************************)
EXTENDS AddressDecoders, TLAPS

\* The area of an activated decoder is at most one address longer than what its
\* chip has left.
AreaFits ==
  \A d \in decoders :
    d.activated => d.as_end - d.as_begin <= ChipSize[d.chip] - d.chip_begin

IInv == TypeOK /\ DecodersDisjoint /\ CellsFollowDecoders /\ AreaFits

USE AddressDecodersAssumption

-----------------------------------------------------------------------------
(* One decoder d against the area from b to e.                             *)

\* What remains of a decoder after a shrink on the right is a decoder again.
LEMMA CutRightFacts ==
  ASSUME NEW d \in Decoder, NEW b \in Nat, b > d.as_begin
  PROVE  /\ CutRight(d, b) = [d EXCEPT !.as_end = b - 1]
         /\ CutRight(d, b) \in Decoder
         /\ CutRight(d, b).chip = d.chip /\ CutRight(d, b).activated = d.activated
         /\ CutRight(d, b).as_begin = d.as_begin /\ CutRight(d, b).as_end = b - 1
         /\ CutRight(d, b).chip_begin = d.chip_begin
BY DEF CutRight, Decoder

\* A decoder whose area and chip area begin elsewhere.
Moved(d, x, y) == [d EXCEPT !.as_begin = x, !.chip_begin = y]

LEMMA MovedFacts ==
  ASSUME NEW d \in Decoder, NEW x \in Nat, NEW y \in Nat
  PROVE  /\ Moved(d, x, y) \in Decoder
         /\ Moved(d, x, y).chip = d.chip /\ Moved(d, x, y).activated = d.activated
         /\ Moved(d, x, y).as_begin = x /\ Moved(d, x, y).as_end = d.as_end
         /\ Moved(d, x, y).chip_begin = y
BY DEF Decoder, Moved

\* The same for what lies above e: it starts at the slot d had for e + 1.
AboveE(d, e) == Moved(d, e + 1, d.chip_begin + (e - d.as_begin) + 1)

LEMMA AboveFacts ==
  ASSUME NEW d \in Decoder, NEW e \in Nat, d.as_begin <= e
  PROVE  /\ AboveE(d, e) \in Decoder
         /\ AboveE(d, e).chip = d.chip /\ AboveE(d, e).activated = d.activated
         /\ AboveE(d, e).as_begin = e + 1 /\ AboveE(d, e).as_end = d.as_end
         /\ AboveE(d, e).chip_begin = d.chip_begin + (e - d.as_begin) + 1
<1> DEFINE x == e + 1
           y == d.chip_begin + (e - d.as_begin) + 1
<1>1. x \in Nat /\ y \in Nat
  BY DEF Decoder
<1> HIDE DEF x, y
<1>2. /\ Moved(d, x, y) \in Decoder
      /\ Moved(d, x, y).chip = d.chip /\ Moved(d, x, y).activated = d.activated
      /\ Moved(d, x, y).as_begin = x /\ Moved(d, x, y).as_end = d.as_end
      /\ Moved(d, x, y).chip_begin = y
  BY <1>1, MovedFacts
<1> QED BY <1>2 DEF x, y, AboveE

\* The right half starts after e, at the slot d had for that address, and keeps
\* the end of d.
LEMMA RightHalfFacts ==
  ASSUME NEW d \in Decoder, NEW e \in Nat, d.as_begin <= e
  PROVE  /\ RightHalf(d, e) \in Decoder
         /\ RightHalf(d, e).chip = d.chip
         /\ RightHalf(d, e).as_begin = e + 1 /\ RightHalf(d, e).as_end = d.as_end
         /\ RightHalf(d, e).chip_begin = d.chip_begin + (e - d.as_begin) + 1
         /\ RightHalf(d, e).activated = Activates(RightHalf(d, e))
<1> DEFINE nd == AboveE(d, e)
<1>1. /\ nd \in Decoder /\ nd.chip = d.chip /\ nd.as_begin = e + 1
      /\ nd.as_end = d.as_end /\ nd.chip_begin = d.chip_begin + (e - d.as_begin) + 1
  BY AboveFacts
<1>2. RightHalf(d, e) = [nd EXCEPT !.activated = Activates(nd)]
  BY DEF RightHalf, AboveE, Moved
<1>3. Activates(nd) \in BOOLEAN
  BY DEF Activates
<1> HIDE DEF nd
<1>4. /\ RightHalf(d, e) \in Decoder
      /\ RightHalf(d, e).chip = nd.chip
      /\ RightHalf(d, e).as_begin = nd.as_begin /\ RightHalf(d, e).as_end = nd.as_end
      /\ RightHalf(d, e).chip_begin = nd.chip_begin
      /\ RightHalf(d, e).activated = Activates(nd)
  BY <1>1, <1>2, <1>3 DEF Decoder
<1>5. Activates(RightHalf(d, e)) = Activates(nd)
  BY <1>4 DEF Activates
<1> QED BY <1>1, <1>4, <1>5

\* The four ways a decoder can remain, and what the pieces look like.
LEMMA RemainsCases ==
  ASSUME NEW d \in Decoder, NEW b \in Nat, NEW e \in Nat, b <= e, d.as_begin <= d.as_end,
         NEW r \in Remains(d, b, e)
  PROVE  \/ /\ r = d /\ (e < d.as_begin \/ b > d.as_end)
         \/ /\ r \in Decoder /\ r.chip = d.chip /\ r.activated = d.activated
            /\ b > d.as_begin /\ b <= d.as_end
            /\ r.as_begin = d.as_begin /\ r.as_end = b - 1 /\ r.chip_begin = d.chip_begin
         \/ /\ r \in Decoder /\ r.chip = d.chip /\ r.activated = d.activated
            /\ b <= d.as_begin /\ d.as_begin <= e /\ e < d.as_end
            /\ r.as_begin = e + 1 /\ r.as_end = d.as_end
            /\ r.chip_begin = d.chip_begin + (e - d.as_begin) + 1
         \/ r = RightHalf(d, e) /\ covers(d, b, e)
<1>1. CASE fully_covered_by(d, b, e)
  BY <1>1 DEF Remains
<1>2. CASE ~fully_covered_by(d, b, e) /\ covers(d, b, e)
  <2>1. r \in split(d, b, e)
    BY <1>2 DEF Remains
  <2>2. CASE r = RightHalf(d, e)
    BY <1>2, <2>2
  <2>3. CASE r = shrink_out_of(d, b, d.as_end)
    <3>1. b > d.as_begin /\ b <= d.as_end
      BY <1>2 DEF covers, Decoder
    <3>2. shrink_out_of(d, b, d.as_end) = CutRight(d, b)
      BY <3>1, CutRightFacts DEF shrink_out_of, Decoder
    <3> QED BY <2>3, <3>1, <3>2, CutRightFacts
  <2> QED BY <2>1, <2>2, <2>3 DEF split
<1>3. CASE ~fully_covered_by(d, b, e) /\ ~covers(d, b, e) /\ is_in(d, b, e)
  <2>1. r = shrink_out_of(d, b, e) /\ r.as_begin <= r.as_end
    BY <1>3 DEF Remains
  <2>2. CASE b > d.as_begin
    <3>1. d.as_end <= e /\ b <= d.as_end
      BY <1>3, <2>2 DEF covers, is_in, Area, Decoder
    <3>2. shrink_out_of(d, b, e) = CutRight(d, b)
      BY <2>2, <3>1, CutRightFacts DEF shrink_out_of, Decoder
    <3> QED BY <2>1, <2>2, <3>1, <3>2, CutRightFacts
  <2>3. CASE b <= d.as_begin
    <3>1. d.as_begin <= e /\ e < d.as_end
      BY <1>3, <2>3 DEF fully_covered_by, is_in, Area, Decoder
    <3>2. CutRight(d, b) = d
      BY <2>3 DEF CutRight, Decoder
    <3>3. d.chip_begin + (e - d.as_begin + 1) = d.chip_begin + (e - d.as_begin) + 1
      BY DEF Decoder
    <3>4. r = AboveE(d, e)
      BY <2>1, <3>1, <3>2, <3>3 DEF shrink_out_of, AboveE, Moved
    <3> QED BY <2>3, <3>1, <3>4, AboveFacts
  <2> QED BY <2>2, <2>3 DEF Decoder
<1>4. CASE ~fully_covered_by(d, b, e) /\ ~covers(d, b, e) /\ ~is_in(d, b, e)
  <2>1. r = d
    BY <1>4 DEF Remains
  <2>2. e < d.as_begin \/ b > d.as_end
    BY <1>4 DEF fully_covered_by, covers, is_in, Area, Decoder
  <2> QED BY <2>1, <2>2
<1> QED BY <1>1, <1>2, <1>3, <1>4
\* A piece is not empty, lies in the old area outside the new one, and computes
\* the slots the old decoder computed.
LEMMA RemainsFacts ==
  ASSUME NEW d \in Decoder, NEW b \in Nat, NEW e \in Nat, b <= e, d.as_begin <= d.as_end,
         NEW r \in Remains(d, b, e)
  PROVE  /\ r \in Decoder /\ r.as_begin <= r.as_end /\ r.chip = d.chip
         /\ Area(r) \subseteq Area(d) /\ Area(r) \intersect (b .. e) = {}
         /\ \A a \in Area(r) : SlotOf(r, a) = SlotOf(d, a)
         /\ d.chip_begin <= r.chip_begin
         /\ r.chip_begin - d.chip_begin = r.as_begin - d.as_begin
         /\ r.as_end <= d.as_end
<1>1. CASE r = d /\ (e < d.as_begin \/ b > d.as_end)
  BY <1>1 DEF Area, Decoder
<1>2. CASE /\ r \in Decoder /\ r.chip = d.chip /\ b > d.as_begin /\ b <= d.as_end
           /\ r.as_begin = d.as_begin /\ r.as_end = b - 1 /\ r.chip_begin = d.chip_begin
  BY <1>2 DEF Area, Decoder, SlotOf
<1>3. CASE /\ r \in Decoder /\ r.chip = d.chip /\ d.as_begin <= e /\ e < d.as_end
           /\ r.as_begin = e + 1 /\ r.as_end = d.as_end
           /\ r.chip_begin = d.chip_begin + (e - d.as_begin) + 1
  <2>1. Area(r) = (e + 1) .. d.as_end
    BY <1>3 DEF Area
  <2>2. ASSUME NEW a \in Area(r) PROVE SlotOf(r, a) = SlotOf(d, a)
    <3>1. r.chip_begin + (a - r.as_begin) = d.chip_begin + (a - d.as_begin)
      BY <1>3, <2>1, SMTT(30) DEF Decoder
    <3> QED BY <1>3, <3>1 DEF SlotOf
  <2> QED BY <1>3, <2>1, <2>2 DEF Area, Decoder
<1>4. CASE r = RightHalf(d, e) /\ covers(d, b, e)
  <2>1. d.as_begin <= e /\ e < d.as_end
    BY <1>4 DEF covers, Decoder
  <2> QED BY <1>3, <1>4, <2>1, RightHalfFacts
<1> QED BY <1>1, <1>2, <1>3, <1>4, RemainsCases

\* A piece is activated only if the decoder was, or if split has just activated it.
LEMMA RemainsActivated ==
  ASSUME NEW d \in Decoder, NEW b \in Nat, NEW e \in Nat, b <= e, d.as_begin <= d.as_end,
         NEW r \in Remains(d, b, e), r.activated
  PROVE  d.activated \/ (r = RightHalf(d, e) /\ covers(d, b, e) /\ Activates(r))
<1>1. CASE r = RightHalf(d, e) /\ covers(d, b, e)
  <2>1. d.as_begin <= e
    BY <1>1 DEF covers, Decoder
  <2> QED BY <1>1, <2>1, RightHalfFacts
<1> QED BY <1>1, RemainsCases

\* The pieces of one decoder do not overlap.
LEMMA RemainsDisjoint ==
  ASSUME NEW d \in Decoder, NEW b \in Nat, NEW e \in Nat, b <= e, d.as_begin <= d.as_end,
         NEW r1 \in Remains(d, b, e), NEW r2 \in Remains(d, b, e), r1 # r2
  PROVE  Area(r1) \intersect Area(r2) = {}
<1>1. ~fully_covered_by(d, b, e) /\ covers(d, b, e)
  BY DEF Remains
<1>2. {r1, r2} = {shrink_out_of(d, b, d.as_end), RightHalf(d, e)}
  BY <1>1 DEF Remains, split
<1>3. d.as_begin <= e /\ b > d.as_begin /\ b <= d.as_end
  BY <1>1 DEF covers, Decoder
<1>4. shrink_out_of(d, b, d.as_end) = CutRight(d, b)
  BY <1>3, CutRightFacts DEF shrink_out_of, Decoder
<1>5. CutRight(d, b).as_end = b - 1 /\ RightHalf(d, e).as_begin = e + 1
  BY <1>3, CutRightFacts, RightHalfFacts
<1>6. Area(CutRight(d, b)) \intersect Area(RightHalf(d, e)) = {}
  BY <1>3, <1>5, CutRightFacts, RightHalfFacts DEF Area, Decoder
<1> QED BY <1>2, <1>4, <1>6

\* What lies outside the new area is kept: by an activated piece if the decoder
\* is activated, except perhaps by the right half of a split.
LEMMA RemainsCover ==
  ASSUME NEW d \in Decoder, NEW b \in Nat, NEW e \in Nat, b <= e, d.as_begin <= d.as_end,
         NEW a \in Area(d), a \notin b .. e
  PROVE  \/ \E r \in Remains(d, b, e) : r.activated = d.activated /\ a \in Area(r)
         \/ covers(d, b, e) /\ a \in Area(RightHalf(d, e)) /\ a \in Undecoded(d, b, e)
<1>1. a \in Int /\ d.as_begin <= a /\ a <= d.as_end /\ (a < b \/ a > e)
  BY DEF Area, Decoder
<1>2. ~fully_covered_by(d, b, e)
  BY <1>1 DEF fully_covered_by, Decoder
<1>3. CASE covers(d, b, e)
  <2>1. d.as_begin <= e /\ b > d.as_begin /\ b <= d.as_end
    BY <1>3 DEF covers, Decoder
  <2>2. CASE a > e
    BY <1>1, <1>2, <1>3, <2>1, <2>2, RightHalfFacts DEF Undecoded, Area, Decoder
  <2>3. CASE a < b
    <3>1. shrink_out_of(d, b, d.as_end) = CutRight(d, b)
      BY <2>1, CutRightFacts DEF shrink_out_of, Decoder
    <3>2. CutRight(d, b) \in Remains(d, b, e)
      BY <1>2, <1>3, <3>1 DEF Remains, split
    <3>3. a \in Area(CutRight(d, b)) /\ CutRight(d, b).activated = d.activated
      BY <1>1, <2>1, <2>3, CutRightFacts DEF Area, Decoder
    <3> QED BY <3>2, <3>3
  <2> QED BY <1>1, <2>2, <2>3
<1>4. CASE ~covers(d, b, e) /\ is_in(d, b, e)
  <2> DEFINE r == shrink_out_of(d, b, e)
  <2>1. CASE b > d.as_begin
    <3>1. d.as_end <= e /\ b <= d.as_end
      BY <1>4, <2>1 DEF covers, is_in, Area, Decoder
    <3>2. r = CutRight(d, b)
      BY <2>1, <3>1, CutRightFacts DEF shrink_out_of, Decoder
    <3>3. r.as_begin <= r.as_end
      BY <2>1, <3>2, CutRightFacts DEF Decoder
    <3>4. r \in Remains(d, b, e)
      BY <1>2, <1>4, <3>3 DEF Remains
    <3>5. a \in Area(r) /\ r.activated = d.activated
      BY <1>1, <2>1, <3>1, <3>2, CutRightFacts DEF Area, Decoder
    <3> QED BY <3>4, <3>5
  <2>2. CASE b <= d.as_begin
    <3>1. d.as_begin <= e /\ e < d.as_end
      BY <1>2, <1>4, <2>2 DEF fully_covered_by, is_in, Area, Decoder
    <3>2. CutRight(d, b) = d
      BY <2>2 DEF CutRight, Decoder
    <3>3. d.chip_begin + (e - d.as_begin + 1) = d.chip_begin + (e - d.as_begin) + 1
      BY DEF Decoder
    <3>4. r = AboveE(d, e)
      BY <3>1, <3>2, <3>3 DEF shrink_out_of, AboveE, Moved
    <3> HIDE DEF r
    <3>5. r.as_begin <= r.as_end
      BY <3>1, <3>4, AboveFacts DEF Decoder
    <3>6. r \in Remains(d, b, e)
      BY <1>2, <1>4, <3>5 DEF Remains, r
    <3>7. a \in Area(r) /\ r.activated = d.activated
      BY <1>1, <2>2, <3>1, <3>4, AboveFacts DEF Area, Decoder
    <3> QED BY <3>6, <3>7
  <2> QED BY <2>1, <2>2 DEF Decoder
<1>5. CASE ~covers(d, b, e) /\ ~is_in(d, b, e)
  BY <1>2, <1>5 DEF Remains
<1> QED BY <1>3, <1>4, <1>5

\* Cells that lose their slot lie in the new area or in the right half of a split.
LEMMA UndecodedFacts ==
  ASSUME NEW d \in Decoder, NEW b \in Nat, NEW e \in Nat, b <= e, d.as_begin <= d.as_end,
         NEW a \in Undecoded(d, b, e)
  PROVE  /\ a \in Area(d)
         /\ a \notin b .. e => covers(d, b, e) /\ a \in Area(RightHalf(d, e))
<1>1. CASE fully_covered_by(d, b, e)
  BY <1>1 DEF Undecoded, fully_covered_by, Area, Decoder
<1>2. CASE ~fully_covered_by(d, b, e) /\ covers(d, b, e)
  <2>1. d.as_begin <= e /\ b > d.as_begin
    BY <1>2 DEF covers, Decoder
  <2> QED BY <1>2, <2>1, RightHalfFacts DEF Undecoded, Area, Decoder
<1>3. CASE ~fully_covered_by(d, b, e) /\ ~covers(d, b, e)
  BY <1>3 DEF Undecoded, Area, Decoder
<1> QED BY <1>1, <1>2, <1>3

\* A slot is a slot of the chip or none.
LEMMA SlotType ==
  ASSUME NEW d \in Decoder, NEW a \in Area(d)
  PROVE  SlotOf(d, a) \in Slots \union {Own}
<1>1. d.chip \in Chips /\ d.chip_begin + (a - d.as_begin) \in Nat
  BY DEF Decoder, Area
<1> QED BY <1>1 DEF SlotOf, Slot, Slots

-----------------------------------------------------------------------------
(* The step that activates a new decoder.                                  *)

\* The right halves that come alive lie in the decoders they come from, above
\* the new area.
LEMMA RedecodedFacts ==
  ASSUME TypeOK, NEW b \in Nat, NEW e \in Nat, b <= e, NEW r \in Redecoded(b, e)
  PROVE  \E d \in decoders :
           /\ covers(d, b, e) /\ r = RightHalf(d, e) /\ r \in Decoder
           /\ Area(r) \subseteq Area(d) /\ Area(r) \intersect (b .. e) = {}
           /\ r.activated = Activates(r)
           /\ \A a \in Area(r) : SlotOf(r, a) = SlotOf(d, a)
<1>1. PICK d \in decoders : covers(d, b, e) /\ r = RightHalf(d, e)
  BY DEF Redecoded
<1>2. d \in Decoder /\ d.as_begin <= d.as_end
  BY DEF TypeOK
<1>3. ~fully_covered_by(d, b, e) /\ d.as_begin <= e
  BY <1>1, <1>2 DEF covers, fully_covered_by, Decoder
<1>4. r \in Remains(d, b, e)
  BY <1>1, <1>3 DEF Remains, split
<1>5. r.activated = Activates(r)
  BY <1>1, <1>2, <1>3, RightHalfFacts
<1> QED BY <1>1, <1>2, <1>4, <1>5, RemainsFacts

\* The decoders whose cells are decoded in the step do not overlap.
LEMMA DecodesDisjoint ==
  ASSUME TypeOK, DecodersDisjoint, NEW n \in Decoder, Activates(n),
         NEW d1 \in Decodes(n), NEW d2 \in Decodes(n), NEW a, a \in Area(d1), a \in Area(d2)
  PROVE  d1 = d2
<1> DEFINE b == n.as_begin
           e == n.as_end
<1>1. b \in Nat /\ e \in Nat /\ b <= e /\ Area(n) = b .. e
  BY DEF Activates, Decoder, Area
<1>2. ASSUME NEW r \in Redecoded(b, e) PROVE a \in Area(r) => a \notin b .. e
  BY <1>1, RedecodedFacts
<1>3. CASE d1 = n \/ d2 = n
  BY <1>1, <1>2, <1>3 DEF Decodes
<1>4. CASE d1 # n /\ d2 # n
  <2>1. d1 \in Redecoded(b, e) /\ d2 \in Redecoded(b, e)
    BY <1>4 DEF Decodes
  <2>2. PICK x1 \in decoders : d1 = RightHalf(x1, e) /\ a \in Area(x1)
    BY <1>1, <2>1, RedecodedFacts
  <2>3. PICK x2 \in decoders : d2 = RightHalf(x2, e) /\ a \in Area(x2)
    BY <1>1, <2>1, RedecodedFacts
  <2> QED BY <2>2, <2>3 DEF DecodersDisjoint
<1> QED BY <1>3, <1>4

\* Where every cell points after the step.
LEMMA CellsAfter ==
  ASSUME TypeOK, DecodersDisjoint, NEW n \in Decoder, Activate(n), NEW a \in Space
  PROVE  /\ \A d \in Decodes(n) : a \in Area(d) => cells'[a] = SlotOf(d, a)
         /\ a \notin DecodedCells(n) =>
              IF \E d \in decoders : a \in Undecoded(d, n.as_begin, n.as_end)
              THEN cells'[a] = Own ELSE cells'[a] = cells[a]
<1>1. Activates(n)
  BY DEF Activate
<1>2. ASSUME NEW d \in Decodes(n), a \in Area(d) PROVE cells'[a] = SlotOf(d, a)
  <2>1. a \in DecodedCells(n)
    BY <1>2 DEF DecodedCells
  <2>2. cells'[a] = SlotOf(CHOOSE x \in Decodes(n) : a \in Area(x), a)
    BY <2>1 DEF Activate
  <2>3. (CHOOSE x \in Decodes(n) : a \in Area(x)) = d
    BY <1>1, <1>2, DecodesDisjoint
  <2> QED BY <2>2, <2>3
<1>3. ASSUME a \notin DecodedCells(n)
      PROVE  IF \E d \in decoders : a \in Undecoded(d, n.as_begin, n.as_end)
             THEN cells'[a] = Own ELSE cells'[a] = cells[a]
  BY <1>3 DEF Activate
<1> QED BY <1>2, <1>3

\* The new decoder once it is activated.
On(n) == [n EXCEPT !.activated = TRUE]

LEMMA OnFacts ==
  ASSUME NEW n \in Decoder
  PROVE  /\ On(n) \in Decoder /\ On(n).activated /\ On(n).chip = n.chip
         /\ On(n).as_begin = n.as_begin /\ On(n).as_end = n.as_end
         /\ On(n).chip_begin = n.chip_begin /\ Area(On(n)) = Area(n)
         /\ \A a : SlotOf(On(n), a) = SlotOf(n, a)
BY DEF On, Decoder, Area, SlotOf

\* The decoders after the step: the new one, and pieces of the old ones.
LEMMA DecodersAfter ==
  ASSUME TypeOK, NEW n \in Decoder, Activate(n)
  PROVE  /\ n.as_begin \in Nat /\ n.as_end \in Nat /\ n.as_begin <= n.as_end
         /\ Area(n) = n.as_begin .. n.as_end /\ Area(n) \subseteq Space
         /\ \A r : r \in decoders' <=>
              r = On(n) \/ \E d \in decoders : r \in Remains(d, n.as_begin, n.as_end)
         /\ \A d \in decoders : d \in Decoder /\ d.as_begin <= d.as_end
<1>1. Activates(n)
  BY DEF Activate
<1>2. Start + Size \in Int /\ Start \in Int
  BY AddressDecodersAssumption
<1>3. Area(n) \subseteq Space
  BY <1>1, <1>2 DEF Activates, Area, Space, Decoder
<1>4. decoders' = undecode_area(n.as_begin, n.as_end) \union {On(n)}
  BY Zenon DEF Activate, On
<1>5. \A r : r \in undecode_area(n.as_begin, n.as_end) <=>
                \E d \in decoders : r \in Remains(d, n.as_begin, n.as_end)
  BY Zenon DEF undecode_area
<1>6. \A r : r \in decoders' <=>
                r = On(n) \/ \E d \in decoders : r \in Remains(d, n.as_begin, n.as_end)
  BY <1>4, <1>5, Zenon
<1> QED BY <1>1, <1>3, <1>6 DEF Activates, Decoder, Area, TypeOK

LEMMA ActivateTypeOK ==
  ASSUME IInv, NEW n \in Decoder, Activate(n)
  PROVE  TypeOK' /\ AreaFits'
<1> DEFINE b == n.as_begin
           e == n.as_end
<1> USE DEF IInv
<1>0. /\ b \in Nat /\ e \in Nat /\ b <= e /\ Area(n) = b .. e /\ Area(n) \subseteq Space
      /\ \A r : r \in decoders' <=> r = On(n) \/ \E d \in decoders : r \in Remains(d, b, e)
      /\ \A d \in decoders : d \in Decoder /\ d.as_begin <= d.as_end
  BY DecodersAfter
<1>1. ASSUME NEW d \in decoders, NEW r \in Remains(d, b, e)
      PROVE  /\ r \in Decoder /\ r.as_begin <= r.as_end
             /\ r.activated => /\ Area(r) \subseteq Space
                               /\ r.as_end - r.as_begin <= ChipSize[r.chip] - r.chip_begin
  <2>1. /\ r \in Decoder /\ r.as_begin <= r.as_end /\ r.chip = d.chip
        /\ Area(r) \subseteq Area(d) /\ r.as_end <= d.as_end
        /\ r.chip_begin - d.chip_begin = r.as_begin - d.as_begin
    BY <1>0, RemainsFacts
  <2>2. CASE d.activated
    <3>1. Area(d) \subseteq Space /\ d.as_end - d.as_begin <= ChipSize[d.chip] - d.chip_begin
      BY <2>2 DEF TypeOK, AreaFits
    <3>2. ChipSize[d.chip] \in Nat
      BY <1>0, AddressDecodersAssumption DEF Decoder
    <3>3. r.as_end - r.as_begin <= ChipSize[r.chip] - r.chip_begin
      BY <1>0, <2>1, <3>1, <3>2, SMTT(30) DEF Decoder
    <3> QED BY <2>1, <3>1, <3>3
  <2>3. CASE r.activated /\ Activates(r)
    <3>1. Area(r) \subseteq Space
      BY <2>1, <2>3, AddressDecodersAssumption DEF Activates, Area, Space, Decoder
    <3> QED BY <2>1, <2>3, <3>1 DEF Activates
  <2> QED BY <1>0, <2>1, <2>2, <2>3, RemainsActivated
<1>2. /\ On(n) \in Decoder /\ On(n).as_begin <= On(n).as_end /\ Area(On(n)) \subseteq Space
      /\ On(n).as_end - On(n).as_begin <= ChipSize[On(n).chip] - On(n).chip_begin
  BY <1>0, OnFacts DEF Activate, Activates
<1>3. cells' \in [Space -> Slots \union {Own}]
  <2>1. cells' = [a \in Space |-> cells'[a]]
    BY DEF Activate
  <2>2. ASSUME NEW a \in Space PROVE cells'[a] \in Slots \union {Own}
    <3>1. CASE a \in DecodedCells(n)
      <4>1. PICK d \in Decodes(n) : a \in Area(d)
        BY <3>1 DEF DecodedCells
      <4>2. d \in Decoder
        BY <1>0, RedecodedFacts DEF Decodes
      <4> QED BY <4>1, <4>2, CellsAfter, SlotType
    <3>2. CASE a \notin DecodedCells(n)
      BY <3>2, CellsAfter DEF TypeOK
    <3> QED BY <3>1, <3>2
  <2> QED BY <2>1, <2>2
<1>4. operators' \subseteq [by : Brks \union {Hw}, at : Space, data : Slots \union {Own, Freed}]
  <2>1. \A o \in operators : o \in [by : Brks \union {Hw}, at : Space, data : Slots \union {Own, Freed}]
    BY DEF TypeOK
  <2>2. ASSUME NEW o \in operators
        PROVE  [o EXCEPT !.data = Freed]
                 \in [by : Brks \union {Hw}, at : Space, data : Slots \union {Own, Freed}]
    BY <2>1
  <2> QED BY <2>1, <2>2 DEF Activate
<1>5. \A r \in decoders' :
        /\ r \in Decoder /\ r.as_begin <= r.as_end
        /\ r.activated => /\ Area(r) \subseteq Space
                          /\ r.as_end - r.as_begin <= ChipSize[r.chip] - r.chip_begin
  BY <1>0, <1>1, <1>2
<1>6. AreaFits'
  BY <1>5 DEF AreaFits
<1>7. TypeOK'
  BY <1>3, <1>4, <1>5 DEF TypeOK, Area
<1> QED BY <1>6, <1>7

LEMMA ActivateDisjoint ==
  ASSUME IInv, NEW n \in Decoder, Activate(n)
  PROVE  DecodersDisjoint'
<1> DEFINE b == n.as_begin
           e == n.as_end
<1> USE DEF IInv
<1>0. /\ b \in Nat /\ e \in Nat /\ b <= e /\ Area(n) = b .. e
      /\ \A r : r \in decoders' <=> r = On(n) \/ \E d \in decoders : r \in Remains(d, b, e)
      /\ \A d \in decoders : d \in Decoder /\ d.as_begin <= d.as_end
  BY DecodersAfter
<1>1. ASSUME NEW d1 \in decoders, NEW r1 \in Remains(d1, b, e),
             NEW d2 \in decoders, NEW r2 \in Remains(d2, b, e), r1 # r2
      PROVE  Area(r1) \intersect Area(r2) = {}
  <2>1. CASE d1 = d2
    BY <1>0, <1>1, <2>1, RemainsDisjoint
  <2>2. CASE d1 # d2
    <3>1. Area(d1) \intersect Area(d2) = {}
      BY <2>2 DEF DecodersDisjoint
    <3>2. Area(r1) \subseteq Area(d1) /\ Area(r2) \subseteq Area(d2)
      BY <1>0, RemainsFacts
    <3> QED BY <3>1, <3>2
  <2> QED BY <2>1, <2>2
<1>2. ASSUME NEW d \in decoders, NEW r \in Remains(d, b, e)
      PROVE  Area(r) \intersect Area(On(n)) = {}
  BY <1>0, OnFacts, RemainsFacts
<1>3. ASSUME NEW d1 \in decoders', NEW d2 \in decoders', d1 # d2
      PROVE  Area(d1) \intersect Area(d2) = {}
  BY <1>0, <1>1, <1>2, <1>3
<1> QED BY <1>3 DEF DecodersDisjoint, Area

\* An address of a piece that is not a right half keeps its cell.
LEMMA PieceKeepsCells ==
  ASSUME IInv, NEW n \in Decoder, Activate(n), NEW d \in decoders, NEW a \in Space,
         NEW r \in Remains(d, n.as_begin, n.as_end), a \in Area(r),
         ~(covers(d, n.as_begin, n.as_end) /\ a \in Area(RightHalf(d, n.as_end)))
  PROVE  cells'[a] = cells[a]
<1> DEFINE b == n.as_begin
           e == n.as_end
<1> USE DEF IInv
<1>0. /\ b \in Nat /\ e \in Nat /\ b <= e /\ Area(n) = b .. e
      /\ \A x \in decoders : x \in Decoder /\ x.as_begin <= x.as_end
  BY DecodersAfter
<1>1. a \in Area(d) /\ a \notin b .. e
  BY <1>0, RemainsFacts
<1>2. ASSUME NEW x \in decoders PROVE a \in Area(x) => x = d
  BY <1>1 DEF DecodersDisjoint
<1>3. a \notin DecodedCells(n)
  <2>1. ASSUME NEW x \in Redecoded(b, e) PROVE a \notin Area(x)
    BY <1>0, <1>2, <2>1, RedecodedFacts
  <2> QED BY <1>0, <1>1, <2>1 DEF DecodedCells, Decodes
<1>4. ASSUME NEW x \in decoders PROVE a \notin Undecoded(x, b, e)
  BY <1>0, <1>1, <1>2, UndecodedFacts
<1> QED BY <1>3, <1>4, CellsAfter

LEMMA ActivateCellsFollow ==
  ASSUME IInv, NEW n \in Decoder, Activate(n)
  PROVE  CellsFollowDecoders'
<1> DEFINE b == n.as_begin
           e == n.as_end
<1> USE DEF IInv
<1>0. /\ b \in Nat /\ e \in Nat /\ b <= e /\ Area(n) = b .. e
      /\ \A r : r \in decoders' <=> r = On(n) \/ \E d \in decoders : r \in Remains(d, b, e)
      /\ \A x \in decoders : x \in Decoder /\ x.as_begin <= x.as_end
  BY DecodersAfter
<1>1. ASSUME NEW a \in Space, NEW r \in decoders', r.activated, a \in Area(r)
      PROVE  cells'[a] = SlotOf(r, a)
  <2>1. CASE r = On(n)
    BY <1>1, <2>1, OnFacts, CellsAfter DEF Decodes
  <2>2. ASSUME NEW d \in decoders, r \in Remains(d, b, e) PROVE cells'[a] = SlotOf(r, a)
    <3>1. CASE r = RightHalf(d, e) /\ covers(d, b, e)
      <4>1. r \in Decodes(n)
        BY <1>1, <3>1 DEF Decodes, Redecoded
      <4> QED BY <1>1, <4>1, CellsAfter
    <3>2. CASE ~(r = RightHalf(d, e) /\ covers(d, b, e))
      <4>1. d.activated
        BY <1>0, <1>1, <2>2, <3>2, RemainsActivated
      <4>2. a \in Area(d) /\ SlotOf(r, a) = SlotOf(d, a)
        BY <1>0, <1>1, <2>2, RemainsFacts
      <4>3. ASSUME covers(d, b, e) PROVE a \notin Area(RightHalf(d, e))
        <5>1. RightHalf(d, e) \in Remains(d, b, e)
          BY <1>0, <4>3 DEF covers, fully_covered_by, Remains, split, Decoder
        <5> QED BY <1>0, <1>1, <2>2, <3>2, <4>3, <5>1, RemainsDisjoint
      <4>4. cells'[a] = cells[a]
        BY <1>1, <2>2, <4>3, PieceKeepsCells
      <4>5. cells[a] = SlotOf(d, a)
        BY <4>1, <4>2 DEF CellsFollowDecoders
      <4> QED BY <4>2, <4>4, <4>5
    <3> QED BY <3>1, <3>2
  <2> QED BY <1>0, <2>1, <2>2
<1>2. ASSUME NEW a \in Space, \A r \in decoders' : r.activated => a \notin Area(r)
      PROVE  cells'[a] = Own
  <2>1. a \notin b .. e
    BY <1>0, <1>2, OnFacts
  <2>2. a \notin DecodedCells(n)
    <3>1. ASSUME NEW x \in Redecoded(b, e), x.activated PROVE x \in decoders'
      <4>1. PICK d \in decoders : covers(d, b, e) /\ x = RightHalf(d, e)
        BY DEF Redecoded
      <4>2. x \in Remains(d, b, e)
        BY <1>0, <4>1 DEF covers, fully_covered_by, Remains, split, Decoder
      <4> QED BY <1>0, <4>2
    <3> QED BY <1>0, <1>2, <2>1, <3>1 DEF DecodedCells, Decodes
  <2>3. CASE \E d \in decoders : a \in Undecoded(d, b, e)
    BY <2>2, <2>3, CellsAfter
  <2>4. CASE \A d \in decoders : a \notin Undecoded(d, b, e)
    <3>1. cells'[a] = cells[a]
      BY <2>2, <2>4, CellsAfter
    <3>2. ASSUME NEW d \in decoders, d.activated PROVE a \notin Area(d)
      <4>1. SUFFICES ASSUME a \in Area(d) PROVE FALSE
        OBVIOUS
      <4>2. PICK r \in Remains(d, b, e) : r.activated = d.activated /\ a \in Area(r)
        BY <1>0, <2>1, <2>4, <4>1, RemainsCover
      <4> QED BY <1>0, <1>2, <3>2, <4>2
    <3> QED BY <3>1, <3>2 DEF CellsFollowDecoders
  <2> QED BY <2>3, <2>4
<1> QED BY <1>1, <1>2 DEF CellsFollowDecoders, Area, SlotOf, Slot

\* Without sleeping decoders, only the addresses of the new area move.
LEMMA ActivateMoves ==
  ASSUME IInv, NoSleepers, NEW n \in Decoder, Activate(n), NEW a \in Space
  PROVE  cells'[a] = IF a \in Area(n) THEN SlotOf(n, a) ELSE cells[a]
<1> DEFINE b == n.as_begin
           e == n.as_end
<1> USE DEF IInv
<1>0. /\ b \in Nat /\ e \in Nat /\ b <= e /\ Area(n) = b .. e /\ Area(n) \subseteq Space
      /\ \A x \in decoders : x \in Decoder /\ x.as_begin <= x.as_end
  BY DecodersAfter
<1>1. CASE a \in Area(n)
  BY <1>1, CellsAfter DEF Decodes
<1>2. CASE a \notin Area(n) /\ a \in DecodedCells(n)
  <2>1. PICK r \in Redecoded(b, e) : r.activated /\ a \in Area(r)
    BY <1>2 DEF DecodedCells, Decodes
  <2>2. PICK d \in decoders :
          /\ covers(d, b, e) /\ r = RightHalf(d, e) /\ r \in Decoder
          /\ Area(r) \subseteq Area(d) /\ Area(r) \intersect (b .. e) = {}
          /\ r.activated = Activates(r)
          /\ \A x \in Area(r) : SlotOf(r, x) = SlotOf(d, x)
    <3> HIDE DEF b, e
    <3> QED BY <1>0, RedecodedFacts
  <2>3. d.as_begin <= e /\ d.as_end >= b /\ d.as_begin < b
    BY <1>0, <2>2 DEF covers, Decoder
  <2>4. d.activated
    <3>1. b \in Area(d) \intersect Space
      BY <1>0, <2>3 DEF Area, Decoder
    <3>2. /\ r.chip = d.chip /\ r.chip_begin = d.chip_begin + (e - d.as_begin) + 1
          /\ d \in Decoder
      BY <1>0, <2>2, <2>3, RightHalfFacts
    <3>3. r.chip_begin < ChipSize[r.chip]
      BY <2>1, <2>2 DEF Activates
    <3>4. d.chip_begin < ChipSize[d.chip]
      BY <1>0, <2>3, <3>2, <3>3, AddressDecodersAssumption DEF Decoder
    <3>5. ~(d.chip_begin >= ChipSize[d.chip])
      BY <3>2, <3>4, AddressDecodersAssumption DEF Decoder
    <3> QED BY <3>1, <3>5 DEF NoSleepers
  <2>5. cells[a] = SlotOf(d, a)
    BY <2>1, <2>2, <2>4 DEF CellsFollowDecoders
  <2>6. cells'[a] = SlotOf(r, a)
    BY <2>1, CellsAfter DEF Decodes
  <2> QED BY <1>2, <2>1, <2>2, <2>5, <2>6
<1>3. CASE a \notin DecodedCells(n) /\ \E d \in decoders : a \in Undecoded(d, b, e)
  <2>1. a \notin Area(n)
    BY <1>3 DEF DecodedCells, Decodes
  <2>2. PICK d \in decoders : a \in Undecoded(d, b, e)
    BY <1>3
  <2> DEFINE r == RightHalf(d, e)
  <2>3. a \in Area(d) /\ covers(d, b, e) /\ a \in Area(r)
    BY <1>0, <2>1, <2>2, UndecodedFacts
  <2>4. d.as_begin <= e /\ d.as_begin < b
    BY <1>0, <2>3 DEF covers, Decoder
  <2>5. ~Activates(r)
    BY <1>0, <1>3, <2>3, <2>4, RightHalfFacts DEF DecodedCells, Decodes, Redecoded
  <2>6. CASE d.activated
    <3>1. /\ Area(d) \subseteq Space /\ ChipSize[d.chip] \in Nat
          /\ d.as_end - d.as_begin <= ChipSize[d.chip] - d.chip_begin
      BY <1>0, <2>6, AddressDecodersAssumption DEF TypeOK, AreaFits, Decoder
    <3>2. d.as_end \in Space /\ a \in Int /\ e < a /\ a <= d.as_end /\ d.as_begin <= a
      BY <1>0, <2>3, <2>4, <3>1, RightHalfFacts DEF Area, Decoder
    <3>3. /\ r.chip = d.chip /\ r.as_begin = e + 1 /\ r.as_end = d.as_end
          /\ r.chip_begin = d.chip_begin + (e - d.as_begin) + 1
      BY <1>0, <2>4, RightHalfFacts
    <3>4. r.as_begin >= Start
      BY <1>0, <3>3, AddressDecodersAssumption DEF Space
    <3>5. r.chip_begin >= ChipSize[d.chip]
      BY <1>0, <2>4, <2>5, <3>1, <3>2, <3>3, <3>4, AddressDecodersAssumption, SMTT(30)
         DEF Activates, Space, Decoder
    <3>6. ~(d.chip_begin + (a - d.as_begin) < ChipSize[d.chip])
      <4>1. d.chip_begin \in Nat /\ d.as_begin \in Nat /\ e \in Nat
        BY <1>0 DEF Decoder
      <4>2. d.chip_begin + (e - d.as_begin) + 1 >= ChipSize[d.chip]
        BY <3>3, <3>5
      <4> HIDE DEF IInv, b, e, r
      <4> QED
        BY <3>1, <3>2, <4>1, <4>2
    <3>7. cells[a] = Own
      BY <2>3, <2>6, <3>6 DEF CellsFollowDecoders, SlotOf, Slot
    <3> QED BY <1>3, <2>1, <3>7, CellsAfter
  <2>7. CASE ~d.activated
    <3>1. \A x \in decoders : x.activated => a \notin Area(x)
      BY <2>3, <2>7 DEF DecodersDisjoint
    <3> QED BY <1>3, <2>1, <3>1, CellsAfter DEF CellsFollowDecoders
  <2> QED BY <2>6, <2>7
<1>4. CASE a \notin DecodedCells(n) /\ \A d \in decoders : a \notin Undecoded(d, b, e)
  BY <1>4, CellsAfter DEF DecodedCells, Decodes
<1> QED BY <1>1, <1>2, <1>3, <1>4

\* A list without sleeping decoders gets none: the right half of a split that is
\* not activated begins past the end of the chip.
LEMMA ActivateNoSleepers ==
  ASSUME IInv, NoSleepers, NEW n \in Decoder, Activate(n)
  PROVE  NoSleepers'
<1> DEFINE b == n.as_begin
           e == n.as_end
<1> USE DEF IInv
<1>0. /\ b \in Nat /\ e \in Nat /\ b <= e /\ Area(n) = b .. e /\ Area(n) \subseteq Space
      /\ \A r : r \in decoders' <=> r = On(n) \/ \E d \in decoders : r \in Remains(d, b, e)
      /\ \A x \in decoders : x \in Decoder /\ x.as_begin <= x.as_end
  BY DecodersAfter
<1>1. ASSUME NEW d \in decoders, NEW r \in Remains(d, b, e)
      PROVE  r.activated \/ Area(r) \intersect Space = {} \/ r.chip_begin >= ChipSize[r.chip]
  <2>1. /\ r \in Decoder /\ r.chip = d.chip /\ Area(r) \subseteq Area(d)
        /\ d.chip_begin <= r.chip_begin /\ d \in Decoder /\ ChipSize[d.chip] \in Nat
    BY <1>0, RemainsFacts, AddressDecodersAssumption DEF Decoder
  <2>2. CASE ~d.activated
    BY <2>1, <2>2 DEF NoSleepers, Decoder
  <2>3. CASE d.activated /\ ~(r = RightHalf(d, e) /\ covers(d, b, e))
    BY <1>0, <2>3, RemainsCases
  <2>4. CASE d.activated /\ r = RightHalf(d, e) /\ covers(d, b, e)
    <3>1. d.as_begin <= e /\ d.as_begin < b /\ e < d.as_end
      BY <1>0, <2>4 DEF covers, Decoder
    <3>2. /\ r.as_begin = e + 1 /\ r.as_end = d.as_end /\ r.activated = Activates(r)
          /\ r.chip_begin = d.chip_begin + (e - d.as_begin) + 1
      BY <1>0, <2>4, <3>1, RightHalfFacts
    <3>3. Area(d) \subseteq Space /\ d.as_end - d.as_begin <= ChipSize[d.chip] - d.chip_begin
      BY <2>4 DEF TypeOK, AreaFits
    <3>4. d.as_end \in Space /\ e \in Space
      BY <1>0, <2>1, <3>3 DEF Area, Decoder
    <3>5. CASE r.chip_begin < ChipSize[r.chip]
      <4>1. /\ r.as_begin <= r.as_end /\ r.as_begin >= Start /\ r.as_end < Start + Size
        BY <1>0, <2>1, <3>1, <3>2, <3>4, AddressDecodersAssumption DEF Space, Decoder
      <4>2. r.as_end - r.as_begin <= ChipSize[r.chip] - r.chip_begin
        BY <1>0, <2>1, <3>1, <3>2, <3>3, SMTT(30) DEF Decoder
      <4> QED BY <3>2, <3>5, <4>1, <4>2 DEF Activates
    <3> QED BY <2>1, <3>5 DEF Decoder
  <2> QED BY <2>2, <2>3, <2>4
<1>2. \A r \in decoders' :
        r.activated \/ Area(r) \intersect Space = {} \/ r.chip_begin >= ChipSize[r.chip]
  BY <1>0, <1>1, OnFacts
<1> QED BY <1>2 DEF NoSleepers, Area

-----------------------------------------------------------------------------
(* The invariant and the theorems.                                         *)

\* The startup decoders of a space that leave none asleep.
StartupFits ==
  \A d \in Startup :
    \/ Activates(d)
    \/ Area(d) \intersect Space = {}
    \/ d.chip_begin >= ChipSize[d.chip]

LEMMA InitIInv == Init => IInv /\ (StartupFits => NoSleepers)
<1>1. ASSUME NEW given \in SUBSET Startup, given = {} \/ (\E d \in Startup : given = {d}),
             MakeMemories(given)
      PROVE  IInv /\ (StartupFits => NoSleepers)
  <2> DEFINE made(d) == [d EXCEPT !.activated = Activates(d)]
  <2>1. ASSUME NEW d \in Startup
        PROVE  /\ d \in Decoder /\ made(d) \in Decoder /\ made(d).activated = Activates(d)
               /\ made(d).chip = d.chip /\ made(d).as_begin = d.as_begin
               /\ made(d).as_end = d.as_end /\ made(d).chip_begin = d.chip_begin
               /\ d.as_begin <= d.as_end
    <3>1. d \in Decoder /\ Activates(d) \in BOOLEAN /\ d.as_begin <= d.as_end
      BY AddressDecodersAssumption DEF Activates
    <3> QED BY <3>1 DEF Decoder
  <2>2. \A r : r \in decoders <=> \E d \in given : r = made(d)
    BY <1>1, Zenon DEF MakeMemories
  <2> HIDE DEF made
  <2>3. ASSUME NEW d \in Startup, Activates(d) PROVE Area(d) \subseteq Space
    BY <2>1, <2>3, AddressDecodersAssumption DEF Activates, Area, Space, Decoder
  <2>4. /\ decoders \subseteq Decoder
        /\ \A r \in decoders : r.as_begin <= r.as_end
        /\ \A r \in decoders : r.activated => Area(r) \subseteq Space
    BY <2>1, <2>2, <2>3 DEF Area
  <2>5. DecodersDisjoint
    BY <1>1, <2>2 DEF DecodersDisjoint
  <2>6. AreaFits
    <3>1. ASSUME NEW d \in given, made(d).activated
          PROVE  made(d).as_end - made(d).as_begin <= ChipSize[made(d).chip] - made(d).chip_begin
      BY <2>1, <3>1 DEF Activates
    <3> QED BY <2>2, <3>1 DEF AreaFits
  <2>7. ASSUME NEW a \in Space, NEW d \in given, Activates(d), a \in Area(d)
        PROVE  cells[a] = SlotOf(d, a)
    <3>1. (CHOOSE x \in given : Activates(x) /\ a \in Area(x)) = d
      BY <1>1, <2>7
    <3> QED BY <1>1, <2>7, <3>1 DEF MakeMemories
  <2>8. ASSUME NEW a \in Space, \A d \in given : Activates(d) => a \notin Area(d)
        PROVE  cells[a] = Own
    BY <1>1, <2>8 DEF MakeMemories
  <2>9. CellsFollowDecoders
    BY <2>1, <2>2, <2>7, <2>8 DEF CellsFollowDecoders, Area, SlotOf
  <2>10. cells \in [Space -> Slots \union {Own}]
    <3>1. ASSUME NEW a \in Space PROVE cells[a] \in Slots \union {Own}
      BY <2>1, <2>7, <2>8, SlotType
    <3> QED BY <1>1, <3>1 DEF MakeMemories
  <2>11. operators \subseteq [by : Brks \union {Hw}, at : Space, data : Slots \union {Own, Freed}]
    <3>1. \A a \in HwCells : a \in Space /\ cells[a] \in Slots \union {Own, Freed}
      BY <2>10, AddressDecodersAssumption
    <3>2. \A o \in operators : \E a \in HwCells : o = [by |-> Hw, at |-> a, data |-> cells[a]]
      BY <1>1, Zenon DEF MakeMemories
    <3> QED BY <3>1, <3>2
  <2>12. StartupFits => NoSleepers
    BY <2>1, <2>2 DEF StartupFits, NoSleepers, Area
  <2> QED BY <2>4, <2>5, <2>6, <2>9, <2>10, <2>11, <2>12 DEF IInv, TypeOK
<1> QED BY <1>1 DEF Init

\* Every step that changes decoders or cells activates a new decoder.
LEMMA StepCases ==
  ASSUME [Next]_vars
  PROVE  \/ \E n \in Decoder : Activate(n) /\ n.as_begin \in Space /\ n.as_end \in Space
         \/ /\ UNCHANGED <<decoders, cells>>
            /\ \/ operators' \subseteq operators
               \/ \E a \in Space, k \in Brks :
                    operators' = operators \union {[by |-> k, at |-> a, data |-> cells[a]]}
<1>1. \A x \in Space : x \in Nat
  BY AddressDecodersAssumption DEF Space
<1>2. ASSUME NEW c \in Chips, NEW b \in Space, NEW e \in Space, NEW cb \in Nat
      PROVE  /\ NewDecoder(c, b, e, cb) \in Decoder
             /\ NewDecoder(c, b, e, cb).as_begin = b /\ NewDecoder(c, b, e, cb).as_end = e
  BY <1>1 DEF NewDecoder, Decoder
<1>3. CASE \E c \in Chips, b \in Space, e \in Space :
             \E cb \in 0 .. ChipSize[c] - 1 : CreateAddressDecoder(c, b, e, cb)
  <2>1. PICK c \in Chips, b \in Space, e \in Space :
               \E cb \in 0 .. ChipSize[c] - 1 : CreateAddressDecoder(c, b, e, cb)
    BY <1>3
  <2>2. PICK cb \in 0 .. ChipSize[c] - 1 : CreateAddressDecoder(c, b, e, cb)
    BY <2>1
  <2>3. cb \in Nat /\ Activate(NewDecoder(c, b, e, cb))
    BY <2>2 DEF CreateAddressDecoder
  <2> DEFINE n == NewDecoder(c, b, e, cb)
  <2>4. n \in Decoder /\ n.as_begin = b /\ n.as_end = e
    BY <1>2, <2>3
  <2>5. Activate(n)
    BY <2>3
  <2> HIDE DEF n
  <2> QED BY <2>4, <2>5, Zenon
<1>4. CASE \E c \in AuxrChips : WriteAUXR(c)
  <2>1. Start \in Space /\ EramEnd \in Space /\ 0 \in Nat
    BY AddressDecodersAssumption DEF Space
  <2> QED BY <1>2, <1>4, <2>1, AddressDecodersAssumption DEF WriteAUXR
<1>5. CASE \E k \in Brks : del_brk(k)
  BY <1>5 DEF del_brk
<1>6. CASE \E k \in Brks, a \in Space : set_brk(a, k)
  BY <1>6 DEF set_brk
<1>7. CASE UNCHANGED vars
  BY <1>7 DEF vars
<1> QED BY <1>3, <1>4, <1>5, <1>6, <1>7 DEF Next

LEMMA StepIInv == IInv /\ [Next]_vars => IInv' /\ (NoSleepers => NoSleepers')
<1> SUFFICES ASSUME IInv, [Next]_vars PROVE IInv' /\ (NoSleepers => NoSleepers')
  OBVIOUS
<1>1. CASE \E n \in Decoder : Activate(n)
  BY <1>1, ActivateTypeOK, ActivateDisjoint, ActivateCellsFollow, ActivateNoSleepers DEF IInv
<1>2. ASSUME UNCHANGED <<decoders, cells>>,
             \/ operators' \subseteq operators
             \/ \E a \in Space, k \in Brks :
                  operators' = operators \union {[by |-> k, at |-> a, data |-> cells[a]]}
      PROVE  IInv' /\ (NoSleepers => NoSleepers')
  <2>1. operators' \subseteq [by : Brks \union {Hw}, at : Space, data : Slots \union {Own, Freed}]
    BY <1>2 DEF IInv, TypeOK
  <2> QED BY <1>2, <2>1
       DEF IInv, TypeOK, DecodersDisjoint, CellsFollowDecoders, AreaFits, NoSleepers
<1> QED BY <1>1, <1>2, StepCases

\* Without sleeping decoders a step is a step of AddressMap on the cells.
LEMMA StepMaps == IInv /\ NoSleepers /\ [Next]_vars => [Map!Next]_cells
<1> SUFFICES ASSUME IInv, NoSleepers, [Next]_vars PROVE Map!Next \/ UNCHANGED cells
  OBVIOUS
<1>1. ASSUME NEW n \in Decoder, Activate(n), n.as_begin \in Space, n.as_end \in Space
      PROVE  Map!Next
  <2>1. cells' = [a \in Space |-> cells'[a]]
    BY <1>1 DEF Activate
  <2>2. \A a \in Space : cells'[a] = IF a \in Area(n) THEN SlotOf(n, a) ELSE cells[a]
    BY <1>1, ActivateMoves
  <2>3. cells' = [a \in Space |-> IF a \in n.as_begin .. n.as_end
                    THEN Map!Cell(n.chip, n.chip_begin + (a - n.as_begin)) ELSE cells[a]]
    BY <2>1, <2>2 DEF Area, SlotOf, Slot, Map!Cell
  <2>4. n.chip \in Chips /\ n.chip_begin \in 0 .. ChipSize[n.chip] - 1
    BY <1>1, AddressDecodersAssumption DEF Activate, Activates, Decoder
  <2> QED BY <1>1, <2>3, <2>4 DEF Map!Next, Map!Map
<1> QED BY <1>1, StepCases

\* Every reachable state has the invariant.
LEMMA Invariance == Spec => []IInv
<1>1. Init => IInv
  BY InitIInv
<1>2. IInv /\ [Next]_vars => IInv'
  BY StepIInv
<1> QED BY <1>1, <1>2, PTL DEF Spec

\* Decoders, cells and operators keep their types, whatever areas are mapped
\* (cl_address_space::undecode_area, cl_address_decoder::activate).
THEOREM TypeCorrect == Spec => []TypeOK
<1>1. IInv => TypeOK
  BY DEF IInv
<1> QED BY <1>1, Invariance, PTL

\* No two decoders of a list ever claim the same address.
THEOREM AlwaysDisjoint == Spec => []DecodersDisjoint
<1>1. IInv => DecodersDisjoint
  BY DEF IInv
<1> QED BY <1>1, Invariance, PTL

\* The data pointers of the cells are always those the list of decoders gives.
THEOREM CellsAlwaysFollow == Spec => []CellsFollowDecoders
<1>1. IInv => CellsFollowDecoders
  BY DEF IInv
<1> QED BY <1>1, Invariance, PTL

\* While no inactive decoder can come to life, mapping an area moves no address
\* outside it.
THEOREM OnlyTheAreaMoves == Spec => OnlyItsAreaMoves
<1>1. IInv /\ [Next]_vars => [NoSleepers => Map!Next]_cells
  BY StepMaps
<1> QED BY <1>1, Invariance, PTL DEF Spec, OnlyItsAreaMoves

\* In a space whose startup decoder is activated, or can never be, the list of
\* decoders implements the address map: every space of the CC2530 but sram.
THEOREM AddressMapImplemented == StartupFits => (Spec => ImplementsAddressMap)
<1>1. StartupFits /\ Init => IInv /\ NoSleepers
  BY InitIInv
<1>2. IInv /\ NoSleepers /\ [Next]_vars => IInv' /\ NoSleepers'
  BY StepIInv
<1>3. IInv => Map!Init
  <2>1. Slots \union {Own} = Map!Routes
    BY DEF Slots, Map!Routes
  <2> QED BY <2>1 DEF IInv, TypeOK, Map!Init
<1>4. IInv /\ NoSleepers /\ [Next]_vars => [Map!Next]_cells
  BY StepMaps
<1> SUFFICES ASSUME StartupFits PROVE Spec => ImplementsAddressMap
  OBVIOUS
<1>5. Init => IInv /\ NoSleepers
  BY <1>1
<1> QED BY <1>2, <1>3, <1>4, <1>5, PTL DEF Spec, ImplementsAddressMap, Map!Spec
=============================================================================
