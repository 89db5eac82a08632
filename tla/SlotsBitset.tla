----------------------------- MODULE SlotsBitset -----------------------------
(* common::SlotsBitset: a set of cluster slots, written as a text such as      *)
(* "1,2-10,47" and read back.  A text is a sequence of segments; a segment is  *)
(* the sequence of the numbers split() finds between dashes, NaN where         *)
(* string2ll() refuses.                                                        *)
EXTENDS Integers, Sequences, SequencesExt

CONSTANTS SLOTS_NUM,
          SlotTexts     \* texts offered to loadFromString()

NaN == -1
SlotIds == 0 .. SLOTS_NUM - 1

VARIABLE bitset_

SlotsInit == bitset_ = {}

(***************************************************************************)
(* toString() and toRanges(): one pass with the start of the current run     *)
(***************************************************************************)
NoStart == -1
EndRun(text, n) == [text EXCEPT ![Len(text)] = Append(@, n)]

ToStringStep(s, i) ==
    IF i \in bitset_
    THEN LET start == IF s.start = NoStart THEN i ELSE s.start
             text == IF s.start = NoStart THEN Append(s.text, <<i>>) ELSE s.text
         IN  [start |-> start, text |-> IF i = SLOTS_NUM - 1 /\ start # i THEN EndRun(text, i) ELSE text]
    ELSE [start |-> NoStart, text |-> IF s.start \notin {NoStart, i - 1} THEN EndRun(s.text, i - 1) ELSE s.text]

\* A range whose end is not yet known has end 0.
ToRangesStep(s, i) ==
    LET ended(ranges, n) == [ranges EXCEPT ![Len(ranges)][2] = n] IN
    IF i \in bitset_
    THEN LET ranges == IF s.start = NoStart THEN Append(s.text, <<i, 0>>) ELSE s.text
         IN  [start |-> IF s.start = NoStart THEN i ELSE s.start, text |-> IF i = SLOTS_NUM - 1 THEN ended(ranges, i) ELSE ranges]
    ELSE [start |-> NoStart, text |-> IF s.start # NoStart THEN ended(s.text, i - 1) ELSE s.text]

Pass(Step(_, _)) == FoldLeft(Step, [start |-> NoStart, text |-> <<>>], [i \in 1 .. SLOTS_NUM |-> i - 1]).text
SlotsText == Pass(ToStringStep)
SlotsRanges == Pass(ToRangesStep)

(***************************************************************************)
(* loadFromString()                                                         *)
(***************************************************************************)
\* The slots of a segment, and whether it is one.
SegmentSlots(seg) == seg[1] .. seg[Len(seg)]
GoodSegment(seg) ==
    /\ Len(seg) \in 1 .. 2 /\ \A i \in DOMAIN seg : seg[i] \in SlotIds
    /\ seg[1] <= seg[Len(seg)]

\* A slot named twice refuses the text; what is refused changes nothing.
Loadable(text) ==
    /\ text # <<>> /\ \A i \in DOMAIN text : GoodSegment(text[i])
    /\ \A i, j \in DOMAIN text : i # j => SegmentSlots(text[i]) \cap SegmentSlots(text[j]) = {}
Loaded(text) == UNION {SegmentSlots(text[i]) : i \in DOMAIN text}
LoadFromString(text) == bitset_' = IF Loadable(text) THEN Loaded(text) ELSE bitset_

Fill == bitset_' = SlotIds
AddSlot(n) == n \in SlotIds \ bitset_ /\ bitset_' = bitset_ \cup {n}
\* operator&=, operator|= and operator~ with the bitset of a text.
Combine(other) == bitset_' \in {bitset_ \cap other, bitset_ \cup other, SlotIds \ bitset_}

SlotsNext ==
    \/ Fill
    \/ \E n \in SlotIds : AddSlot(n) \/ Combine({n})
    \/ \E text \in SlotTexts \cup {SlotsText} : LoadFromString(text)

(***************************************************************************)
(* Properties                                                               *)
(***************************************************************************)
\* toString() writes what loadFromString() reads back as the same slots, also
\* for runs that touch the first or the last slot; only the empty set, whose
\* text is empty, is refused.
TextIsReadBack ==
    IF bitset_ = {} THEN SlotsText = <<>> ELSE Loadable(SlotsText) /\ Loaded(SlotsText) = bitset_

\* toRanges() gives the runs of the set: their slots are the set's, and two
\* runs do not touch.
RangesAreTheRuns ==
    /\ UNION {SegmentSlots(SlotsRanges[i]) : i \in DOMAIN SlotsRanges} = bitset_
    /\ \A i \in 1 .. Len(SlotsRanges) - 1 : SlotsRanges[i][2] + 1 < SlotsRanges[i + 1][1]
=============================================================================
