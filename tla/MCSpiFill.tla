----------------------------- MODULE MCSpiFill -----------------------------
(* Instances of SpiFill: two tags, three frames of two units.               *)
EXTENDS SpiFill
CONSTANTS t1, t2

Two == <<t1, t2>>
\* Five slices in three frames: two rounds, the tail beside a small task.
Five == [t \in Tags |-> 5]
\* t1's four slices are one more than a round can take; a round may also end its
\* picture and have a frame left for t2's, which takes two.
Mixed == [t \in Tags |-> IF t = t1 THEN 4 ELSE 5]
Tail1 == [t \in Tags |-> 1]
PictureOrLed == {{"pic"}, {"led", "pic"}}
PictureOrNfc == {{"pic"}, {"nfc", "pic"}}
=============================================================================
