---------------------------- MODULE MCMarioAnims ----------------------------
(* Three vanilla animations, two of which share their data (as many of      *)
(* Mario's do), the star dance and an empty slot behind it.  The addresses  *)
(* and sizes of the segments are those of the source.                       *)
EXTENDS MarioAnims

MCCount == 3
MCVanilla == [i \in 0 .. 2 |->
    IF i = 1 THEN [addr |-> 5160960, size |-> 16384]
             ELSE [addr |-> 5177344, size |-> 1000]]
MCTwoCount == 2
MCTwo == [i \in 0 .. 1 |->
    IF i = 0 THEN [addr |-> 79068, size |-> 10544]    \* 0x134DC, 0x2930
             ELSE [addr |-> 79068, size |-> 0]]
MCStart == 3
MCReturn == 2

MCPoolStart == 376832       \* 0x5C000
MCPoolEnd   == 1839104      \* 0x1C1000
MCCustomRam == 3604480      \* 0x370000
MCCustomRom == 8177344      \* 0x7CC6C0
MCCustomSize == 24576       \* 0x6000

\* DanceLength is that of the handler: a frame past 40 exists, where the
\* peace sign is made, before the dialog opens.
MCDanceLength == 80
=============================================================================
