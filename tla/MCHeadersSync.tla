--------------------------- MODULE MCHeadersSync ---------------------------
(***************************************************************************)
(* A chain of seven blocks and a shorter one that leaves it after block 1. *)
(***************************************************************************)
EXTENDS HeadersSync, TLC

\* 65536 + ((195766423245049 f + 971821376 f^2 + 5127 f^3 + 2^47) >> 48) of the
\* fractions f of schedule errors that are multiples of 150 s.
FactorTable ==
  0 :> 65536 @@ 1365 :> 66492 @@ 2730 :> 67461 @@ 4096 :> 68444 @@
  5461 :> 69440 @@ 6826 :> 70450 @@ 8192 :> 71475 @@ 9557 :> 72514 @@
  10922 :> 73568 @@ 12288 :> 74637 @@ 13653 :> 75722 @@ 15018 :> 76821 @@
  16384 :> 77938 @@ 17749 :> 79070 @@ 19114 :> 80218 @@ 20480 :> 81384 @@
  21845 :> 82567 @@ 23210 :> 83766 @@ 24576 :> 84984 @@ 25941 :> 86219 @@
  27306 :> 87473 @@ 28672 :> 88745 @@ 30037 :> 90035 @@ 31402 :> 91345 @@
  32768 :> 92674 @@ 34133 :> 94022 @@ 35498 :> 95390 @@ 36864 :> 96779 @@
  38229 :> 98188 @@ 39594 :> 99617 @@ 40960 :> 101068 @@ 42325 :> 102539 @@
  43690 :> 104032 @@ 45056 :> 105547 @@ 46421 :> 107084 @@ 47786 :> 108643 @@
  49152 :> 110225 @@ 50517 :> 111830 @@ 51882 :> 113457 @@ 53248 :> 115109 @@
  54613 :> 116784 @@ 55978 :> 118483 @@ 57344 :> 120207 @@ 58709 :> 121954 @@
  60074 :> 123727 @@ 61440 :> 125525 @@ 62805 :> 127348 @@ 64170 :> 129196

Main == 1..7
Fork == 12..14

MCBlocks == Main \cup Fork

MCParent == [b \in MCBlocks |-> IF b = 12 THEN 1 ELSE b - 1]

MCStarts == {5, 14}

At(b) == b % 10

\* On schedule, but for the blocks from height 3 on that may be late by a long gap and for a
\* block at height `ahead` stamped two hours into the future, after which one lags by the
\* median time past.
Stamped(late, ahead) ==
  [b \in MCBlocks |-> 300 * At(b) + (IF At(b) >= 3 THEN late ELSE 0)
                      + (IF At(b) = ahead THEN 7200 ELSE 0)
                      - (IF At(b) = ahead + 1 THEN 1500 ELSE 0)]

MCProfiles == {Stamped(0, 4), Stamped(3600, 3)}

\* A salt that tells the two chains apart, and one that tells nothing apart.
MCSalts == {[b \in MCBlocks |-> IF b \in Main THEN 0 ELSE 1], [b \in MCBlocks |-> 0]}
=============================================================================
