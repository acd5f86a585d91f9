--------------------------- MODULE MCBackpressure ---------------------------
(* Two clients that send files to each other and a third one that does     *)
(* not, or two that send to the third.                                     *)
EXTENDS Backpressure, TLC

CONSTANTS a, b, c

EachOther == a :> b @@ b :> a @@ c :> c
BothToC == a :> c @@ b :> c @@ c :> c
ThreeEach == a :> 3 @@ b :> 3 @@ c :> 0
OneEach == a :> 1 @@ b :> 1 @@ c :> 0
SmallToC == a :> 0 @@ b :> 0 @@ c :> 1
NoSmall == a :> 0 @@ b :> 0 @@ c :> 0
=============================================================================
