--------------------------------- MODULE MCColour ---------------------------------
(* The curves and limits of ld_config.h for TLC: gamma 2 is exact in integers, and
   steep enough near black to be flat there, as powf's curves are. *)
EXTENDS Colour

MCGamma      == [type \in Types |-> [c \in Primaries |-> [x \in U8 |-> (x * x + 127) \div 255]]]
MCMaxLevel   == [type \in Types |-> IF type = "WS2812B" THEN Grb(50, 50, 50)
                                                        ELSE Grb(200, 210, 255)]
MCTestLevels == {-1, 0, 128, 255, 300}

=============================================================================
