-------------------------------- MODULE MCRgb --------------------------------
(* A small instance of Rgb: two of the components, two levels of each. *)
EXTENDS Rgb

MCComps == {"GREEN", "BLUE"}
MCLevels == {0, 255}
MCBlue == [c \in Comps |-> IF c = "BLUE" THEN 255 ELSE 0]
MCDark == [c \in Comps |-> 0]
=============================================================================
