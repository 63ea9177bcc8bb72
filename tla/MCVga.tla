-------------------------------- MODULE MCVga --------------------------------
(* Characters for model checking Vga.                                      *)
EXTENDS Vga

AsciiChars == {"a", "b", " "}
LatinChars == {"0x91"}
=============================================================================
