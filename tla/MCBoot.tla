------------------------------- MODULE MCBoot -------------------------------
(* Firmware for model checking.                                            *)
EXTENDS Boot

\* Interrupts and translation on, as PCs start, and everything off.
FirmwareConfigs == {{"int1", "int2", "sys", "xlat"}, {"off1", "sys"}}
=============================================================================
