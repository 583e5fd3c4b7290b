------------------------------ MODULE MCChatSystem ------------------------------
(* A small instance of ChatSystem for TLC, and of the messages it encodes  *)
(* and decodes: with the lengths of the code, and an unsigned int that is  *)
(* shorter than its 32 bits, but wide enough for every number of four      *)
(* characters.                                                             *)
EXTENDS ChatSystem

MCWord == 2 ^ 16
MCLineLengths == 0 .. 300
MCArriving == {"2", "7", " ", "-", "x"}

================================================================================
