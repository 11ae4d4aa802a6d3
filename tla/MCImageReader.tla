---------------------------- MODULE MCImageReader ----------------------------
(* An instance of ImageReader for TLC.                                     *)
EXTENDS ImageReader

MCFd == 0 .. 3
MCByte == {0, 1}
=============================================================================
