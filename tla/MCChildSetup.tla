---------------------------- MODULE MCChildSetup -----------------------------
(***************************************************************************)
(* ChildSetup with six descriptor numbers, of which the soft limit and   *)
(* the bound of the fallback cut off some, the system call numbers of the  *)
(* native table, and signals at the edges of the bits a status is made of. *)
(***************************************************************************)
EXTENDS ChildSetup

MCFd == 0 .. 5
MCLimit == {2, 4, 5, 6, 8}
MCNumber == 0 .. 460
MCSignal == {1, 9, 64}
=============================================================================
