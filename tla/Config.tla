------------------------------- MODULE Config -------------------------------
(***************************************************************************)
(* The constants of kryptokrona-core that say how the daemon is talked to. *)
(* No code of the repository reads them: they are what the runs compare    *)
(* the clients with.                                                       *)
(***************************************************************************)
EXTENDS Naturals

\* Milliseconds.
REQUEST_TIMEOUT == 10 * 1000

\* 100000000000 is out of TLC's integers; it lies between 2^36 and 2^37.
BitsOfMaxOutputSizeClient == 37

=============================================================================
