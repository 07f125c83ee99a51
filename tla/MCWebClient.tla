---------------------------- MODULE MCWebClient ----------------------------
(***************************************************************************)
(* Instances of WebClient for TLC.                                         *)
(***************************************************************************)
EXTENDS WebClient, TLC

\* More parts than slots: workers wait for the semaphore.
ASSUME Contended == N > Limit
=============================================================================
