---------------------------- MODULE MCApiProcess ----------------------------
(***************************************************************************)
(* Instances of ApiProcess for TLC.                                        *)
(***************************************************************************)
EXTENDS ApiProcess, TLC

\* Each setting at a bound, beyond it, and not set or not a number.
EnvBounds ==
    [port |-> {Unset, 0, 65536},
     presign_ttl_seconds |-> {3600, 3601},
     max_single_part_bytes |-> {Unset, NotANumber, 0},
     max_multipart_bytes |-> {1}]
=============================================================================
