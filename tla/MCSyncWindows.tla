---------------------------- MODULE MCSyncWindows ---------------------------
(* An instance of SyncWindows for TLC: three scrobbles, of which the provider *)
(* lists the second late, on pages of two.                                    *)
EXTENDS SyncWindows, TLC

CONSTANTS s1, s2, s3

ThePlayed == (s1 :> 1) @@ (s2 :> 2) @@ (s3 :> 3)
=============================================================================
