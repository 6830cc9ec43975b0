----------------------------- MODULE MCLegacyRx -----------------------------
(* Small instances of LegacyRx: a file of five chunks and one of nine.       *)
EXTENDS LegacyRx, TLC

CONSTANTS short, long

MCUploads == {short, long}
MCLength == short :> 5 @@ long :> 9

=============================================================================
