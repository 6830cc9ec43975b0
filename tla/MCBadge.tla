------------------------------ MODULE MCBadge -------------------------------
(* Both builds of the badge.                                                 *)
EXTENDS Badge

=============================================================================
