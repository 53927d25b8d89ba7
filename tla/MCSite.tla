------------------------------- MODULE MCSite -------------------------------
(* Site, checked as it is. *)
EXTENDS Site
=============================================================================
