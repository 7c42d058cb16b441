-------------------------- MODULE MCAnnouncements --------------------------
(***************************************************************************)
(* A small instance of Announcements for TLC.                              *)
(***************************************************************************)
EXTENDS Announcements

CONSTANTS s1, s2

OneOrAll == {{s1}, {s1, s2}}
=============================================================================
