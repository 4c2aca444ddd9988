----------------------------- MODULE MCLivePath -----------------------------
(***************************************************************************)
(* LivePath for TLC: one slot, and one socket the page connects on again   *)
(* and again.  With one slot the page is refused until its last endpoint   *)
(* has ended, so a second socket would only rename the first.              *)
(***************************************************************************)
EXTENDS LivePath, TLC
CONSTANTS s1, events
MCSockets == {s1}
MCChannels == {events}
=============================================================================
