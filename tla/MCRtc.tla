------------------------------- MODULE MCRtc -------------------------------
(* Small instance of Rtc: two minutes, calls around a change of the tens    *)
(* digit and at the end of a minute.                                        *)
EXTENDS Rtc
=============================================================================
