----------------------------- MODULE MCUeReport -----------------------------
(***************************************************************************)
(* Two RNTIs, two IMSIs and one M-TMSI; datagrams of two entries.          *)
(***************************************************************************)
EXTENDS UeReport

CONSTANTS r1, r2, imsi1, imsi2, mTmsi1
TwoRntis == {r1, r2}
TwoImsis == {imsi1, imsi2}
OneMTmsi == {mTmsi1}
=============================================================================
