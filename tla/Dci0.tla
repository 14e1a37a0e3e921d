-------------------------------- MODULE Dci0 --------------------------------
(***************************************************************************)
(* The uplink grant of the physical layer, ulp/src/dci0.c: a range of      *)
(* resource blocks is coded as one number, the RIV, which is put into the  *)
(* 32-bit grant between other fields.                                      *)
(*                                                                         *)
(* The encoder and the decoder go over the fields in the same order with   *)
(* the same widths, so a grant is modelled as the record of its fields,    *)
(* each cut to its width by the mask of ADD_BITS_VAL_TO_INT32.             *)
(***************************************************************************)
EXTENDS Integers

Bandwidths == {6, 15, 25, 50, 75, 100}  \* N_RB_1P4M .. N_RB_20M
MaxBandwidth == 100

UInt8(value) == value % 256

\* the ranges of resource blocks of a bandwidth
IsRange(bw, start, num) == start \in 0 .. bw - 1 /\ num \in 1 .. bw - start

-----------------------------------------------------------------------------
(***************************************************************************)
(* The RIV.                                                                *)
(***************************************************************************)
calcRivByRb(bw, start, num) ==
    IF num - 1 <= bw \div 2
    THEN (num - 1) * bw + start
    ELSE (bw - num + 1) * bw + (bw - 1 - start)

\* the two ways to read a RIV; the results are unsigned char
Read(bw, riv) == [rbStart |-> UInt8(riv % bw), numOfRb |-> UInt8((riv \div bw) + 1)]

\* tmp - riv is unsigned: a RIV taken out of a grant never exceeds tmp
calcRbByRiv(bw, riv) ==
    LET first == Read(bw, riv)
        tmp == bw * bw + bw - 1
    IN  IF first.rbStart + first.numOfRb >= bw THEN Read(bw, tmp - riv) ELSE first

-----------------------------------------------------------------------------
(***************************************************************************)
(* The grant.                                                              *)
(***************************************************************************)
\* one more than the mask of the RIV, which is shorter by the hopping bits when
\* frequency hopping is on, and one more than the mask of those
RivLimit(bw, hopping) ==
    CASE bw = 100 -> IF hopping THEN 2048 ELSE 8192
      [] bw = 75 -> IF hopping THEN 1024 ELSE 4096
      [] bw = 50 -> IF hopping THEN 512 ELSE 2048
      [] bw = 25 -> IF hopping THEN 256 ELSE 512
      [] bw = 15 -> IF hopping THEN 64 ELSE 128
      [] bw = 6 -> IF hopping THEN 16 ELSE 32
HoppingLimit(bw) == IF bw \in {50, 75, 100} THEN 4 ELSE 2

\* "others" are the fields from mcs on, whose widths do not depend on the bandwidth
encodeDci0(bw, msg) ==
    [freqEnabledFlag |-> msg.freqEnabledFlag,
     freqHoppingBits |-> IF msg.freqEnabledFlag
                         THEN msg.freqHoppingBits % HoppingLimit(bw) ELSE 0,
     riv |-> calcRivByRb(bw, msg.rbStart, msg.numOfRb)
                 % RivLimit(bw, msg.freqEnabledFlag),
     others |-> msg.others]

\* a grant: the format flag is 0, decodeDci0 does nothing with another number.  The
\* message's freqHoppingBits, hoppingBits before, is left alone without hopping.
decodeDci0(bw, dci, hoppingBits) ==
    LET range == calcRbByRiv(bw, dci.riv)
    IN  [freqEnabledFlag |-> dci.freqEnabledFlag,
         freqHoppingBits |-> IF dci.freqEnabledFlag
                             THEN dci.freqHoppingBits ELSE hoppingBits,
         rbStart |-> range.rbStart,
         numOfRb |-> range.numOfRb,
         others |-> dci.others]
=============================================================================
