---------------------------- MODULE MCRdmaStore -----------------------------
(***************************************************************************)
(* RdmaStore on a table smaller than the set of keys, with every kind of   *)
(* collision: two keys at the last slot (so that probing wraps around), one*)
(* at the first, one in the middle, and a key and a value that are too     *)
(* long.                                                                   *)
(***************************************************************************)
EXTENDS RdmaStore, Bitwise, TLC

CONSTANTS ka, kb, kc, kd, kLong, va, vb, vLong

MCKeys       == {ka, kb, kc, kd, kLong}
MCValues     == {va, vb, vLong}
MCLongKeys   == {kLong}
MCLongValues == {vLong}
MCHash == ka :> NumSlots - 1 @@ kb :> NumSlots - 1 @@ kc :> 0 @@ kd :> 1 @@ kLong :> 0

\* The two storable values are interchangeable: nothing compares them in order.
MCSymmetry == Permutations({va, vb})

\* The code masks where the model wraps around: the same position for every
\* power of two, every hash and every probe below it.
ASSUME MaskIsProbe ==
  \A e \in 0 .. 4 : LET n == 2 ^ e IN
    \A h, i \in 0 .. n - 1 : (h + i) & (n - 1) = IF h + i < n THEN h + i ELSE h + i - n
=============================================================================
