---------------------------- MODULE MCOneSided ------------------------------
(***************************************************************************)
(* Small instances of the one-sided data path.                             *)
(***************************************************************************)
EXTENDS OneSided, TLC

CONSTANTS ka, kb, kc, kd, v0, va, vb, vLong, w, r

MCKeys   == {ka, kb, kc, kd}
MCValues == {v0, va, vb, vLong}
MCLongKeys == {}
MCLongValues == {vLong}

\* ka and kb collide at the last slot, and kc at the first, where their chain
\* goes on.  kd is at home before them.
MCHash == ka :> NumSlots - 1 @@ kb :> NumSlots - 1 @@ kc :> 0 @@ kd :> NumSlots \div 2

Used(k)   == [occupied |-> Valid, access_count |-> 0, key |-> k, value |-> v0]
Erased(k) == [Used(k) EXCEPT !.occupied = Tombstone]

Last == NumSlots - 1

\* Tables the server's own calls leave.  Of four slots: ka was set; ka was set after
\* kb, and kb was erased; kc came in between, and kd was erased in the slot that
\* was left.  Of two: one is free, none is, none is but one was erased.
OneKey       == Last :> Used(ka)
BehindErased == Last :> Erased(kb) @@ 0 :> Used(ka)
Around       == Last :> Erased(kb) @@ 0 :> Used(kc) @@ 1 :> Used(ka) @@ 2 :> Erased(kd)
OneFree      == 0 :> Used(kc)
TwoUsed      == 1 :> Used(ka) @@ 0 :> Used(kc)
TwoErased    == 1 :> Erased(kb) @@ 0 :> Used(ka)

Table(t) == t @@ EmptyTable

MCPreloaded == {Table(OneKey), Table(BehindErased), Table(Around)}
MCCrowded   == {Table(OneFree), Table(TwoUsed), Table(TwoErased)}

WriterAndReader == [c \in Clients |-> IF c = w THEN {"set"} ELSE {"get_meta"}]
GetAndSet       == [c \in Clients |-> {"get", "set"}]
=============================================================================
