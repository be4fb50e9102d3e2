------------------------------ MODULE MCThreads ------------------------------
(***************************************************************************)
(* Small stores for SessionThreads: no items, one session or two, and a    *)
(* few devices that are served at the same time.                           *)
(***************************************************************************)
EXTENDS SessionThreads, TLC

TwoSessions == 1 .. 2

NoItems == {}
NoBarcodes == {}
NoItemOf == [b \in NoBarcodes |-> NoItem]
NoTypes == [b \in NoBarcodes |-> "EAN13"]
NoPlus == [b \in NoBarcodes |-> b]
NoPrices == [b \in NoBarcodes |-> 0]
NoPromotions == [i \in NoItems |-> [type |-> "none", discount |-> 0]]

DeviceSymmetry == Permutations(Devices) \cup Permutations(Cards)
==============================================================================
