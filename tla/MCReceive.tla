------------------------------ MODULE MCReceive ------------------------------
(***************************************************************************)
(* Frames for the runs of Receive.                                         *)
(***************************************************************************)
EXTENDS Receive, TLC

CONSTANTS ap, sta

Data(n) == [kind |-> "data", n |-> n, wep |-> FALSE, eapol |-> FALSE, room |-> 3]
Wep(n) == [Data(n) EXCEPT !.wep = TRUE]
Kind(k) == [Data(1) EXCEPT !.kind = k]
Eapol == [Data(1) EXCEPT !.eapol = TRUE]
Big == {[Wep(2) EXCEPT !.room = r] : r \in {0, 1}}

\* The station goes through three MSDUs and comes back to its first number, the
\* other sends one of any kind, and each of its fragments twice.
Msdus == ap :> 2 @@ sta :> 0
Copies == ap :> 1 @@ sta :> 2
Shapes == ap :> {Data(2)} @@ sta :> {Wep(3), Kind("mgmt"), Kind("other")} \cup Big

\* Fragments without encryption while a key is set, and TKIP MSDUs.
Twice == [s \in Sender |-> 2]
OneMsdu == [s \in Sender |-> 0]
DropShapes == ap :> {Data(1), Data(2), Eapol} @@ sta :> {Wep(2)}
=============================================================================
