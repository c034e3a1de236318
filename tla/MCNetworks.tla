----------------------------- MODULE MCNetworks -----------------------------
(***************************************************************************)
(* The instance of Networks that TLC checks: an access point that hides    *)
(* its name in beacons and gives it in probe responses, another one whose  *)
(* name is a prefix of it, and a cell.                                     *)
(***************************************************************************)
EXTENDS Networks

CONSTANTS b1, b2, b3

Short == <<1>>
Long == <<1, 2>>
Names == {Short, Long}
Frame(b, cap, els) == [bssid |-> b, cap |-> cap, whole |-> TRUE, elements |-> els]
Ssid(s) == [id |-> "SSID", ssid |-> s]
Ds == [id |-> "DS", channel |-> 1]
Rates(r) == [id |-> "RATES", rates |-> r]
Air == {Frame(b1, "BSS", <<Ssid(<<>>), Rates({"CCK", "OFDM"}), Ds>>),
        Frame(b1, "BSS", <<Ssid(Long), Rates({"CCK", "OFDM"}), Ds>>),
        Frame(b2, "BSS", <<Ssid(Short), Rates({"basic OFDM"})>>),
        Frame(b3, "IBSS", <<Ssid(Long), Rates({"CCK"}), Ds>>),
        [Frame(b3, "BSS", <<Ssid(Short)>>) EXCEPT !.whole = FALSE]}
=============================================================================
