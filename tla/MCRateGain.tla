----------------------------- MODULE MCRateGain -----------------------------
(***************************************************************************)
(* The instance of RateGain that TLC checks: periods without traffic,      *)
(* with few losses, with so many that every step goes down, and with more  *)
(* frames than a u8 counts.                                                *)
(***************************************************************************)
EXTENDS RateGain

Periods == {<<0, 0>>, <<20, 2>>, <<10, 40>>, <<257, 2>>}
=============================================================================
