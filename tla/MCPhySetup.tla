----------------------------- MODULE MCPhySetup -----------------------------
(***************************************************************************)
(* Every PHY and every setting, two set-ups with the cable pulled in any   *)
(* of them, and a wait that ends after two looks at the status.            *)
(***************************************************************************)
EXTENDS PhySetup
MCChips    == {"TI", "Marvell", "RTL8211E", "RTL8211F", "absent"}
MCSettings == Speeds \cup {Autodetect}
=============================================================================
