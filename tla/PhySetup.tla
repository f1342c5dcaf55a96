------------------------------ MODULE PhySetup ------------------------------
(***************************************************************************)
(* Speed set-up of the Ethernet link, ArtyZ720_Eth/xemacpsif_physpeed.c in *)
(* the build of this board (RGMII, Zynq-7000): find the PHY, make it       *)
(* negotiate or pin it to one speed, and set the MAC's clock accordingly.  *)
(* lwIP's adapter calls it at start-up and again whenever the link has     *)
(* gone and come back; link and partner change whenever they like.         *)
(*                                                                         *)
(* Register pages and the tuning of delays are left out: each access to    *)
(* another page is followed by the switch back to page 0.                  *)
(***************************************************************************)
EXTENDS Integers

CONSTANTS
  Chips,      \* the PHYs that may sit on the board; "absent": none answers
  Settings,   \* CONFIG_LINKSPEED*: Autodetect or one speed
  Timeout,    \* seconds a negotiation is waited for (30)
  MaxSetups,  \* bound: calls of phy_setup_emacps
  MaxReplugs  \* bound: times the cable is pulled

Speeds  == {10, 100, 1000}
Autodetect    == 0
Success == 0   \* XST_SUCCESS and XST_FAILURE, which share a type with the speeds
Failure == 1

ASSUME PhyAssumption ==
  /\ Chips \subseteq {"TI", "Marvell", "RTL8211E", "RTL8211F", "absent"}
  /\ Settings \subseteq Speeds \cup {Autodetect} /\ Timeout \in Nat \ {0}
  /\ MaxSetups \in Nat /\ MaxReplugs \in Nat

VARIABLES
  board,       \* what does not change: the chip, its address, the setting of the
               \* build, the clock source and the speeds that have divisors
  pc,          \* where the firmware is
  phymapemac0, \* addresses at which detect_phy has found a PHY
  timeout_counter,
  link_speed,  \* what the last call returned
  setups,      \* calls made
  phy,         \* the PHY: the speeds it advertises, its reset and negotiation
               \* complete bits, the speed of its link (0: down)
  partner,     \* the speeds of the other end (none: unplugged)
  replugs,
  clock,       \* the speed the MAC's transmit clock is divided for
  locked,      \* the SLCR, which holds the divisors, takes no writes
  fresh        \* history: the link has not changed since its speed was read
firmware == <<pc, phymapemac0, timeout_counter, link_speed, setups, clock, locked>>
wire     == <<phy, partner, replugs>>
vars == <<board, pc, phymapemac0, timeout_counter, link_speed, setups, clock, locked,
          phy, partner, replugs, fresh>>

Boards == [chip: Chips, addr: {0, 1}, setting: Settings, emio: BOOLEAN,
           divisors: {{}, Speeds}]

TypeOK ==
  /\ board \in Boards
  /\ pc \in {"detect", "idle", "prepare", "waitReset", "negotiate", "resolve",
             "configure", "sleep"}
  /\ phymapemac0 \subseteq 1 .. 31
  /\ timeout_counter \in 0 .. Timeout - 1
  /\ link_speed \in Speeds \cup {Success, Failure}
  /\ setups \in 0 .. MaxSetups /\ replugs \in 0 .. MaxReplugs
  /\ phy \in [advert: SUBSET Speeds, reset: BOOLEAN, complete: BOOLEAN, link: Speeds \cup {0}]
  /\ partner \subseteq Speeds
  /\ clock \in Speeds /\ locked \in BOOLEAN /\ fresh \in BOOLEAN

\* After the boot loader: a clock for 1000 Mbps, a PHY with any strapping.
Init ==
  /\ board \in Boards
  /\ pc = "detect" /\ phymapemac0 = {} /\ timeout_counter = 0
  /\ link_speed = Failure /\ setups = 0
  /\ phy \in [advert: {{10, 100}, Speeds}, reset: {FALSE}, complete: {FALSE}, link: {0}]
  /\ partner \in SUBSET Speeds /\ replugs = 0
  /\ clock = 1000 /\ locked = TRUE /\ fresh = FALSE

-----------------------------------------------------------------------------
\* The SLCR is unlocked first; with the EMIO clock, or without divisors in the
\* build, it is left unlocked and the clock as it is.  Any speed that is not 1000
\* or 100 counts as 10.
SetUpSLCRDivisors(speed) ==
  LET rate == IF speed \in {100, 1000} THEN speed ELSE 10
  IN IF ~board.emio /\ rate \in board.divisors
     THEN clock' = rate /\ locked' = TRUE
     ELSE locked' = FALSE /\ UNCHANGED clock

\* What phy_setup_emacps makes of the speed a get_*_phy_speed returned.
Return(speed) ==
  /\ pc' = "idle" /\ link_speed' = speed
  /\ IF speed = Failure THEN UNCHANGED <<clock, locked>> ELSE SetUpSLCRDivisors(speed)
  /\ UNCHANGED <<board, phymapemac0, timeout_counter, setups>>

\* Addresses 31 to 1 are probed; a PHY at 0 is then reached by broadcast.
detect_phy ==
  /\ pc = "detect" /\ pc' = "idle"
  /\ phymapemac0' = IF board.chip = "absent" THEN {} ELSE {board.addr} \cap (1 .. 31)
  /\ UNCHANGED <<board, timeout_counter, link_speed, setups, clock, locked, fresh>>
  /\ UNCHANGED wire

\* A pinned speed sets the clock before the PHY is told.
phy_setup_emacps ==
  /\ pc = "idle" /\ setups < MaxSetups /\ setups' = setups + 1 /\ timeout_counter' = 0
  /\ IF board.setting = Autodetect
     THEN pc' = "prepare" /\ UNCHANGED <<clock, locked>>
     ELSE pc' = "configure" /\ SetUpSLCRDivisors(board.setting)
  /\ UNCHANGED <<board, phymapemac0, link_speed, fresh>> /\ UNCHANGED wire

-----------------------------------------------------------------------------
\* CONFIG_LINKSPEED_AUTODETECT: advertise everything and restart.
Restarted(speeds, resets) ==
  [advert |-> speeds, reset |-> resets, complete |-> FALSE, link |-> 0]

\* Only the TI branch looks at the result of its MDIO accesses.
get_TI_phy_speed ==
  /\ pc = "prepare" /\ board.chip = "TI"
  /\ \/ phy' = Restarted(Speeds, FALSE) /\ pc' = "negotiate"
        /\ UNCHANGED <<link_speed, clock, locked, phymapemac0, timeout_counter, setups, board>>
     \/ phy' \in {phy, Restarted(phy.advert, FALSE)} /\ Return(Failure)
  /\ fresh' = FALSE /\ UNCHANGED <<partner, replugs>>

\* The other branches also reset the PHY.  Marvell's is taken for an unknown or an
\* absent PHY, too.
NegotiateAfterReset ==
  /\ pc = "prepare" /\ pc' = "waitReset"
  /\ phy' = Restarted(Speeds, TRUE) /\ fresh' = FALSE
  /\ UNCHANGED <<board, phymapemac0, timeout_counter, link_speed, setups, clock, locked,
                 partner, replugs>>
get_Marvell_phy_speed == board.chip \in {"Marvell", "absent"} /\ NegotiateAfterReset
get_Realtek_phy_speed == board.chip \in {"RTL8211E", "RTL8211F"} /\ NegotiateAfterReset

\* The loop on the reset bit has no timeout.
SeeReset ==
  /\ pc = "waitReset" /\ ~phy.reset /\ pc' = "negotiate"
  /\ UNCHANGED <<board, phymapemac0, timeout_counter, link_speed, setups, clock, locked, fresh>>
  /\ UNCHANGED wire

\* Mutated: the seconds are not limited; they are compared before they are counted.
AwaitForever ==
  /\ pc = "negotiate" /\ phy.complete /\ pc' = "resolve"
  /\ UNCHANGED <<board, phymapemac0, timeout_counter, link_speed, setups, clock, locked, fresh>>
  /\ UNCHANGED wire
AwaitOneMore ==
  /\ pc = "negotiate"
  /\ \/ /\ phy.complete /\ pc' = "resolve"
        /\ UNCHANGED <<board, phymapemac0, timeout_counter, link_speed, setups, clock, locked>>
     \/ /\ ~phy.complete /\ timeout_counter < Timeout
        /\ timeout_counter' = timeout_counter + 1
        /\ UNCHANGED <<board, pc, phymapemac0, link_speed, setups, clock, locked>>
     \/ ~phy.complete /\ timeout_counter = Timeout /\ Return(Failure)
  /\ UNCHANGED fresh /\ UNCHANGED wire

\* The status register is read once a second.
Await ==
  /\ pc = "negotiate"
  /\ \/ /\ phy.complete /\ pc' = "resolve"
        /\ UNCHANGED <<board, phymapemac0, timeout_counter, link_speed, setups, clock, locked>>
     \/ /\ ~phy.complete /\ timeout_counter + 1 < Timeout
        /\ timeout_counter' = timeout_counter + 1
        /\ UNCHANGED <<board, pc, phymapemac0, link_speed, setups, clock, locked>>
     \/ ~phy.complete /\ timeout_counter + 1 = Timeout /\ Return(Failure)
  /\ UNCHANGED fresh /\ UNCHANGED wire

\* The speeds the status registers may be read as.  Without a link TI's speed bits
\* mean nothing but are believed, Marvell's branch returns XST_SUCCESS, which the
\* caller takes for 10 Mbps, and Realtek's fails.
TISpeeds      == IF phy.link # 0 THEN {phy.link} ELSE Speeds
MarvellSpeeds == IF phy.link # 0 THEN {phy.link} ELSE {Success}
RealtekSpeeds == IF phy.link # 0 THEN {phy.link} ELSE {Failure}
ResolvedSpeeds ==
  CASE board.chip = "TI"                        -> TISpeeds
    [] board.chip \in {"RTL8211E", "RTL8211F"}  -> RealtekSpeeds
    [] board.chip \in {"Marvell", "absent"}     -> MarvellSpeeds
Resolve ==
  /\ pc = "resolve" /\ \E speed \in ResolvedSpeeds : Return(speed)
  /\ fresh' = TRUE /\ UNCHANGED wire

-----------------------------------------------------------------------------
\* Mutated: the other speeds are not taken away.
AdvertiseAlso(speed) == phy.advert \cup {speed}

\* CONFIG_LINKSPEED1000, 100 and 10: only that speed stays advertised.
AdvertiseOnly(speed) == (phy.advert \ (Speeds \ {speed})) \cup {speed}

configure_IEEE_phy_speed ==
  /\ pc = "configure" /\ pc' = "sleep"
  /\ phy' = Restarted(AdvertiseOnly(board.setting), TRUE)
  /\ UNCHANGED <<board, phymapemac0, timeout_counter, link_speed, setups, clock, locked,
                 partner, replugs, fresh>>
Configured ==
  /\ pc = "sleep" /\ pc' = "idle" /\ link_speed' = board.setting
  /\ UNCHANGED <<board, phymapemac0, timeout_counter, setups, clock, locked, fresh>>
  /\ UNCHANGED wire

Firmware ==
  \/ detect_phy \/ phy_setup_emacps \/ get_TI_phy_speed \/ get_Marvell_phy_speed
  \/ get_Realtek_phy_speed \/ SeeReset \/ Await \/ Resolve \/ configure_IEEE_phy_speed \/ Configured

-----------------------------------------------------------------------------
\* The PHY and the cable.  A poor cable may end at less than the best common speed.
ResetEnds ==
  /\ phy.reset /\ board.chip # "absent" /\ phy' = [phy EXCEPT !.reset = FALSE]
  /\ UNCHANGED <<partner, replugs, board, fresh>> /\ UNCHANGED firmware
LinkUp ==
  /\ ~phy.reset /\ phy.link = 0 /\ board.chip # "absent"
  /\ \E speed \in phy.advert \cap partner :
       phy' = [phy EXCEPT !.complete = TRUE, !.link = speed]
  /\ fresh' = FALSE
  /\ UNCHANGED <<partner, replugs, board>> /\ UNCHANGED firmware
Replug ==
  /\ replugs < MaxReplugs /\ replugs' = replugs + 1
  /\ partner' \in SUBSET Speeds
  /\ phy' = [phy EXCEPT !.complete = FALSE, !.link = 0] /\ fresh' = FALSE
  /\ UNCHANGED board /\ UNCHANGED firmware

Next == Firmware \/ ResetEnds \/ LinkUp \/ Replug

\* The processor runs and a PHY ends its reset; nobody has to plug a cable in.
Spec == Init /\ [][Next]_vars /\ WF_vars(Firmware) /\ WF_vars(ResetEnds)

-----------------------------------------------------------------------------
\* Whenever a set-up has reported success and there is a link, the MAC's clock is
\* that of the link and the SLCR is locked again, whatever the cable did while the
\* firmware waited; provided that the clock is the firmware's to set, and with
\* automatic speed only as long as the link is the one whose speed was read.
ClockMatchesLink ==
  /\ pc = "idle" /\ link_speed # Failure /\ phy.link # 0
  /\ ~board.emio /\ board.divisors = Speeds /\ (board.setting = Autodetect => fresh)
  => clock = phy.link /\ link_speed = phy.link /\ locked

\* A set-up ends, with or without a partner, if there is a PHY that ends its reset.
SetupEnds == board.chip # "absent" /\ pc # "idle" ~> pc = "idle"

=============================================================================
