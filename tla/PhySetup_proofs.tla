--------------------------- MODULE PhySetup_proofs ---------------------------
(***************************************************************************)
(* The clock matches the link for every PHY, every setting of the build,   *)
(* every timeout and any number of set-ups and pulled cables.              *)
(***************************************************************************)
EXTENDS PhySetup, TLAPS

\* The clock is the firmware's to set.
Settable == ~board.emio /\ board.divisors = Speeds

\* An automatic build negotiates, any other one pins the speed.
PathOK ==
  /\ pc \in {"configure", "sleep"} => board.setting # Autodetect
  /\ pc \in {"prepare", "waitReset", "negotiate", "resolve"} => board.setting = Autodetect

\* A speed read from a link that is still the same is the clock's.
AutoOK ==
  board.setting = Autodetect /\ Settable /\ fresh /\ phy.link # 0 /\ link_speed # Failure
    => clock = phy.link /\ link_speed = phy.link /\ locked

\* A pinned speed is set before the PHY is told, which then has no other link.
PinnedOK ==
  board.setting # Autodetect =>
    /\ link_speed \in {Failure, board.setting}
    /\ pc = "sleep" \/ link_speed # Failure
         => phy.advert = {board.setting} /\ phy.link \in {0, board.setting}
    /\ Settable /\ (pc \in {"configure", "sleep"} \/ link_speed # Failure)
         => clock = board.setting /\ locked

IInv == TypeOK /\ PathOK /\ AutoOK /\ PinnedOK

-----------------------------------------------------------------------------
\* A settable clock is divided for the speed it is asked for, and for 10 Mbps when
\* it is asked for something that is no speed.
LEMMA DivisorsSet ==
  ASSUME TypeOK, NEW speed \in Speeds \cup {Success}, SetUpSLCRDivisors(speed)
  PROVE  /\ clock' \in Speeds /\ locked' \in BOOLEAN
         /\ Settable /\ speed # Success => clock' = speed /\ locked'
<1> DEFINE rate == IF speed \in {100, 1000} THEN speed ELSE 10
<1>1. rate \in Speeds /\ (speed # Success => rate = speed)
  BY DEF Speeds, Success
<1>2. CASE ~board.emio /\ rate \in board.divisors
  <2>1. clock' = rate /\ locked' = TRUE
    BY <1>2 DEF SetUpSLCRDivisors
  <2> QED  BY <1>1, <2>1
<1>3. CASE ~(~board.emio /\ rate \in board.divisors)
  <2>1. clock' = clock /\ locked' = FALSE /\ ~Settable
    BY <1>1, <1>3 DEF SetUpSLCRDivisors, Settable
  <2> QED  BY <2>1 DEF TypeOK
<1> QED  BY <1>2, <1>3

LEMMA PhyTyped ==
  ASSUME TypeOK
  PROVE  /\ phy.advert \subseteq Speeds /\ phy.link \in Speeds \cup {0}
         /\ phy = [advert |-> phy.advert, reset |-> phy.reset, complete |-> phy.complete,
                   link |-> phy.link]
         /\ phy.reset \in BOOLEAN /\ phy.complete \in BOOLEAN
         /\ board.setting \in Speeds \cup {Autodetect}
BY PhyAssumption DEF TypeOK, Boards

PhyStates == [advert: SUBSET Speeds, reset: BOOLEAN, complete: BOOLEAN, link: Speeds \cup {0}]

LEMMA RestartedTyped ==
  ASSUME NEW speeds \in SUBSET Speeds, NEW resets \in BOOLEAN
  PROVE  Restarted(speeds, resets) \in PhyStates
BY DEF Restarted, PhyStates

\* What the end of an automatic set-up leaves.
LEMMA ReturnStep ==
  ASSUME IInv, NEW speed \in Speeds \cup {Success, Failure}, Return(speed)
  PROVE  /\ pc' = "idle" /\ link_speed' = speed /\ board' = board
         /\ clock' \in Speeds /\ locked' \in BOOLEAN
         /\ timeout_counter' \in 0 .. Timeout - 1
         /\ phymapemac0' = phymapemac0 /\ setups' = setups
         /\ Settable /\ speed \in Speeds => clock' = speed /\ locked'
<1>1. CASE speed = Failure
  BY <1>1 DEF Return, IInv, TypeOK, Failure, Speeds
<1>2. CASE speed # Failure
  <2>1. SetUpSLCRDivisors(speed) /\ speed \in Speeds \cup {Success}
    BY <1>2 DEF Return
  <2>2. /\ clock' \in Speeds /\ locked' \in BOOLEAN
        /\ Settable /\ speed # Success => clock' = speed /\ locked'
    BY <2>1, DivisorsSet DEF IInv
  <2> QED  BY <2>2 DEF Return, IInv, TypeOK, Success, Speeds
<1> QED  BY <1>1, <1>2

LEMMA ReadStep ==
  ASSUME NEW speed \in ResolvedSpeeds, TypeOK
  PROVE  /\ speed \in Speeds \cup {Success, Failure}
         /\ phy.link # 0 => speed = phy.link
BY PhyTyped, PhyAssumption DEF ResolvedSpeeds, TISpeeds, MarvellSpeeds, RealtekSpeeds, TypeOK, Boards

-----------------------------------------------------------------------------
LEMMA InitOK == Init => IInv
<1> SUFFICES ASSUME Init PROVE IInv
  OBVIOUS
<1>1. phy \in PhyStates
  <2>1. {10, 100} \subseteq Speeds
    BY DEF Speeds
  <2>2. /\ phy.advert \in {{10, 100}, Speeds} /\ phy.reset = FALSE /\ phy.complete = FALSE
        /\ phy.link = 0
        /\ phy = [advert |-> phy.advert, reset |-> phy.reset, complete |-> phy.complete,
                  link |-> phy.link]
    BY DEF Init
  <2> QED  BY <2>1, <2>2 DEF PhyStates
<1>2. timeout_counter \in 0 .. Timeout - 1 /\ setups \in 0 .. MaxSetups /\ replugs \in 0 .. MaxReplugs
  BY PhyAssumption DEF Init
<1>3. partner \subseteq Speeds /\ clock \in Speeds
  BY DEF Init, Speeds
<1>4. TypeOK
  BY <1>1, <1>2, <1>3 DEF Init, TypeOK, PhyStates
<1> QED  BY <1>4 DEF Init, IInv, PathOK, AutoOK, PinnedOK, Failure

LEMMA FirmwareStep == IInv /\ Firmware => IInv'
<1> SUFFICES ASSUME IInv, Firmware PROVE IInv'
  OBVIOUS
<1> USE DEF Failure, Success, Autodetect
<1>0. TypeOK /\ PathOK /\ AutoOK /\ PinnedOK
  BY DEF IInv
<1>1. CASE detect_phy
  <2>1. phymapemac0' \subseteq 1 .. 31
    BY <1>1 DEF detect_phy
  <2> QED  BY <1>0, <1>1, <2>1
    DEF detect_phy, IInv, TypeOK, PathOK, AutoOK, PinnedOK, Settable, wire
<1>2. CASE phy_setup_emacps
  <2>1. setups' \in 0 .. MaxSetups /\ timeout_counter' \in 0 .. Timeout - 1
    BY <1>0, <1>2, PhyAssumption DEF phy_setup_emacps, TypeOK
  <2>2. CASE board.setting = Autodetect
    BY <1>0, <1>2, <2>1, <2>2
      DEF phy_setup_emacps, IInv, TypeOK, PathOK, AutoOK, PinnedOK, Settable, wire
  <2>3. CASE board.setting # Autodetect
    <3>1. SetUpSLCRDivisors(board.setting) /\ board.setting \in Speeds
      BY <1>0, <1>2, <2>3, PhyTyped DEF phy_setup_emacps
    <3>2. /\ clock' \in Speeds /\ locked' \in BOOLEAN
          /\ Settable => clock' = board.setting /\ locked'
      BY <1>0, <3>1, DivisorsSet DEF Speeds
    <3> QED  BY <1>0, <1>2, <2>1, <2>3, <3>2
      DEF phy_setup_emacps, IInv, TypeOK, PathOK, AutoOK, PinnedOK, Settable, wire
  <2> QED  BY <2>2, <2>3
<1>3. CASE get_TI_phy_speed
  <2>1. phy' \in PhyStates
    <3>1. phy \in PhyStates
      BY <1>0 DEF TypeOK, PhyStates
    <3>2. phy' \in {phy, Restarted(Speeds, FALSE), Restarted(phy.advert, FALSE)}
      BY <1>3 DEF get_TI_phy_speed
    <3>3. phy.advert \in SUBSET Speeds
      BY <1>0, PhyTyped
    <3> QED  BY <3>1, <3>2, <3>3, RestartedTyped
  <2>2. board.setting = Autodetect /\ fresh' = FALSE /\ partner' = partner /\ replugs' = replugs
    BY <1>0, <1>3 DEF get_TI_phy_speed, PathOK
  <2>3. CASE pc' = "negotiate"
    <3>1. UNCHANGED <<link_speed, clock, locked, phymapemac0, timeout_counter, setups, board>>
      BY <1>3, <2>3 DEF get_TI_phy_speed, Return
    <3> QED  BY <1>0, <2>1, <2>2, <2>3, <3>1
      DEF IInv, TypeOK, PhyStates, PathOK, AutoOK, PinnedOK
  <2>4. CASE pc' # "negotiate"
    <3>1. Return(Failure)
      BY <1>3, <2>4 DEF get_TI_phy_speed
    <3>2. /\ pc' = "idle" /\ link_speed' = Failure /\ board' = board
          /\ clock' \in Speeds /\ locked' \in BOOLEAN /\ timeout_counter' \in 0 .. Timeout - 1
          /\ phymapemac0' = phymapemac0 /\ setups' = setups
      BY <3>1, ReturnStep
    <3> QED  BY <1>0, <2>1, <2>2, <3>2 DEF IInv, TypeOK, PhyStates, PathOK, AutoOK, PinnedOK
  <2> QED  BY <2>3, <2>4
<1>4. CASE get_Marvell_phy_speed \/ get_Realtek_phy_speed
  <2>1. phy' \in PhyStates
    BY <1>4, RestartedTyped DEF get_Marvell_phy_speed, get_Realtek_phy_speed, NegotiateAfterReset
  <2> QED  BY <1>0, <1>4, <2>1 DEF get_Marvell_phy_speed, get_Realtek_phy_speed,
             NegotiateAfterReset, IInv, TypeOK, PhyStates, PathOK, AutoOK, PinnedOK
<1>5. CASE SeeReset
  BY <1>0, <1>5 DEF SeeReset, IInv, TypeOK, PathOK, AutoOK, PinnedOK, Settable, wire
<1>6. CASE Await
  <2>1. UNCHANGED <<board, fresh, phy, partner, replugs>> /\ board.setting = Autodetect
    BY <1>0, <1>6 DEF Await, Return, PathOK, wire
  <2>2. CASE Return(Failure)
    <3>1. /\ pc' = "idle" /\ link_speed' = Failure
          /\ clock' \in Speeds /\ locked' \in BOOLEAN /\ timeout_counter' \in 0 .. Timeout - 1
          /\ phymapemac0' = phymapemac0 /\ setups' = setups
      BY <2>2, ReturnStep
    <3> QED  BY <1>0, <2>1, <3>1 DEF IInv, TypeOK, PathOK, AutoOK, PinnedOK
  <2>3. CASE ~Return(Failure)
    <3>1. /\ UNCHANGED <<phymapemac0, link_speed, setups, clock, locked>>
          /\ pc' \in {"negotiate", "resolve"} /\ timeout_counter' \in 0 .. Timeout - 1
      BY <1>0, <1>6, <2>3, PhyAssumption DEF Await, TypeOK
    <3> QED  BY <1>0, <2>1, <3>1 DEF IInv, TypeOK, PathOK, AutoOK, PinnedOK, Settable
  <2> QED  BY <2>2, <2>3
<1>7. CASE Resolve
  <2>1. PICK speed \in ResolvedSpeeds : Return(speed)
    BY <1>7 DEF Resolve
  <2>2. speed \in Speeds \cup {Success, Failure} /\ (phy.link # 0 => speed = phy.link)
    BY <1>0, ReadStep
  <2>3. /\ pc' = "idle" /\ link_speed' = speed /\ board' = board
        /\ clock' \in Speeds /\ locked' \in BOOLEAN /\ timeout_counter' \in 0 .. Timeout - 1
        /\ phymapemac0' = phymapemac0 /\ setups' = setups
        /\ Settable /\ speed \in Speeds => clock' = speed /\ locked'
    BY <2>1, <2>2, ReturnStep
  <2>4. UNCHANGED <<phy, partner, replugs>> /\ fresh' = TRUE /\ board.setting = Autodetect
    BY <1>0, <1>7 DEF Resolve, PathOK, wire
  <2>5. TypeOK'
    BY <1>0, <2>2, <2>3, <2>4 DEF TypeOK
  <2>6. AutoOK'
    BY <1>0, <2>2, <2>3, <2>4, PhyTyped DEF AutoOK, Settable
  <2> QED  BY <2>3, <2>4, <2>5, <2>6 DEF IInv, PathOK, PinnedOK
<1>8. CASE configure_IEEE_phy_speed
  <2>1. board.setting \in Speeds
    BY <1>0, <1>8, PhyTyped DEF configure_IEEE_phy_speed, PathOK
  <2>2. AdvertiseOnly(board.setting) = {board.setting}
    BY <1>0, <2>1, PhyTyped DEF AdvertiseOnly
  <2>3. phy' = [advert |-> {board.setting}, reset |-> TRUE, complete |-> FALSE, link |-> 0]
    BY <1>8, <2>2 DEF configure_IEEE_phy_speed, Restarted
  <2>4. phy' \in PhyStates
    BY <2>1, <2>3 DEF PhyStates
  <2>5. TypeOK'
    BY <1>0, <1>8, <2>4 DEF configure_IEEE_phy_speed, TypeOK, PhyStates
  <2>6. phy'.advert = {board.setting} /\ phy'.link = 0
    BY <2>3
  <2> QED  BY <1>0, <1>8, <2>5, <2>6
    DEF configure_IEEE_phy_speed, IInv, TypeOK, PathOK, AutoOK, PinnedOK, Settable
<1>9. CASE Configured
  <2>1. board.setting \in Speeds
    BY <1>0, <1>9, PhyTyped DEF Configured, PathOK
  <2> QED  BY <1>0, <1>9, <2>1
    DEF Configured, IInv, TypeOK, PathOK, AutoOK, PinnedOK, Settable, wire
<1> QED  BY <1>1, <1>2, <1>3, <1>4, <1>5, <1>6, <1>7, <1>8, <1>9 DEF Firmware

LEMMA WireStep == IInv /\ (ResetEnds \/ LinkUp \/ Replug) => IInv'
<1> SUFFICES ASSUME IInv, ResetEnds \/ LinkUp \/ Replug PROVE IInv'
  OBVIOUS
<1> USE DEF Failure, Success, Autodetect
<1>0. TypeOK /\ PathOK /\ AutoOK /\ PinnedOK
  BY DEF IInv
<1>1. CASE ResetEnds
  <2>1. phy' = [advert |-> phy.advert, reset |-> FALSE, complete |-> phy.complete,
                link |-> phy.link]
    BY <1>0, <1>1, PhyTyped DEF ResetEnds
  <2> QED  BY <1>0, <1>1, <2>1, PhyTyped
    DEF ResetEnds, IInv, TypeOK, PathOK, AutoOK, PinnedOK, Settable, firmware
<1>2. CASE LinkUp
  <2>1. PICK speed \in phy.advert \cap partner :
          phy' = [phy EXCEPT !.complete = TRUE, !.link = speed]
    BY <1>2 DEF LinkUp
  <2>2. phy' = [advert |-> phy.advert, reset |-> phy.reset, complete |-> TRUE, link |-> speed]
    BY <1>0, <2>1, PhyTyped
  <2>3. speed \in Speeds
    BY <1>0, <2>1, PhyTyped
  <2>4. phy' \in PhyStates
    BY <1>0, <2>2, <2>3, PhyTyped DEF PhyStates
  <2>5. phy'.link = speed /\ phy'.advert = phy.advert /\ fresh' = FALSE
    BY <1>2, <2>2 DEF LinkUp
  <2>6. TypeOK'
    BY <1>0, <1>2, <2>4, <2>5 DEF LinkUp, TypeOK, firmware, PhyStates
  <2> QED  BY <1>0, <1>2, <2>1, <2>5, <2>6
    DEF LinkUp, IInv, TypeOK, PathOK, AutoOK, PinnedOK, Settable, firmware
<1>3. CASE Replug
  <2>1. phy' = [advert |-> phy.advert, reset |-> phy.reset, complete |-> FALSE, link |-> 0]
    BY <1>0, <1>3, PhyTyped DEF Replug
  <2>2. replugs' \in 0 .. MaxReplugs
    BY <1>0, <1>3, PhyAssumption DEF Replug, TypeOK
  <2>3. phy' \in PhyStates
    BY <1>0, <2>1, PhyTyped DEF PhyStates
  <2>4. partner' \subseteq Speeds
    BY <1>3 DEF Replug
  <2>5. phy'.link = 0 /\ phy'.advert = phy.advert
    BY <2>1
  <2>6. TypeOK'
    BY <1>0, <1>3, <2>2, <2>3, <2>4 DEF Replug, TypeOK, firmware, PhyStates
  <2> QED  BY <1>0, <1>3, <2>5, <2>6
    DEF Replug, IInv, TypeOK, PathOK, AutoOK, PinnedOK, Settable, firmware
<1> QED  BY <1>1, <1>2, <1>3

LEMMA Inductive == Spec => []IInv
<1>1. IInv /\ [Next]_vars => IInv'
  <2>1. IInv /\ UNCHANGED vars => IInv'
    BY DEF vars, IInv, TypeOK, PathOK, AutoOK, PinnedOK, Settable
  <2> QED  BY <2>1, FirmwareStep, WireStep DEF Next
<1> QED  BY <1>1, InitOK, PTL DEF Spec

-----------------------------------------------------------------------------
\* The firmware's variables, the PHY's registers and the cable keep their ranges;
\* in particular no wait counts further than its limit.
THEOREM TypeCorrect == Spec => []TypeOK
<1>1. IInv => TypeOK
  BY DEF IInv
<1> QED  BY <1>1, Inductive, PTL

\* A set-up that has reported success left the MAC with the clock of the link it
\* read, whatever the PHY, the setting and the cable did, and however often.
THEOREM ClockCorrect == Spec => []ClockMatchesLink
<1>1. IInv => ClockMatchesLink
  BY PhyTyped DEF IInv, AutoOK, PinnedOK, ClockMatchesLink, Settable, Autodetect
<1> QED  BY <1>1, Inductive, PTL
=============================================================================
