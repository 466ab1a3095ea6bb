---------------------------- MODULE MCHostConnect ----------------------------
(* Classic alone has two links, so that a peer may come back while its first    *)
(* link is still being set up; the wildcard, which makes two attempts, has two  *)
(* BLE links; the others have one link of each protocol.                        *)
EXTENDS HostConnect

CONSTANTS b1, b2, c1, c2

MCBleLinks     == {b1, b2}
MCClassicLinks == {c1, c2}
MCBothStarts   == {"new", "handoff"}
MCNew          == {"new"}
MCAllSetups    ==
  {s \in SUBSET {"ble", "wild", "classic"} : ~({"ble", "wild"} \subseteq s)}
MCMixed        == {{"ble", "classic"}}
MCMay          ==
  [s \in Setups |-> IF "wild" \in s THEN {b1, b2, c1}
                    ELSE IF s = {"classic"} THEN {c1, c2} ELSE {b1, c1}]
MCOneEach      == [s \in Setups |-> {b1, c1}]
=============================================================================
