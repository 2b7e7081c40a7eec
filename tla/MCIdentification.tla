-------------------------- MODULE MCIdentification --------------------------
(***************************************************************************)
(* Firmware on either side of every threshold, V3 listings with the        *)
(* default rate and without, padded, and with more rates than are read.    *)
(***************************************************************************)
EXTENDS Identification

Is(g, j, m) == [generation |-> g, version |-> [major |-> m, jtag |-> j, swim |-> 5]]

MCFirmwares ==
  {Is("Unknown", 0, 0), Is("V1", 11, 1), Is("V1", 12, 1), Is("V2", 12, 2), Is("V2", 14, 2),
   Is("V2_1", 22, 2), Is("V3", 7, 3)}

MCListings == {<<24000, 1000, 0>>, <<24000, 3300>>, [i \in 1 .. 11 |-> IF i = 11 THEN 1000 ELSE 8000]}

MCHertz == {0, 4000000, 24000000, 7}

=============================================================================
