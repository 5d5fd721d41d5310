--------------------------- MODULE MCRelayService ---------------------------
(* Epochs of three slots up to the first slot of the third, two validators;  *)
(* the duties alternate, the forecast is right or wrong in every slot.       *)
EXTENDS RelayService

MCChainSlots == 0 .. 6
MCValidators == {"v1", "v2"}
MCProposer == [s \in MCChainSlots |-> IF s % 2 = 0 THEN "v1" ELSE "v2"]
MCNextEpochViews ==
    {MCProposer, [s \in MCChainSlots |-> IF s % 2 = 0 THEN "v2" ELSE "v1"]}

============================================================================
