---------------------------- MODULE MCEOSobjects -----------------------------
(* A data base with two composites: el, an Elastic1D the program fetches     *)
(* without ever fetching its components, and mix, a PTequilibrium of a       *)
(* material with itself that the program and the manager use as well.  bad   *)
(* and torn name a second component that cannot be made: its units are not   *)
(* in the data base, or its parameters do not parse.                         *)
EXTENDS EOSobjects

CONSTANTS gas, G, el, air, mix, nox, bad, torn, unp, noref, mks, cgs, electric, bare, odd

MCBlocks  == {gas, G, el, air, mix, nox, bad, torn, unp, noref}
MCKindOf  == [b \in MCBlocks |-> CASE b \in {el, torn} -> "Elastic1D"
                                   [] b \in {mix, bad} -> "PTequilibrium"
                                   [] OTHER -> "simple"]
MCPartsOf == [b \in MCBlocks |-> CASE b = el  -> <<gas, G>>
                                   [] b = mix -> <<air, air>>
                                   [] b = bad -> <<air, nox>>
                                   [] b = torn -> <<air, unp>>
                                   [] OTHER -> <<NULL, NULL>>]
MCUnitsOf == [b \in MCBlocks |-> CASE b = el  -> cgs
                                   [] b = nox -> odd
                                   [] OTHER -> mks]
MCKnownUnits == {mks, cgs, bare, electric}

\* bare has no factor for V, e or P; electric is of another type
MCUnitType == [u \in MCKnownUnits |-> IF u = electric THEN "electric" ELSE "hydro"]

\* the shear model has no factor for its own quantity back from cgs
MCNoOwn == {<<G, cgs>>}
=============================================================================
