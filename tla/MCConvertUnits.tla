--------------------------- MODULE MCConvertUnits ---------------------------
(* Instances of ConvertUnits: every class of the registry, and what is known  *)
(* of each; the README explains every entry.                                  *)
EXTENDS EOSclasses, ConvertUnits

AllClasses ==
  LET names == {
        "EOS", "EOS_VT", "DavisProducts", "DavisReactants", "IdealGas", "IdealGas_VT",
        "StiffenedGas", "StiffenedGas_VT", "Hayes", "Hayes_VT", "HayesBM", "HayesBM_VT",
        "BirchMurnaghan", "BirchMurnaghan_VT", "Keane", "Keane_VT", "JWL", "JWL_VT", "BKW",
        "BKW_VT", "HEfit", "HEprods", "UsUp", "UsUp_VT", "UsUpSpline", "UsUpSpline_VT",
        "PeSpline", "PeSpline_VT", "PTequilibrium", "PTequilibrium_VT", "StiffIdeal",
        "StiffIdeal_VT", "Phi0", "Phi1", "EC", "Phi0 again", "Phi1 again", "EC again",
        "FrozenPorous", "EqPorous", "DissipativePorous" }
        \cup RateClasses \cup ExtClasses \cup ElasticClasses \cup ShearClasses
  IN  ClassTable(names)

JustDavisProducts == LET names == {"DavisProducts"} IN ClassTable(names)

\* Units without a temperature, and without a mass.
NoTemperature == {"T", "S", "Cv", "beta"}
NoMass        == {"m", "rho", "V", "E", "P"}
AllLackable   == {NoTemperature, NoMass}

detonation   == { "detonation_P", "detonation_V", "detonation_u", "detonation_u_s" }
deflagration == { "deflagration_P", "deflagration_V", "deflagration_u", "deflagration_u_s" }
polar        == { "polar_P", "polar_beta0", "polar_Theta" }
phi_eq       == { "PV", "phi", "dphi", "d2phi", "energy", "denergy", "d2energy", "E_max", "PV_0",
                  "PV_1" }
again        == { "Phi0 again", "Phi1 again", "EC again" }
burn         == { "zdot", "TimeStep", "Integrate", "Dt" }
Pfamily      == { "P", "Gamma", "c2", "NotInDomain" }

KnownUnset(c) ==
  CASE c = "JWL"      -> {"S", "T", "CV", "Pref", "eref", "Tref"}
    [] c = "JWL_VT"   -> {"S", "P", "e", "CV", "c2", "P_V", "P_T", "NotInDomain", "Pref"}
    [] c = "HEfit"    -> Pfamily \cup {"MaxNorm"}
    [] c = "HEprods"  -> Pfamily \cup {"e_PV", "S", "T"}
    [] c = "Keane"    -> {"S", "T", "P", "CV", "c2", "e_PV", "NotInDomain"}
    [] c = "Keane_VT" -> {"F", "P", "e", "P_V"}
    [] c \in MGclasses -> IF c \in VTclasses THEN {"Ve_eos"} ELSE {"VTeos"}
    [] c = "StiffIdeal_VT" ->
         {"S", "P", "e", "Gamma", "CV", "c2", "P_V", "P_T", "NotInDomain"}
    [] c = "ArrheniusRT" -> {"copy", "zdot_shock"}
    [] c = "IgnitionGrowth" -> burn
    [] c = "IgnitionGrowthRT" -> burn \cup {"copy", "zdot_shock"}
    [] c = "HotSpotCC_Rate" -> {"copy", "Integrate", "rate_s2"}
    [] c \in {"HotSpotRateCC", "HotSpotRateCC old"} ->
         {"copy", "Integrate", "rate_s2", "dlambdadt"}
    [] c \in RateClasses \cup HEburnClasses -> {"copy"}
    [] c = "ElasticConstGV" ->
         Pfamily \cup {"S", "T", "CV", "FD", "Pdev", "Phydro"}
    [] c = "ElasticConstGV_VT" -> {"F", "e", "P", "P_V", "NotInDomain"}
    [] c = "VonMisesConstGV" -> {"Integrate"}
    [] OTHER -> {}

KnownWrong(c) ==
  CASE c = "EOS" -> {"e_PV", "PT"}
    [] c \in {"DavisProducts", "DavisReactants"} -> {"VTeos", "V_ref", "e_ref", "P_vac"}
    [] c \in {"BirchMurnaghan_VT", "Keane_VT"} -> {"P_V"}
    [] c = "HEfit"    -> {"NotInDomain", "MaxNorm"}
    [] c = "HEprods"  -> Pfamily \cup {"e_PV", "S", "T"}
    [] c \in MGclasses \ {"UsUpSpline", "UsUpSpline_VT"} -> {"MaxNorm"}
    [] c = "PTequilibrium" -> {"e_PV", "PT", "dTdlambda"}
    [] c = "StiffIdeal"    -> {"S", "V_ref", "e_ref", "P_vac", "VTeos"}
    [] c = "StiffIdeal_VT" -> {"S", "V_ref", "T_ref", "Ve_eos"}
    [] c \in {"Phi0", "Phi1"} -> {"dphi", "d2phi", "energy"}
    [] c = "EC" -> {"f", "dphi", "d2phi", "energy"}
    [] c = "EC again" -> {"f"} \cup phi_eq
    [] c \in again -> phi_eq
    [] c \in {"EqPorous", "DissipativePorous"} -> {"lastState"}
    [] c = "VMrate" -> {"e_PV", "PT", "z_tauinv"}
    [] c \in {"ExtEOS"} \cup EqExtClasses \cup PlasticClasses
         \cup {"Elastic1D", "ElasticConstGV", "ElasticPolyG"} -> {"e_PV", "PT"}
    [] c = "HEburn HE1" -> {"PT"}
    [] c = "HEburn HotSpotCC_HE" -> {"PT"} \cup HotSpotCC_HE
    [] c \in HEburnClasses -> {"PT"} \cup HotSpotHE
    [] OTHER -> {}

KnownUnderived(c) ==
  CASE c = "DavisProducts"  -> {"V_ref"}
    [] c = "DavisReactants" -> {"V_ref", "e_ref"}
    [] c = "HEprods"        -> {"rho_cj", "P_cj", "e_sw"}
    [] c = "StiffIdeal_VT"  -> {"dS", "e_ref", "P_ref"}
    [] c = "Phi0"           -> {"PV_0", "PV_1", "PV_min", "PV_smax"}
    [] c = "EC"             -> {"PV_min", "PV_smax"}
    [] c = "Phi0 again"     -> {"PV_0", "PV_1", "PV_min", "PV_smax"}
    [] c \in again          -> {"PV_min", "PV_smax"}
    [] c \in {"Arrhenius", "ArrheniusRT"} -> {"T_cutoff"}
    [] c = "PnRate"         -> {"P_cutoff"}
    [] c \in {"HotSpotCC_Rate", "HotSpotRateCC", "HotSpotRateCC old"} -> {"fign"}
    [] c = "VonMises1D"     -> {"eps_y"}
    [] OTHER -> {}

KnownStatus(c) ==
  CASE c = "EOS" -> detonation \cup {"detonation_w_u_s"} \cup deflagration \cup polar
    [] c \in {"JWL", "BKW"} -> detonation \cup {"detonation_w_u_s"} \cup deflagration
    [] c = "HEfit" -> detonation \cup {"detonation_w_u_s"}
    [] c \in {"IdealGas", "StiffenedGas"} ->
         {"isentrope_V", "isentrope_u", "isentrope_u_s", "isotherm_V"}
    [] c \in {"Hayes", "DissipativePorous"} -> {"isotherm_P", "isotherm_V"}
    [] OTHER -> {}

KnownWave(c) ==
  CASE c = "EOS" -> {"isentrope_MaxNorm", "detonation_P", "deflagration_V",
                     "deflagration_u", "deflagration_u_s"}
    [] c \in {"JWL", "BKW"} -> {"detonation_u", "deflagration_u"}
    [] c = "HEfit" -> detonation
    [] c = "IdealGas" -> {"shock_P", "shock_V"}
    [] c = "StiffenedGas" -> {"shock_V"}
    [] OTHER -> {}

\* The classes that convert the members of the base class before they know
\* whether they can convert their own.
HalfConverted ==
  ({ "IdealGas", "StiffenedGas", "Hayes", "HayesBM", "BirchMurnaghan", "Keane", "JWL", "BKW",
    "HEfit", "HEprods", "FrozenPorous", "EqPorous", "DissipativePorous" }
  \cup MGclasses \cup RateClasses \cup ExtClasses \cup ElasticClasses)
    \ {"UsUpSpline_VT", "EqExtEOS HotSpotHE2"}
KnownHalf(c) == IF c \in HalfConverted THEN {"ConvertParams"} ELSE {}

Known(property, c) ==
  CASE property = "SetBeforeUse"  -> KnownUnset(c)
    [] property = "Covariant"     -> KnownWrong(c)
    [] property = "DerivedAgree"  -> KnownUnderived(c)
    [] property = "FailUnchanged" -> KnownHalf(c)
    [] property = "CurveStatus"   -> KnownStatus(c)
    [] property = "CurveWave"     -> KnownWave(c)

Nothing(property, c) == {}

=============================================================================
