----------------------------- MODULE EOSclasses -----------------------------
(***************************************************************************)
(* The virtual functions of the concrete classes: which constructor,       *)
(* InitParams, ConvertParams and functions belong to which class.  EOS and *)
(* EOS_VT stand for a class that leaves every function to the base class.  *)
(***************************************************************************)
EXTENDS DavisEOS, IdealGasEOS, StiffenedEOS, HayesEOS, GenHayesEOS, JWLEOS, HEfitEOS,
        MieGruneisenEOS, PTequilibriumEOS, PorousEOS, HotSpotRates, ElasticEOS, PlasticEOS

ElasticVTclasses == {"Elastic1D_VT", "ElasticConstGV_VT", "ElasticPolyG_VT"}
\* The classes of objects in (V, T), and of objects that are no EOS.
VTclasses ==
  { "EOS_VT", "IdealGas_VT", "StiffenedGas_VT", "Hayes_VT", "HayesBM_VT", "BirchMurnaghan_VT",
    "Keane_VT", "JWL_VT", "BKW_VT", "UsUp_VT", "UsUpSpline_VT", "PeSpline_VT",
    "PTequilibrium_VT", "StiffIdeal_VT" } \cup ElasticVTclasses
PhiEqClasses == {"Phi0", "Phi1", "EC", "Phi0 again", "Phi1 again", "EC again"}
RateClasses ==
  { "Arrhenius", "ArrheniusRT", "PnRate", "IgnitionGrowth", "IgnitionGrowthRT", "FFrate",
    "FFQrate", "HotSpotRate", "HotSpotRate2", "HotSpotRateExp", "HotSpotCC_Rate",
    "HotSpotRateCC", "HotSpotRateCC old" }
\* Extended EOSs, by the kind of their internal degrees of freedom.
HEburnClasses == {"HEburn HE1", "HEburn HotSpotHE", "HEburn HotSpotCC_HE", "HEburn2"}
EqExtClasses ==
  { "EqExtEOS HE1", "EqExtEOS HEQ", "EqExtEOS HotSpotHE", "EqExtEOS HotSpotHE2",
    "EqExtEOS HotSpotHE_CC", "EqExtEOS HotSpotCC_HE", "EqExtEOS PlasticStrain2" }
PlasticClasses == {"VMrate", "Polymer", "VonMises1D", "VonMisesConstGV"}
ExtClasses == {"ExtEOS", "Hydro"} \cup HEburnClasses \cup EqExtClasses \cup PlasticClasses
ElasticClasses == {"Elastic1D", "ElasticConstGV", "ElasticPolyG"} \cup ElasticVTclasses
ShearClasses == {"ConstGV", "PolyG"}
NotAnEOS == PhiEqClasses \cup RateClasses \cup ShearClasses

ByBase(c, none, VT, Ve) == IF c \in NotAnEOS THEN none ELSE IF c \in VTclasses THEN VT ELSE Ve

\* The data members as the constructor leaves them.
Constructor(c) ==
  CASE c = "EOS" -> EOS_start
    [] c = "EOS_VT" -> VT_start
    [] c = "DavisProducts" -> DP_start
    [] c = "DavisReactants" -> DR_start
    [] c = "IdealGas" -> IG_start
    [] c = "IdealGas_VT" -> IGT_start
    [] c = "StiffenedGas" -> SG_start
    [] c = "StiffenedGas_VT" -> SGT_start
    [] c = "Hayes" -> HY_start
    [] c = "Hayes_VT" -> HYT_start
    [] c = "HayesBM" -> HB_start
    [] c = "HayesBM_VT" -> HBT_start
    [] c = "BirchMurnaghan" -> BM_start
    [] c = "BirchMurnaghan_VT" -> BMT_start
    [] c = "Keane" -> KN_start
    [] c = "Keane_VT" -> KNT_start
    [] c = "JWL" -> JWL_start
    [] c = "JWL_VT" -> JWLT_start
    [] c = "BKW" -> BKW_start
    [] c = "BKW_VT" -> BKWT_start
    [] c = "HEfit" -> HF_start
    [] c = "HEprods" -> HP_start
    [] c = "UsUp" -> UU_start
    [] c = "UsUp_VT" -> UUT_start
    [] c = "UsUpSpline" -> US_start
    [] c = "UsUpSpline_VT" -> UST_start
    [] c = "PeSpline" -> PS_start
    [] c = "PeSpline_VT" -> PST_start
    [] c = "PTequilibrium" -> PT_start
    [] c = "PTequilibrium_VT" -> PTT_start
    [] c = "StiffIdeal" -> SI_start
    [] c = "StiffIdeal_VT" -> SIT_start
    [] c = "Phi0" -> P0_start
    [] c = "Phi1" -> P1_start
    [] c = "EC" -> EC_start
    [] c = "Phi0 again" -> PHI_again @@ P0_start
    [] c = "Phi1 again" -> PHI_again @@ P1_start
    [] c = "EC again" -> PHI_again @@ EC_start
    [] c = "FrozenPorous" -> FP_start
    [] c \in {"EqPorous", "DissipativePorous"} -> EP_start
    [] c \in {"Arrhenius", "ArrheniusRT"} -> AR_start
    [] c = "PnRate" -> PN_start
    [] c \in {"IgnitionGrowth", "IgnitionGrowthRT"} -> IGR_start
    [] c \in {"FFrate", "FFQrate"} -> FF_start
    [] c = "HotSpotRate" -> HS_start
    [] c = "HotSpotRate2" -> HS2_start
    [] c = "HotSpotRateExp" -> HSE_start
    [] c = "HotSpotCC_Rate" -> CL_start
    [] c \in {"HotSpotRateCC", "HotSpotRateCC old"} -> RCC_start
    [] c = "ExtEOS" -> EXT_start
    [] c = "Hydro" -> HYD_start
    [] c = "HEburn HE1" -> HEB_start(HE1)
    [] c = "HEburn HotSpotHE" -> HEB_start(HotSpotHE)
    [] c = "HEburn HotSpotCC_HE" -> HEB_start(HotSpotCC_HE)
    [] c = "HEburn2" -> HEB_start(HotSpotHE_CC)
    [] c = "EqExtEOS HE1" -> EQX_start(HE1)
    [] c = "EqExtEOS HEQ" -> EQX_start(HEQ)
    [] c = "EqExtEOS HotSpotHE" -> EQX_start(HotSpotHE)
    [] c = "EqExtEOS HotSpotHE2" -> EQX_start(HotSpotHE2)
    [] c = "EqExtEOS HotSpotHE_CC" -> EQX_start(HotSpotHE_CC)
    [] c = "EqExtEOS HotSpotCC_HE" -> EQX_start(HotSpotCC_HE)
    [] c = "EqExtEOS PlasticStrain2" -> EQX_start(PlasticStrain2)
    [] c = "ConstGV" -> CGV_start
    [] c = "PolyG" -> PG_start
    [] c = "Elastic1D" -> EL_start
    [] c = "Elastic1D_VT" -> ELT_start
    [] c = "ElasticConstGV" -> ECG_start(EG_start)
    [] c = "ElasticConstGV_VT" -> ECG_start(EGT_start)
    [] c = "ElasticPolyG" -> EPG_start(EG_start)
    [] c = "ElasticPolyG_VT" -> EPG_start(EGT_start)
    [] c = "VMrate" -> VMR_start
    [] c = "Polymer" -> POL_start
    [] c = "VonMises1D" -> VM_start
    [] c = "VonMisesConstGV" -> VMC_start

\* Members that no parameter of the data base sets.
Hidden(c) == {"VTeos", "Ve_eos"} \cup
  CASE c = "DavisProducts" -> {"ec", "T0"}
    [] c = "DavisReactants" -> {"ps"}
    [] c \in {"BirchMurnaghan", "BirchMurnaghan_VT"} ->
         {"Vmax", "Pmin", "e1", "ode_abs", "y"}
    [] c \in {"Keane", "Keane_VT"} ->
         {"Vmax", "Pmin", "emin", "e1", "P1", "K1", "ode_abs", "y"}
    [] c \in {"JWL", "JWL_VT"} -> {"de", "Vcj", "Pcj", "noHeat", "heat"}
    [] c \in {"BKW", "BKW_VT"} -> {"Vcj", "Pcj", "Tcj"}
    [] c = "HEfit" -> {"e_CJ", "x", "y"}
    [] c = "HEprods" -> {"rho_cj", "P_cj", "e_cj", "e_sw", "T_sw"}
    [] c \in {"UsUp", "UsUp_VT"} -> {"K0", "Vmax", "Pmin", "y"}
    [] c \in {"UsUpSpline", "UsUpSpline_VT"} ->
         {"K0", "Vmax", "Pmin", "y", "V1", "Us_inv", "FD0"}
    [] c \in {"PeSpline", "PeSpline_VT"} -> {"K0", "Vmax", "Pmin", "y", "Ps", "es", "FD0"}
    [] c = "PTequilibrium" -> PT_hidden
    [] c = "PTequilibrium_VT" -> {"V1", "V2"}
    [] c = "StiffIdeal" -> {"Vav"}
    [] c = "StiffIdeal_VT" -> {"Vav", "e_ref"}
    [] c \in {"Phi0", "Phi0 again"} -> PHI_hidden
    [] c \in {"Phi1", "Phi1 again"} -> PHI_hidden \cup {"sPV1"}
    [] c \in {"EC", "EC again"} -> PHI_hidden \cup {"data"}
    [] c \in {"EqPorous", "DissipativePorous"} -> {"B_max", "dBdphi_max", "V_f"}
    [] c \in {"FFrate", "FFQrate"} -> {"HE"} \cup FF_hidden
    [] c = "HotSpotCC_Rate" -> {"HE"} \cup CL_hidden
    [] c = "HotSpotRateCC" -> {"HE"} \cup RCC_hidden
    [] c = "HotSpotRateCC old" -> {"HE", "fn", "df1"} \cup RCC_hidden
    [] c \in RateClasses -> {"HE"}
    [] c = "ExtEOS" -> {"z_ref"}
    [] c = "Hydro" -> DOMAIN HYD_start
    [] c \in HEburnClasses -> HEB_hidden
    [] c \in EqExtClasses -> {"exteos"} \cup IDOF_entries
    [] c \in {"ElasticConstGV", "ElasticConstGV_VT"} -> {"GV"}
    [] c = "Polymer" -> {"eta1"}
    [] c = "VonMises1D" -> {"eps_y"}
    [] c = "VonMisesConstGV" -> VMC_hidden
    [] OTHER -> {}

\* Parameters that only InitParams and InitBase see.
Locals(c) == ByBase(c, {}, {}, {"P_ref"}) \cup
  CASE c \in {"StiffenedGas", "StiffenedGas_VT"} -> {"P0", "c0", "s"}
    [] c \in {"Hayes", "Hayes_VT", "StiffIdeal_VT"} -> {"c0", "s"}
    [] c = "BirchMurnaghan" -> {"V_PTref"}
    [] c = "Keane" -> {"P0_ref"}
    [] c = "JWL" -> {"P0"}
    [] c = "StiffIdeal" -> {"c0", "s", "T_ref"}
    [] c \in {"ElasticConstGV", "ElasticConstGV_VT"} -> {"Gref"}
    [] c \in {"VonMises1D", "VonMisesConstGV"} -> {"tau"}
    [] OTHER -> {}

\* Members that are objects with units of their own.
Parts(c) ==
  CASE c \in {"PTequilibrium", "PTequilibrium_VT"} -> {"eos1", "eos2"}
    [] c \in {"FrozenPorous", "EqPorous", "DissipativePorous"} -> {"solid", "phi_eq"}
    [] c \in {"Elastic1D", "Elastic1D_VT"} -> {"hydro", "shear"}
    [] c \in {"ElasticConstGV", "ElasticConstGV_VT"} -> {"hydro"}
    [] c \in {"ElasticPolyG", "ElasticPolyG_VT"} -> {"hydro", "PG"}
    [] c \in PlasticClasses -> {"elastic"}
    [] OTHER -> {}

\* The object in the other variables, as eosVT() or eosVe() makes it.
MGclasses == {"UsUp", "UsUp_VT", "UsUpSpline", "UsUpSpline_VT", "PeSpline", "PeSpline_VT"}
Twin(c) == IF c \in MGclasses THEN MG_twin ELSE OldUnits

\* What calls keep in the object, and its units; Free while there is nothing.
Kept(c, o) ==
  ByBase(c, << >>, [Ve_eos |-> Twin(c)], [VTeos |-> Twin(c)]) @@
  CASE c \in {"BirchMurnaghan", "BirchMurnaghan_VT", "Keane", "Keane_VT"} -> [y |-> o.Cv]
    [] c \in MGclasses -> [y |-> o.K0 ** o.V0]
    [] c \in {"StiffIdeal", "StiffIdeal_VT"} -> [Vav |-> One]
    [] c \in {"EqPorous", "DissipativePorous"} -> [V_f |-> One]
    [] OTHER -> << >>

\* InitBase: InitParams of the class, then the base class.
InitParams(c, o) ==
  CASE c \in {"EOS", "EOS_VT"} -> << >>
    [] c = "DavisProducts" -> DP_init(o)
    [] c = "DavisReactants" -> DR_init(o)
    [] c \in {"IdealGas", "IdealGas_VT"} -> IG_init
    [] c = "StiffenedGas" -> SG_init(o)
    [] c = "StiffenedGas_VT" -> SGT_init(o)
    [] c = "Hayes" -> HY_init(o)
    [] c = "Hayes_VT" -> HYT_init(o)
    [] c = "HayesBM" -> HB_init(o)
    [] c = "HayesBM_VT" -> HBT_init(o)
    [] c = "BirchMurnaghan" -> BM_init(o)
    [] c = "BirchMurnaghan_VT" -> BMT_init(o)
    [] c = "Keane" -> KN_init(o)
    [] c = "Keane_VT" -> KNT_init(o)
    [] c = "JWL" -> JWL_init(o)
    [] c = "JWL_VT" -> JWLT_init(o)
    [] c = "BKW" -> BKW_init(o)
    [] c = "BKW_VT" -> BKWT_init(o)
    [] c = "HEfit" -> HF_init(o)
    [] c = "HEprods" -> HP_init(o)
    [] c = "UsUp" -> UU_init(o)
    [] c = "UsUp_VT" -> UUT_init(o)
    [] c = "UsUpSpline" -> US_init(o)
    [] c = "UsUpSpline_VT" -> UST_init(o)
    [] c = "PeSpline" -> PS_init(o)
    [] c = "PeSpline_VT" -> PST_init(o)
    [] c = "PTequilibrium" -> PT_init(o)
    [] c = "PTequilibrium_VT" -> PTT_init(o)
    [] c = "StiffIdeal" -> SI_init(o)
    [] c = "StiffIdeal_VT" -> SIT_init(o)
    [] c \in {"Phi0", "Phi0 again"} -> P0_init(o)
    [] c \in {"Phi1", "Phi1 again"} -> P1_init(o)
    [] c \in {"EC", "EC again"} -> EC_init(o)
    [] c = "FrozenPorous" -> FP_init(o)
    [] c \in {"EqPorous", "DissipativePorous"} -> EP_init(o)
    [] c \in {"Arrhenius", "ArrheniusRT"} -> AR_init(o)
    [] c = "PnRate" -> PN_init(o)
    [] c \in {"IgnitionGrowth", "IgnitionGrowthRT"} -> IGR_init
    [] c \in {"FFrate", "FFQrate"} -> FF_init(o)
    [] c = "HotSpotRate" -> HS_init(o)
    [] c = "HotSpotRate2" -> HS2_init
    [] c = "HotSpotRateExp" -> HSE_init
    [] c = "HotSpotCC_Rate" -> HCC_init(o)
    [] c \in {"HotSpotRateCC", "HotSpotRateCC old"} -> RCC_init(o)
    [] c \in {"ExtEOS", "Hydro"} -> << >>
    [] c = "HEburn2" -> HEB2_init(o)
    [] c \in HEburnClasses -> HEB_init(o)
    [] c \in EqExtClasses -> EQX_init(o)
    [] c \in ShearClasses -> << >>
    [] c = "Elastic1D" -> EL_init(o)
    [] c = "Elastic1D_VT" -> ELT_init(o)
    [] c = "ElasticConstGV" -> EG_init(o, ECG_own(o), ECG_shear(o, o.V_ref))
    [] c = "ElasticConstGV_VT" -> EGT_init(o, ECG_own(o))
    [] c = "ElasticPolyG" -> EG_init(o, EPG_own, EPG_shear(o, o.V_ref))
    [] c = "ElasticPolyG_VT" -> EGT_init(o, EPG_own)
    [] c = "VMrate" -> VMR_init(o)
    [] c = "Polymer" -> POL_init(o)
    [] c = "VonMises1D" -> VM1_init(o)
    [] c = "VonMisesConstGV" -> VMC_init(o)

InitBase(c, o) ==
  InitParams(c, o) \o ByBase(c, << >>, VT_init, EOS_init(o))

BaseConvert(c) == ByBase(c, << >>, VT_convert, EOS_convert)

ConvertParams(c, o) ==
  CASE c \in {"EOS", "EOS_VT"} -> BaseConvert(c)
    [] c = "DavisProducts" -> DP_convert
    [] c = "DavisReactants" -> DR_convert
    [] c \in {"IdealGas", "IdealGas_VT"} -> BaseConvert(c) \o IG_convert
    [] c \in {"StiffenedGas", "StiffenedGas_VT"} -> BaseConvert(c) \o StiffGas_convert
    [] c \in {"Hayes", "Hayes_VT", "HayesBM", "HayesBM_VT"} ->
         BaseConvert(c) \o Hayes_convert
    [] c \in {"BirchMurnaghan", "BirchMurnaghan_VT"} -> BaseConvert(c) \o BM_convert(o)
    [] c \in {"Keane", "Keane_VT"} -> BaseConvert(c) \o KN_convert(o)
    [] c \in {"JWL", "JWL_VT"} -> BaseConvert(c) \o JWL_convert
    [] c \in {"BKW", "BKW_VT"} -> BaseConvert(c) \o BKW_convert
    [] c = "HEfit" -> BaseConvert(c) \o HF_convert(o)
    [] c = "HEprods" -> BaseConvert(c) \o HP_convert
    [] c \in {"UsUp", "UsUp_VT"} -> BaseConvert(c) \o UU_convert(o)
    [] c \in {"UsUpSpline", "UsUpSpline_VT"} -> BaseConvert(c) \o US_convert(o)
    [] c \in {"PeSpline", "PeSpline_VT"} -> BaseConvert(c) \o PS_convert(o)
    [] c = "PTequilibrium" -> PT_convert
    [] c = "PTequilibrium_VT" -> PTT_convert
    [] c = "StiffIdeal" -> SI_convert
    [] c = "StiffIdeal_VT" -> SIT_convert
    [] c \in {"Phi0", "Phi0 again"} -> P0_convert(o)
    [] c \in {"Phi1", "Phi1 again"} -> P1_convert(o)
    [] c \in {"EC", "EC again"} -> PHI_convert(o)
    [] c = "FrozenPorous" -> FP_convert
    [] c \in {"EqPorous", "DissipativePorous"} -> EP_convert
    [] c \in {"Arrhenius", "ArrheniusRT"} -> AR_convert
    [] c = "PnRate" -> PN_convert
    [] c \in {"IgnitionGrowth", "IgnitionGrowthRT"} -> IGR_convert
    [] c \in {"FFrate", "FFQrate"} -> FF_convert(o)
    [] c = "HotSpotRate" -> HS_convert
    [] c = "HotSpotRate2" -> HS2_convert
    [] c = "HotSpotRateExp" -> HSE_convert
    [] c = "HotSpotCC_Rate" -> CL_convert
    [] c \in {"HotSpotRateCC", "HotSpotRateCC old"} -> RCC_convert
    [] c = "ExtEOS" -> EXT_convert
    [] c = "Hydro" -> HYD_convert
    [] c = "HEburn2" -> HEB2_convert
    [] c \in HEburnClasses -> HEB_convert
    [] c = "EqExtEOS HE1" -> EQX_convert(HE1_convert)
    [] c = "EqExtEOS HEQ" -> EQX_convert(HEQ_convert)
    [] c = "EqExtEOS HotSpotHE" -> EQX_convert(HotSpotHE_convert)
    [] c = "EqExtEOS HotSpotHE2" -> EQX_convert(HotSpotHE2_convert)
    [] c = "EqExtEOS HotSpotHE_CC" -> EQX_convert(HotSpotHE_CC_convert)
    [] c = "EqExtEOS HotSpotCC_HE" -> EQX_convert(HotSpotCC_HE_convert)
    [] c = "EqExtEOS PlasticStrain2" -> EQX_convert(PlasticStrain2_convert)
    [] c = "ConstGV" -> CGV_convert
    [] c = "PolyG" -> PG_convert
    [] c = "Elastic1D" -> EL_convert
    [] c = "Elastic1D_VT" -> ELT_convert
    [] c \in {"ElasticConstGV", "ElasticConstGV_VT"} -> ECG_convert(BaseConvert(c))
    [] c \in {"ElasticPolyG", "ElasticPolyG_VT"} -> EPG_convert(BaseConvert(c))
    [] c = "VMrate" -> VMR_convert
    [] c = "Polymer" -> POL_convert
    [] c = "VonMises1D" -> VM1_convert
    [] c = "VonMisesConstGV" -> VMC_convert

\* Every function of the object, its reference state included.
Own(c, o) ==
  CASE c = "EOS" -> EOS_functions(o)
    [] c = "EOS_VT" -> VT_functions
    [] c = "DavisProducts" -> DP_functions(o)
    [] c = "DavisReactants" -> DR_functions(o)
    [] c = "IdealGas" -> IG_functions(o)
    [] c = "IdealGas_VT" -> IGT_functions(o)
    [] c = "StiffenedGas" -> SG_functions(o)
    [] c = "StiffenedGas_VT" -> SGT_functions(o)
    [] c = "Hayes" -> HY_functions(o)
    [] c = "Hayes_VT" -> HYT_functions(o)
    [] c = "HayesBM" -> HB_functions(o)
    [] c = "HayesBM_VT" -> HBT_functions(o)
    [] c = "BirchMurnaghan" -> GH_functions(o, BM_cold(o, U.V))
    [] c = "BirchMurnaghan_VT" -> GHT_functions(o, BM_cold(o, U.V))
    [] c = "Keane" -> GH_functions(o, KN_cold(o, U.V))
    [] c = "Keane_VT" -> GHT_functions(o, KN_cold(o, U.V))
    [] c = "JWL" -> JWL_functions(o)
    [] c = "JWL_VT" -> JWLT_functions(o)
    [] c = "BKW" -> BKW_functions(o)
    [] c = "BKW_VT" -> BKWT_functions(o)
    [] c = "HEfit" -> HF_functions(o)
    [] c = "HEprods" -> HP_functions(o)
    [] c = "UsUp" -> MG_functions(o, UU_ref(o))
    [] c = "UsUp_VT" -> MGT_functions(o, UU_ref(o))
    [] c = "UsUpSpline" -> MG_functions(o, US_ref(o))
    [] c = "UsUpSpline_VT" -> MGT_functions(o, US_ref(o))
    [] c = "PeSpline" -> MG_functions(o, PS_ref(o))
    [] c = "PeSpline_VT" -> MGT_functions(o, PS_ref(o))
    [] c = "PTequilibrium" -> PT_functions(o)
    [] c = "PTequilibrium_VT" -> PTT_functions(o)
    [] c = "StiffIdeal" -> SI_functions(o)
    [] c = "StiffIdeal_VT" -> SIT_functions(o)
    [] c \in {"Phi0", "Phi0 again"} -> P0_functions(o)
    [] c \in {"Phi1", "Phi1 again"} -> P1_functions(o)
    [] c \in {"EC", "EC again"} -> EC_functions(o)
    [] c = "FrozenPorous" -> FP_functions(o)
    [] c = "EqPorous" -> EP_functions(o)
    [] c = "DissipativePorous" -> DSP_functions(o)
    [] c = "Arrhenius" -> AR_functions(o)
    [] c = "ArrheniusRT" -> ART_functions(o)
    [] c = "PnRate" -> PN_functions(o)
    [] c = "IgnitionGrowth" -> IGR_functions(o)
    [] c = "IgnitionGrowthRT" -> IGRT_functions(o)
    [] c = "FFrate" -> FF_functions(o)
    [] c = "FFQrate" -> FFQ_functions(o)
    [] c = "HotSpotRate" -> HS_functions(o)
    [] c = "HotSpotRate2" -> HS2_functions(o)
    [] c = "HotSpotRateExp" -> HSE_functions(o)
    [] c = "HotSpotCC_Rate" -> HCC_functions(o)
    [] c \in {"HotSpotRateCC", "HotSpotRateCC old"} -> RCC_functions(o)
    [] c = "ExtEOS" -> EXT_functions(o)
    [] c = "Hydro" -> HYD_functions(o)
    [] c = "HEburn2" -> HEB2_functions(o)
    [] c \in HEburnClasses -> HEB_functions(o)
    [] c \in EqExtClasses -> EQX_functions(o)
    [] c = "ConstGV" -> CGV_functions(o)
    [] c = "PolyG" -> PG_functions(o)
    [] c = "Elastic1D" -> EL_functions(o)
    [] c = "Elastic1D_VT" -> ELT_functions(o)
    [] c = "ElasticConstGV" -> EG_functions(o, ECG_shear(o, U.V))
    [] c = "ElasticConstGV_VT" -> EGT_functions(o, ECG_shear(o, U.V))
    [] c = "ElasticPolyG" -> EG_functions(o, EPG_shear(o, U.V))
    [] c = "ElasticPolyG_VT" -> EGT_functions(o, EPG_shear(o, U.V))
    [] c = "VMrate" -> VMR_functions(o)
    [] c = "Polymer" -> POL_functions(o)
    [] c = "VonMises1D" -> VM1_functions(o)
    [] c = "VonMisesConstGV" -> VMC_functions(o)

Functions(c, o) ==
  Own(c, o) @@ ByBase(c, << >>, VT_base(o), EOS_base(o))

\* The wave curves a class makes for itself.
OwnCurves(c, o) ==
  CASE c = "EOS" -> EOS_curves
    [] c = "IdealGas" -> IG_curves(o)
    [] c = "StiffenedGas" -> SG_curves(o)
    [] c = "Hayes" -> HY_curves(o)
    [] c = "JWL" -> JWL_curves(o.omega)
    [] c = "BKW" -> JWL_curves(BKW_G(o, U.V))
    [] c = "HEfit" -> HF_curves(o)
    [] c = "FrozenPorous" -> FP_curves(o)
    [] c = "EqPorous" -> EP_curves(o)
    [] c = "DissipativePorous" -> DSP_curves(o)
    [] OTHER -> << >>

-----------------------------------------------------------------------------
(* What ConvertUnits takes of the classes cs: the members and, as functions *)
(* of the object, what its virtual functions do with them.                 *)
ClassTable(cs) ==
  [ c \in cs |->
      LET Objects == [DOMAIN Constructor(c) -> Seq(Int)]
      IN  [ start |-> Constructor(c), hidden |-> Hidden(c), locals |-> Locals(c),
            parts |-> Parts(c), kept |-> [o \in Objects |-> Kept(c, o)],
            InitBase |-> [o \in Objects |-> InitBase(c, o)],
            ConvertParams |-> [o \in Objects |-> ConvertParams(c, o)],
            functions |-> [o \in Objects |-> Functions(c, o)],
            curves |-> [o \in Objects |-> OwnCurves(c, o)] ] ]

=============================================================================
