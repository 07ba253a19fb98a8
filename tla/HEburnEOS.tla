----------------------------- MODULE HEburnEOS ------------------------------
(***************************************************************************)
(* Extended equations of state: functions of (V, e) and of internal        *)
(* degrees of freedom z.  ExtEOS keeps z_ref, the values z has in the      *)
(* reference state.                                                        *)
(***************************************************************************)
EXTENDS HErates

\* The functions of (V, e, z) repeat those of class EOS with z fixed; P(V, e)
\* and the rest put z_f(V, e) in: z_ref, or where it is not frozen the
\* equilibrium.
EXT_start == EOS_start @@ [ z_ref |-> OldUnits ]
EXT_convert == << Part("z_ref") >> \o EOS_convert
EXT_functions(o) == EOS_functions(o)

-----------------------------------------------------------------------------
(* The kinds of z (class IDOF) of burning explosives: the z[i] that are no  *)
(* pure numbers.  z = 0 unless a parameter of the name is given.           *)

HE1          == {}
HEQ          == {"z_Q"}
HotSpotHE    == {"z_Ps", "z_ts"}
HotSpotHE2   == {"z_Ps", "z_Ts", "z_ts", "z_s0"}
HotSpotHE_CC == {"z_Ps", "z_ts"}
HotSpotCC_HE == {"z_Ps", "z_ts", "z_e_cc"}

\* PlasticStrain1 is the strain alone; PlasticStrain2 adds a rate.
PlasticStrain1 == {}
PlasticStrain2 == {"z_tauinv"}
IDOF_entries   == HEQ \cup HotSpotHE2 \cup HotSpotCC_HE \cup PlasticStrain2

IDOF_start(z) == [ x \in z |-> Free ]

\* IDOF::ConvertParams
HE1_convert          == << >>
HEQ_convert          == << Factors({"P"}), Scale({"z_Q"}, U.P) >>
HotSpotHE_convert    == << Factors({"P", "t"}), Scale({"z_Ps"}, U.P), Scale({"z_ts"}, U.t) >>
HotSpotHE2_convert   ==
  << Factors({"P", "T", "t"}), Scale({"z_Ps"}, U.P), Scale({"z_Ts"}, U.T),
     Scale({"z_ts"}, U.t), Scale({"z_s0"}, One // U.t) >>
HotSpotHE_CC_convert == << Factors({"P", "t"}), Scale({"z_Ps"}, U.P), Scale({"z_ts"}, U.t) >>
HotSpotCC_HE_convert ==
  << Factors({"P", "t", "e"}), Scale({"z_Ps"}, U.P), Scale({"z_ts"}, U.t),
     Scale({"z_e_cc"}, U.e) >>
PlasticStrain2_convert == << Factors({"t"}), Scale({"z_tauinv"}, One // U.t) >>

\* ExtEOS::get_zref
zref(o) == [ x \in DOMAIN o \cap IDOF_entries |-> o[x] ]

-----------------------------------------------------------------------------
(* HEburn: a mixture HE whose fraction of products is z's lambda, and the  *)
(* rate at which it burns.  The rate has a mixture of its own, made of the *)
(* same components.                                                        *)

HEB_start(z) ==
  EOS_start @@ IDOF_start(z)
    @@ [ reactants |-> Unset, products |-> Unset, HErate |-> Unset, HE |-> OldUnits,
         rate |-> OldUnits ]
HEB_hidden == {"HE", "rate"}

HEB_init(o) ==
  << Need({"reactants"}), Need({"products"}), SolveIf(TRUE, {}),
     PutIf(~Is(o.V_ref), "V_ref", In(o.HE, U.V)), PutIf(~Is(o.e_ref), "e_ref", In(o.HE, U.e)),
     Need({"HErate"}), SolveIf(TRUE, {}) >>

\* The override does not call ExtEOS::ConvertParams: z_ref stays as it was.
HEB_convert == EOS_convert \o << Part("HE"), Part("rate") >>

\* A copy shares HE and has a copy of the rate.
HEB_copy(o) == IF Aborted \in {o.HE, o.rate} THEN Aborted ELSE NewCopy

\* Once HE has the lambda of z: T, S and Gamma are those of one component where
\* the mixture has none.
HEB_at(o, V, e, want) == x_Ve(o.HE, V, e, want)
HEB_burn(o, V, e, want) == x_Ve(o.rate, V, e, want)

HEB_functions(o) ==
  LET V == U.V
      e == U.e
      at(want) == HEB_at(o, V, e, want)
      burn(want) == HEB_burn(o, V, e, want)
  IN  [ P |-> at(U.P), T |-> at(U.T), S |-> at(U.S), c2 |-> at(U.u^^2), Gamma |-> at(One),
        CV |-> at(U.Cv), CP |-> at(U.Cv), KT |-> at(U.P), beta |-> at(U.beta), FD |-> at(One),
        NotInDomain |-> at(One), e_PV |-> Call(o.HE, U.P, U.P, V, U.V, U.e),
        dPdlambda |-> at(U.P), dTdlambda |-> at(U.T), zdot |-> burn(One // U.t),
        TimeStep |-> burn(U.t), Dt |-> burn(U.t), copy |-> HEB_copy(o) ]
        @@ zref(o) @@ EXT_functions(o)

-----------------------------------------------------------------------------
(* HEburn2: z gives lambda and lambda2; the products have the energy of the *)
(* clusters, -e2(lambda2) of the rate, taken off theirs.                   *)

HEB2_init(o) == HEB_init(o)
HEB2_convert == EOS_convert \o << Part("HE"), Part("rate") >>

HEB2_de(o) == In(o.rate, U.e)
HEB2_at(o, V, e, want) ==
  Guard({HEB2_de(o) ++ In(o.HE, U.e)})
    ** (x_Ve(o.HE, V, e, want) ++ x_Ve(o.HE, V, e ++ In(o.HE, U.e), want))

HEB2_functions(o) ==
  LET at(want) == HEB2_at(o, U.V, U.e, want)
  IN  [ P |-> at(U.P), T |-> at(U.T), S |-> at(U.S), c2 |-> at(U.u^^2), Gamma |-> at(One),
        CV |-> at(U.Cv), CP |-> at(U.Cv), KT |-> at(U.P), beta |-> at(U.beta), FD |-> at(One),
        NotInDomain |-> at(One),
        e_PV |-> Guard({HEB2_de(o) ++ In(o.HE, U.e)}) ** Call(o.HE, U.P, U.P, U.V, U.V, U.e) ]
        @@ HEB_functions(o)

-----------------------------------------------------------------------------
(* EqExtEOS: an ExtEOS in equilibrium.  It has no z_ref of its own but that *)
(* of exteos, which it converts.                                           *)

EQX_start(z) == EOS_start @@ [ x \in z |-> One ] @@ [ ExtEOS |-> Unset, exteos |-> OldUnits ]
EQX_init(o) ==
  << Need({"ExtEOS"}), SolveIf(TRUE, {}),
     PutIf(~Is(o.V_ref), "V_ref", In(o.exteos, U.V)),
     PutIf(~Is(o.e_ref), "e_ref", In(o.exteos, U.e)) >>
EQX_convert(idof) == idof \o EOS_convert \o << Part("exteos") >>
EQX_functions(o) ==
  LET at(want) == x_Ve(o.exteos, U.V, U.e, want)
  IN  [ P |-> at(U.P), T |-> at(U.T), S |-> at(U.S), c2 |-> at(U.u^^2), Gamma |-> at(One),
        CV |-> at(U.Cv), CP |-> at(U.Cv), KT |-> at(U.P), beta |-> at(U.beta), FD |-> at(One),
        NotInDomain |-> at(One) ]
        @@ zref(o) @@ EXT_functions(o)

-----------------------------------------------------------------------------
(* Hydro: an EOS seen as an ExtEOS without degrees of freedom.  The         *)
(* constructor copies the reference state and the tolerances of the EOS.   *)

HYD_start == [ V_ref |-> One, e_ref |-> One, hydro |-> OldUnits ] @@ EOS_start
HYD_convert == EOS_convert \o << Part("hydro") >>
HYD_functions(o) ==
  LET at(want) == x_Ve(o.hydro, U.V, U.e, want)
  IN  [ P |-> at(U.P), T |-> at(U.T), S |-> at(U.S), c2 |-> at(U.u^^2), Gamma |-> at(One),
        CV |-> at(U.Cv), CP |-> at(U.Cv), KT |-> at(U.P), beta |-> at(U.beta), FD |-> at(One),
        NotInDomain |-> at(One), e_PV |-> Call(o.hydro, U.P, U.P, U.V, U.V, U.e),
        PT |-> Guard({Call(o.hydro, U.P, U.P, U.T, U.T, One)}) ]
        @@ EXT_functions(o)

=============================================================================
