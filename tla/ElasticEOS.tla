----------------------------- MODULE ElasticEOS -----------------------------
(***************************************************************************)
(* Elastic solids in uniaxial strain: a hydrostatic equation of state and a *)
(* shear energy that depends on V, T and the elastic strain eps_el.        *)
(***************************************************************************)
EXTENDS EOScurves

\* The part of the strain that is elastic; V_ref is where there is none.
Eps_el(o, V) == Pure(V // o.V_ref) ++ o.eps_el_ref

-----------------------------------------------------------------------------
(* Shear1D: ConstGV, where the shear modulus is GV/V, and PolyG, where it   *)
(* is a polynomial of eta = 1 - V/V0; the coefficients are a pressure.     *)

CGV_start     == [ GV |-> Free ]
CGV_convert   == << Factors({"e"}), Scale({"GV"}, U.e) >>
CGV_functions(o) ==
  LET V == U.V
      G == o.GV // V
  IN  [ F |-> o.GV, e |-> o.GV, S |-> Free, Ps |-> Free, Pdev |-> G, dPdev_deps |-> G,
        CV |-> Free, dPdT |-> Free, cT2 |-> o.GV, cs2 |-> o.GV, d2PdV2 |-> o.GV // V^^3 ]

PG_start   == [ V0 |-> Free, G |-> Free ]
PG_convert == << Factors({"V", "P"}), Scale({"V0"}, U.V), Scale({"G"}, U.P) >>
PG_functions(o) ==
  LET V  == U.V
      x  == V // o.V0
      f  == Pure(One ++ x) ** o.G          \* f, and df, d2f, d3f
      d2 == f // V ++ (V // o.V0^^2) ** f ++ (f ++ x ** f ++ x^^2 ** f) // o.V0
                ++ (f ++ x ** f ++ x^^2 ** f) // V
  IN  [ F |-> V ** f, e |-> V ** f, S |-> Free, Ps |-> f ++ x ** f, Pdev |-> f,
        dPdev_deps |-> f, CV |-> Free, dPdT |-> Free,
        cT2 |-> V ** (f ++ x ** f ++ x^^2 ** f), cs2 |-> V ** f, d2PdV2 |-> d2 // V ]

-----------------------------------------------------------------------------
(* Elastic1D and Elastic1D_VT, with any shear.                             *)

EL_start  == EOS_start @@ [ hydro |-> Unset, shear |-> Unset, eps_el_ref |-> Free ]
ELT_start == VT_start @@ [ hydro |-> Unset, shear |-> Unset, eps_el_ref |-> Free ]

EL_init(o) ==
  << Need({"hydro"}), SolveIf(TRUE, {}), Need({"shear"}), SolveIf(TRUE, {}),
     PutIf(~Is(o.V_ref), "V_ref", In(o.hydro, U.V)),
     PutIf(~Is(o.e_ref), "e_ref",
           In(o.hydro, U.e)
             ++ x_VT(o.shear, o.V_ref, x_Ve(o.hydro, In(o.hydro, U.V), In(o.hydro, U.e), U.T), U.e)) >>
ELT_init(o) ==
  << Need({"hydro"}), SolveIf(TRUE, {}), Need({"shear"}), SolveIf(TRUE, {}),
     PutIf(~Is(o.V_ref), "V_ref", In(o.hydro, U.V)),
     PutIf(~Is(o.T_ref), "T_ref", In(o.hydro, U.T)) >>

EL_convert  == << Part("hydro"), Part("shear") >> \o EOS_convert
ELT_convert == << Part("hydro"), Part("shear") >> \o VT_convert

EL_shear(o, V, T, want) == Guard({Eps_el(o, V)}) ** x_VT(o.shear, V, T, want)

\* T where hydro has what shear leaves of e: a step of the secant method.
EL_T(o, V, e) ==
  LET T1  == x_Ve(o.hydro, V, e, U.T)
      de1 == EL_shear(o, V, T1, U.e)
      T2  == x_Ve(o.hydro, V, e ++ de1, U.T)
      de2 == de1 ++ EL_shear(o, V, T2, U.e)
  IN  Guard({de1 ++ e}) ** (T1 ++ (de1 ** T2 ++ de2 ** T1) // (de1 ++ de2))

EL_functions(o) ==
  LET V == U.V
      T == EL_T(o, V, U.e)
      hyd(want) == x_Ve(o.hydro, V, U.e ++ EL_shear(o, V, T, U.e), want)
      sh(want)  == EL_shear(o, V, T, want)
      CV_hyd == hyd(U.Cv)
      CV     == CV_hyd ++ sh(U.Cv)
      G      == (CV_hyd ** hyd(One) ++ V ** sh(U.P // U.T)) // CV
      c2     == (hyd(U.u^^2) ++ hyd(One)^^2 ** CV_hyd ** T) ++ sh(U.u^^2) ++ G^^2 ** T ** CV
      KT     == hyd(U.P) ++ sh(U.u^^2) // V
  IN  [ P |-> hyd(U.P) ++ sh(U.P) ++ sh(U.P), Phydro |-> hyd(U.P), Pshear |-> sh(U.P),
        Pdev |-> sh(U.P), T |-> T, S |-> hyd(U.S) ++ sh(U.S), CV |-> CV, c2 |-> c2,
        Gamma |-> G, NotInDomain |-> Guard({T}), KT |-> KT, CP |-> (CV ** c2) // (V ** KT),
        beta |-> (G ** CV) // (V ** KT), FD |-> EOS_FD(V, U.e) ]
        @@ EOS_functions(o)

ELT_functions(o) ==
  LET V == U.V
      T == U.T
      hyd(want) == x_VT(o.hydro, V, T, want)
      sh(want)  == EL_shear(o, V, T, want)
  IN  [ P |-> hyd(U.P) ++ sh(U.P) ++ sh(U.P), e |-> hyd(U.e) ++ sh(U.e),
        S |-> hyd(U.S) ++ sh(U.S), P_V |-> hyd(U.P // U.V) ++ sh(U.u^^2) // V^^2,
        P_T |-> hyd(U.P // U.T) ++ sh(U.P // U.T), CV |-> hyd(U.Cv) ++ sh(U.Cv),
        F |-> hyd(U.e) ++ sh(U.e), NotInDomain |-> Guard({hyd(U.u^^2), sh(U.u^^2)}) ]
        @@ VT_functions

-----------------------------------------------------------------------------
(* ElasticConstGV and ElasticPolyG: shear is known not to depend on T.  The *)
(* first makes a ConstGV of its own, from Gref, the shear modulus in the   *)
(* reference state of hydro; GV stands for it.                             *)

EG_start  == EOS_start @@ [ hydro |-> Unset, eps_el_ref |-> Free ]
EGT_start == VT_start @@ [ hydro |-> Unset, eps_el_ref |-> Free ]
ECG_start(base) == [ Gref |-> Unset, GV |-> Unset ] @@ base
EPG_start(base) == [ PG |-> Unset ] @@ base

ECG_own(o) == << Put("GV", o.Gref ** In(o.hydro, U.V)), SolveIf(TRUE, {}) >>
EPG_own    == << Need({"PG"}), SolveIf(TRUE, {}) >>

\* What the functions of shear return for V.
ECG_shear(o, V) == CGV_functions(o)
EPG_shear(o, V) ==
  LET at(want) == Call1(o.PG, V, U.V, want)
  IN  [ F |-> at(U.e), e |-> at(U.e), Ps |-> at(U.P), Pdev |-> at(U.P), cT2 |-> at(U.u^^2),
        d2PdV2 |-> at(U.P // U.V^^2) ]

EG_init(o, own, shear) ==
  << Need({"hydro"}), SolveIf(TRUE, {}) >> \o own \o
  << PutIf(~Is(o.V_ref), "V_ref", In(o.hydro, U.V)),
     PutIf(~Is(o.e_ref), "e_ref", In(o.hydro, U.e) ++ shear.e) >>
EGT_init(o, own) ==
  << Need({"hydro"}), SolveIf(TRUE, {}) >> \o own \o
  << PutIf(~Is(o.V_ref), "V_ref", In(o.hydro, U.V)),
     PutIf(~Is(o.T_ref), "T_ref", In(o.hydro, U.T)) >>

ECG_convert(base) == << Part("hydro") >> \o CGV_convert \o base
EPG_convert(base) == << Part("hydro"), Part("PG") >> \o base

EG_functions(o, shear) ==
  LET V == U.V
      ok == Guard({Eps_el(o, V)})
      hyd(want) == x_Ve(o.hydro, V, U.e ++ shear.e, want)
      c2 == hyd(U.u^^2)
  IN  [ P |-> ok ** (hyd(U.P) ++ shear.Pdev ++ shear.Ps), Phydro |-> ok ** hyd(U.P),
        Pshear |-> shear.Ps, Pdev |-> ok ** shear.Pdev, T |-> ok ** hyd(U.T),
        S |-> ok ** hyd(U.S), CV |-> ok ** hyd(U.Cv), c2 |-> ok ** (c2 ++ shear.cT2),
        Gamma |-> ok ** hyd(One), NotInDomain |-> ok ** hyd(One),
        FD |-> ok ** ((c2 ** hyd(One) ++ V^^3 ** shear.d2PdV2) // (c2 ++ shear.cT2)) ]
        @@ EOS_functions(o)

EGT_functions(o, shear) ==
  LET V == U.V
      ok == Guard({Eps_el(o, V)})
      hyd(want) == x_VT(o.hydro, V, U.T, want)
  IN  [ P |-> ok ** (hyd(U.P) ++ shear.Pdev ++ shear.Ps), e |-> ok ** (hyd(U.e) ++ shear.e),
        S |-> hyd(U.S), P_V |-> ok ** (hyd(U.P // U.V) ++ shear.cT2 // V^^2),
        P_T |-> hyd(U.P // U.T), CV |-> hyd(U.Cv), F |-> ok ** (hyd(U.e) ++ shear.F),
        NotInDomain |-> Guard({hyd(U.u^^2), shear.cT2}) ]
        @@ VT_functions

=============================================================================
