----------------------------- MODULE GenHayesEOS ----------------------------
(***************************************************************************)
(* The generalized Hayes form: a cold curve Pc, ec, a Debye temperature    *)
(* theta(V) and a specific heat SCv(T/theta), with the cold curves of      *)
(* Birch-Murnaghan and of Keane, each as functions of (V, e) and (V, T).   *)
(*                                                                         *)
(* IntSCv_ODE integrates SCv and keeps the steps it took: y is their unit, *)
(* Free while there is none.                                               *)
(***************************************************************************)
EXTENDS EOSbasics

GenHayesParams ==
  [ V0 |-> Unset, e0 |-> Unset, K0 |-> Unset, Kp0 |-> Unset, a |-> Unset, b |-> Unset,
    theta0 |-> One, eps1 |-> One, Cv |-> One, cv |-> Unset, eps_abs |-> One,
    Vmax |-> Unset, Pmin |-> Unset, ode_abs |-> One, y |-> Free ]

\* Mutant: the steps are kept.
InitODE_steps_kept(o) == << Put("ode_abs", o.eps_abs) >>
\* InitODE(eps_abs, eps_rel)
InitODE(o) == << Put("ode_abs", o.eps_abs), Put("y", Free) >>

-----------------------------------------------------------------------------
(* theta and the specific heat.                                            *)

GH_eps(o, V) == (V // o.V0 ++ One) // o.eps1

GH_theta(o, V) ==
  LET up == o.a ** Pure(V // o.V0)
              ++ o.b ** o.eps1 ** Pure(GH_eps(o, V) ++ Sqrt(One ++ GH_eps(o, V)^^2))
  IN  Guard({V -- o.V0}) **
        o.theta0 ** (Pow(o.V0 // V, o.a) ** Pure(o.b ** ((o.V0 ++ V) // o.V0)) ++ Pure(up))

GH_Dln_theta(o, V) ==
  Guard({V -- o.V0}) **
    (o.a // V ++ o.b // o.V0 ++ (o.b // o.V0) // Sqrt(One ++ GH_eps(o, V)^^2))

GH_D2theta(o, V) ==
  LET e2  == One ++ GH_eps(o, V)^^2
      sqe == Sqrt(e2)
      GammaV  == o.a // V ++ (o.b // o.V0) // sqe
      dGammaV == o.a // V^^2 ++ ((o.b // o.V0^^2) ** GH_eps(o, V)) // (o.eps1 ** sqe ** e2)
  IN  Guard({V -- o.V0}) **
        (((o.a ++ o.b ** (V // o.V0))^^2 ++ o.a) // V^^2 ++ GammaV^^2 ++ dGammaV)

GH_SCv(o, sT) == (o.Cv ** sT^^3) // (((o.cv ** sT ++ o.cv) ** sT ++ o.cv) ** sT ++ o.cv)

\* IntSCv_ODE: y' = (SCv, SCv/sT), error y0 - y1 relative to y0 + y1 + eps_abs.
GH_step(o, sT) ==
  LET y == o.y ++ GH_SCv(o, sT)
  IN  Guard({y -- (y ++ o.ode_abs)}) ** y
GH_IntSCv(o, sT)   == GH_step(o, Pure(sT))
GH_IntSCvT(o, sT)  == GH_step(o, Pure(sT))
GH_InvIntSCv(o, C) == Guard({C -- GH_step(o, One)})

-----------------------------------------------------------------------------
(* GenHayes and GenHayes_VT over a cold curve c.                           *)

GH_functions(o, c) ==
  LET V  == U.V
      de == U.e ++ c.ec
      T  == GH_theta(o, V) ** GH_InvIntSCv(o, de // GH_theta(o, V))
      sT == T // GH_theta(o, V)
      c2 == V^^2 ** (GH_D2theta(o, V) ** de ++ c.dPc)
  IN  [ P |-> c.Pc ++ GH_Dln_theta(o, V) ** de, T |-> T, CV |-> GH_SCv(o, Pure(sT)),
        S |-> GH_IntSCvT(o, sT), c2 |-> c2, Gamma |-> V ** GH_Dln_theta(o, V),
        e_PV |-> c.ec ++ (U.P ++ c.Pc) // GH_Dln_theta(o, V),
        NotInDomain |-> Guard({c2}) ]

GHT_functions(o, c) ==
  LET V  == U.V
      T  == U.T
      th == GH_theta(o, V)
      sT == Pure(T // th)
      D  == GH_Dln_theta(o, V)
  IN  [ P |-> c.Pc ++ th ** D ** GH_IntSCv(o, sT), e |-> c.ec ++ th ** GH_IntSCv(o, sT),
        S |-> GH_IntSCvT(o, sT), CV |-> GH_SCv(o, sT), Gamma |-> V ** D,
        P_V |-> c.dPc ++ GH_D2theta(o, V) ** GH_IntSCv(o, sT) ++ D^^2 ** T ** GH_SCv(o, sT),
        P_T |-> D ** GH_SCv(o, sT),
        F |-> c.ec ++ T ** GH_IntSCvT(o, sT) ++ th ** GH_IntSCv(o, sT) ]

\* e(V_ref, T_ref), P(V_ref, T_ref): T_ref is a number of the parameter block.
GH_eth_ref(o) == GH_theta(o, o.V_ref) ** GH_IntSCv(o, Free // GH_theta(o, o.V_ref))

-----------------------------------------------------------------------------
(* Birch-Murnaghan.                                                        *)

BMparams == GenHayesParams @@ [ e1 |-> Unset ]
BM_start  == EOS_start @@ BMparams @@ [ V_PTref |-> Unset ]
BMT_start == VT_start @@ BMparams

BM_Pc0(o, eta) ==
  LET eta2 == Pow(eta, One)
  IN  o.K0 ** (eta ** eta2^^3 ++ eta ** eta2^^2) ** (One ++ (o.Kp0 ++ One) ** (eta2 ++ One))
BM_ec0(o, eta) ==
  LET eta2 == Pow(eta, One)
  IN  o.e0 ++ o.V0 ** o.K0 ** (eta2^^2 ++ eta2 ++ One
                ++ (o.Kp0 ++ One) ** (eta^^2 ++ eta2 ++ eta2^^2 ++ One))

BM_Pc(o, V) == Guard({V -- o.Vmax}) ** (o.Pmin ++ BM_Pc0(o, o.V0 // V))
BM_dPc(o, V) ==
  LET eta  == o.V0 // V
      eta2 == Pow(eta, One)
      eta5 == eta ** eta2
  IN  Guard({V -- o.Vmax}) ** (o.K0 // V)
        ** ((eta5 ** eta2 ++ eta5) ** (One ++ (o.Kp0 ++ One) ** (eta2 ++ One))
              ++ (eta5 ** eta2 ++ eta5) ** (o.Kp0 ++ One) ** eta2)
BM_ec(o, V) ==
  Guard({V -- o.Vmax}) ** (o.e1 ++ o.Pmin ** (o.Vmax ++ V) ++ BM_ec0(o, o.V0 // V))
BM_cold(o, V) == [ Pc |-> BM_Pc(o, V), dPc |-> BM_dPc(o, V), ec |-> BM_ec(o, V) ]

\* ParamsOK: where dPc vanishes.
BM_ParamsOK(o) ==
  LET A   == o.Kp0 ++ One
      x   == One ++ A
      eta == Pow(One ++ (x ++ Sqrt(x^^2 ++ A)) // A, One)
  IN  << Need({"V0", "e0", "K0", "Kp0", "a", "b", "cv"}),
         Put("Pmin", BM_Pc0(o, eta)), Put("Vmax", o.V0 // eta), Put("e1", BM_ec0(o, eta)) >>

\* With V_PTref: V0 is solved for so that P(V_PTref, T_ref) is P_ref, which is
\* then taken from the base class.
BM_init(o) ==
  LET PT == Is(o.V_PTref)
  IN  BM_ParamsOK(o) \o InitODE(o) \o
      << PutIf(~Is(o.V_ref), "V_ref", o.V0),
         PutIf(~Is(o.e_ref), "e_ref", BM_ec(o, o.V_ref) ++ GH_eth_ref(o)),
         NeedIf(PT, {"P_ref"}), PutIf(PT, "V_ref", o.V_PTref),
         SolveIf(PT, {"V0", "Pmin", "Vmax", "e1"}),
         PutIf(PT, "e_ref", BM_ec(o, o.V_ref) ++ GH_eth_ref(o)),
         Put("P_vac", o.P_vac ++ o.Pmin), PutIf(PT, "P_ref", Unset) >>
BMT_init(o) ==
  BM_ParamsOK(o) \o InitODE(o) \o << PutIf(~Is(o.V_ref), "V_ref", o.V0), Need({"T_ref"}) >>

\* Mutant: Pmin is forgotten.
BM_convert_no_Pmin(o) ==
  << Factors({"V", "e", "T"}), Scale({"V0"}, U.V), Scale({"e0"}, U.e),
     Scale({"K0"}, U.e // U.V), Scale({"theta0"}, U.T),
     Scale({"Cv", "eps_abs"}, U.e // U.T), Scale({"Vmax"}, U.V),
     Scale({"e1"}, U.e) >> \o InitODE(o)
BM_convert(o) ==
  << Factors({"V", "e", "T"}), Scale({"V0"}, U.V), Scale({"e0"}, U.e),
     Scale({"K0"}, U.e // U.V), Scale({"theta0"}, U.T),
     Scale({"Cv", "eps_abs"}, U.e // U.T), Scale({"Vmax"}, U.V),
     Scale({"Pmin"}, U.e // U.V), Scale({"e1"}, U.e) >> \o InitODE(o)

-----------------------------------------------------------------------------
(* Keane: one set of coefficients above V1, one below; V1 = 0 (Free) when  *)
(* there is only the first.                                                *)

KNparams ==
  [ e0 |-> Free ] @@ GenHayesParams @@
  [ P0 |-> Free, Kp0infty |-> Unset, V1 |-> Free, e1 |-> Free, P1 |-> Free, K1 |-> Free,
    Kp1 |-> Unset, Kp1infty |-> Unset, emin |-> Unset ]
KN_start  == EOS_start @@ KNparams @@ [ P0_ref |-> Unset ]
KNT_start == VT_start @@ KNparams

KN_two(o) == o.V1 # Free
KN_0(o) == [ V |-> o.V0, P |-> o.P0, e |-> o.e0, K |-> o.K0, Kp |-> o.Kp0, Ki |-> o.Kp0infty ]
KN_1(o) == [ V |-> o.V1, P |-> o.P1, e |-> o.e1, K |-> o.K1, Kp |-> o.Kp1, Ki |-> o.Kp1infty ]

KN_Pk(k, V) ==
  LET r == k.Kp // k.Ki
  IN  k.P ++ k.K ** ((r // k.Ki) ** (Pow(k.V // V, k.Ki) ++ One)
                       ++ (r ++ One) ** Pure(k.V // V))
KN_dPk(k, V) == (k.K // V) ** (One ++ (k.Kp // k.Ki) ** (Pow(k.V // V, k.Ki) ++ One))
KN_ek(k, V) ==
  LET r   == k.Kp // k.Ki
      eta == k.V // V
  IN  k.e ++ k.P ** (k.V ++ V)
        ++ k.V ** k.K ** ((r // k.Ki) ** ((Pow(eta, k.Ki ++ One) ++ One) // (k.Ki ++ One)
                                            ++ (eta ++ One) // eta)
                            ++ (r ++ One) ** ((One ++ Pure(eta)) // eta ++ One))

\* On both sides of V1, up to Vmax.
KN_sides(o, V, f(_, _)) ==
  Guard({V -- o.Vmax, V -- o.V1}) **
    (f(KN_0(o), V) ++ IF KN_two(o) THEN f(KN_1(o), V) ELSE Free)

KN_Pc(o, V)  == o.Pmin ++ KN_sides(o, V, KN_Pk)
KN_dPc(o, V) == KN_sides(o, V, KN_dPk)
KN_ec(o, V)  == o.emin ++ o.Pmin ** (o.Vmax ++ V) ++ KN_sides(o, V, KN_ek)
KN_cold(o, V) == [ Pc |-> KN_Pc(o, V), dPc |-> KN_dPc(o, V), ec |-> KN_ec(o, V) ]

\* The comparisons with Kp1 and Kp1infty let NaN pass.
KN_ParamsOK(o) ==
  LET r == o.Kp0 // o.Kp0infty
      x == Pow(r // (r ++ One), One // o.Kp0infty)
  IN  << Need({"V0", "e0", "K0", "Kp0", "Kp0infty", "a", "b", "cv"}),
         Put("Vmax", o.V0 ** x),
         Put("Pmin", o.P0 ++ o.K0 ** (One // o.Kp0infty ++ (r ++ One) ** Pure(x))),
         Put("emin", o.e0 ++ o.P0 ** (o.V0 ++ o.Vmax)
                      ++ o.V0 ** o.K0 ** ((r // o.Kp0infty)
                           ** ((r ++ One) ** (x // (r ** (o.Kp0infty ++ One))) ++ x ++ One)
                           ++ (r ++ One) ** (x ** (One ++ Pure(x)) ++ One))) >>
KN_set_ePK1(o) ==
  LET k == KN_0(o)
  IN  IF KN_two(o)
      THEN << Put("P1", KN_Pk(k, o.V1)), Put("e1", KN_ek(k, o.V1)),
              Put("K1", k.K ** (One ++ (k.Kp // k.Ki) ** (Pow(k.V // o.V1, k.Ki) ++ One))) >>
      ELSE << >>

\* With P0_ref: P0 is shifted so that P(V_ref, T_ref) is P0_ref.
KN_init(o) ==
  LET shift == Is(o.P0_ref)
  IN  KN_ParamsOK(o) \o KN_set_ePK1(o) \o InitODE(o) \o
      << PutIf(~Is(o.V_ref), "V_ref", o.V0),
         PutIf(~Is(o.e_ref), "e_ref", KN_ec(o, o.V_ref) ++ GH_eth_ref(o)),
         PutIf(shift, "e_ref", GH_eth_ref(o) ++ KN_ec(o, o.V_ref)),
         PutIf(shift, "P0", o.P0 ++ o.P0_ref ++ KN_Pc(o, o.V_ref)
                              ++ GH_Dln_theta(o, o.V_ref) ** GH_eth_ref(o)),
         PutIf(shift, "Pmin", o.Pmin ++ o.P0),
         PutIf(shift, "emin", o.emin ++ o.P0 ** (o.V0 ++ o.Vmax)),
         PutIf(shift, "P_ref", Unset) >> \o KN_set_ePK1(o)
      \o << Put("P_vac", o.P_vac ++ o.Pmin) >>
KNT_init(o) ==
  KN_ParamsOK(o) \o KN_set_ePK1(o) \o InitODE(o)
    \o << PutIf(~Is(o.V_ref), "V_ref", o.V0), Need({"T_ref"}) >>

KN_convert(o) ==
  << Factors({"V", "e", "T"}), Scale({"V0", "V1"}, U.V), Scale({"e0", "e1"}, U.e),
     Scale({"P0", "P1", "K0", "K1"}, U.e // U.V), Scale({"theta0"}, U.T),
     Scale({"Cv", "eps_abs"}, U.e // U.T), Scale({"Vmax"}, U.V),
     Scale({"Pmin"}, U.e // U.V), Scale({"emin"}, U.e) >> \o InitODE(o)

=============================================================================
