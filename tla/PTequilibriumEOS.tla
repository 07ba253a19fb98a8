-------------------------- MODULE PTequilibriumEOS --------------------------
(***************************************************************************)
(* Mixtures of two components in equilibrium of pressure and temperature:  *)
(* PTequilibrium and PTequilibrium_VT for any two equations of state,      *)
(* StiffIdeal and StiffIdeal_VT for a stiffened and an ideal gas.          *)
(***************************************************************************)
EXTENDS EOScurves

-----------------------------------------------------------------------------
(* PTequilibrium.  lambda1 stands for both mass fractions.  The last state *)
(* is kept: 1 and 2 for the components, Vav .. Teq for the mixture.        *)

PT_start == EOS_start @@
  [ eos1 |-> Unset, eos2 |-> Unset, lambda1 |-> Unset, de |-> Free,
    tol |-> One, tol_P |-> Unset, tol_T |-> Unset, P1_ref |-> One, T1_ref |-> One,
    P2_ref |-> One, T2_ref |-> One, V1 |-> One, e1 |-> One, P1 |-> One, T1 |-> One,
    V2 |-> One, e2 |-> One, P2 |-> One, T2 |-> One,
    Vav |-> One, eav |-> One, Peq |-> One, Teq |-> One ]

PT_hidden == { "P1_ref", "T1_ref", "P2_ref", "T2_ref", "V1", "e1", "P1", "T1", "V2",
               "e2", "P2", "T2", "Vav", "eav", "Peq", "Teq" }

\* The state of a component, checked to be in its domain.
PT_state(x, V, e) ==
  LET c2 == x_Ve(x, V, e, U.u^^2)
      G  == x_Ve(x, V, e, One)
      Cv == x_Ve(x, V, e, U.Cv)
      T  == x_Ve(x, V, e, U.T)
  IN  [ P |-> x_Ve(x, V, e, U.P), T |-> Guard({c2 ++ G^^2 ** Cv ** T}) ** T,
        c2 |-> c2, G |-> G, CV |-> Cv ]

\* Derivatives of P and T by V and e in the state c.
PT_dd(V, c) ==
  LET Pe == c.G // V
      Te == One // c.CV
  IN  [ Pe |-> Pe, Te |-> Te, PV |-> Pe ** c.P ++ c.c2 // V^^2,
        TV |-> Te ** c.P ++ Pe ** c.T ]

\* Newton's step of the component x alone (PT1iter, PT2iter), with a step at
\* constant e or V where it leaves the domain.
PT_one(V, c, d, dP, dT) ==
  LET J == d.PV ** d.Te ++ d.Pe ** d.TV
  IN  [ V |-> (d.Te ** dP ++ d.Pe ** dT) // J ++ dP // d.PV,
        e |-> (d.PV ** dT ++ d.TV ** dP) // J ++ dT // d.Te ]

\* The four equations of PT0iter, solved by elimination.
PT_both(y0, y2, d1, d2, dP, dT) ==
  LET r  == d1.TV // d1.PV
      y1 == dP ++ d1.PV ** y0
      y3 == dT ++ d1.TV ** y0 ++ r ** y1 ++ (d1.Te ++ r ** d1.Pe) ** y2
      x3 == y3 // (d2.Te ++ r ** d2.Pe ++ d1.Te ++ r ** d1.Pe)
      x2 == y2 ++ x3
      x1 == (y1 ++ d2.Pe ** x3 ++ d1.Pe ** x2) // (d2.PV ++ d1.PV)
  IN  [ V1 |-> y0 ++ x1, V2 |-> x1, e1 |-> x2, e2 |-> x3 ]

\* PTiter: the kept state is the guess, or (V, e) itself, or the reference
\* states of the components.
PT_iter(o, V, e0) ==
  LET e  == e0 ++ o.lambda1 ** o.de
      V1 == o.V1 ++ V ++ In(o.eos1, U.V)
      V2 == o.V2 ++ V ++ In(o.eos2, U.V)
      e1 == o.e1 ++ e ++ In(o.eos1, U.e)
      e2 == o.e2 ++ e ++ In(o.eos2, U.e)
      c1 == PT_state(o.eos1, V1, e1)
      c2 == PT_state(o.eos2, V2, e2)
      d1 == PT_dd(V1, c1)
      d2 == PT_dd(V2, c2)
      dP == c1.P ++ c2.P
      dT == c1.T ++ c2.T
      o1 == PT_one(V1, c1, d1, dP, dT)
      o2 == PT_one(V2, c2, d2, dP, dT)
      bo == PT_both(V ++ o.lambda1 ** (V1 ++ V2), e ++ o.lambda1 ** (e1 ++ e2), d1, d2, dP, dT)
      ok == Guard({ V ++ o.Vav, e ++ o.eav, dP ++ o.tol ** c1.P ++ o.tol_P,
                    dT ++ o.tol ** c1.T ++ o.tol_T, V1 ++ o1.V ++ bo.V1, V2 ++ o2.V ++ bo.V2,
                    e1 ++ o1.e ++ bo.e1, e2 ++ o2.e ++ bo.e2 })
  IN  [ V1 |-> V1, e1 |-> e1, V2 |-> V2, e2 |-> e2, d1 |-> d1, d2 |-> d2,
        P |-> ok ** (o.Peq ++ o.lambda1 ** (c1.P ++ c2.P)),
        T |-> ok ** (o.Teq ++ o.lambda1 ** (c1.T ++ c2.T)) ]

\* The determinants that Gamma, CV and c2 are made of.
PT_det(d1, d2) == (d1.PV ++ d2.PV) ** (d1.Te ++ d2.Te) ++ (d1.Pe ++ d2.Pe) ** (d1.TV ++ d2.TV)
PT_J(d)        == d.PV ** d.Te ++ d.Pe ** d.TV
PT_GammaV(d1, d2) == (d1.Pe ** PT_J(d2) ++ d2.Pe ** PT_J(d1)) // PT_det(d1, d2)
PT_Cv(d1, d2)     == PT_det(d1, d2) // (d1.Te ** PT_J(d2) ++ d2.Te ** PT_J(d1))

\* A mixture that is one component only, or nearly, asks that component.
PT_pure(o, V, e, want) ==
  x_Ve(o.eos1, V, e, want) ++ x_Ve(o.eos2, V, e ++ o.de, want)

PT_S(o, V, e) ==
  LET s == PT_iter(o, V, e)
  IN  Guard({s.P}) ** o.lambda1
        ** (x_Ve(o.eos1, s.V1, s.e1, U.S) ++ x_Ve(o.eos2, s.V2, s.e2, U.S))
PT_Gamma(o, V, e) ==
  LET s == PT_iter(o, V, e) IN Guard({s.P}) ** V ** o.lambda1 ** PT_GammaV(s.d1, s.d2)
PT_CV(o, V, e) ==
  LET s == PT_iter(o, V, e) IN Guard({s.P}) ** (PT_Cv(s.d1, s.d2) // o.lambda1)
PT_c2(o, V, e) ==
  LET s == PT_iter(o, V, e)
      part(d, x) == (s.P ** d.Pe ++ d.PV) ** PT_J(x)
  IN  V^^2 ** o.lambda1 ** ((part(s.d1, s.d2) ++ part(s.d2, s.d1)) // PT_det(s.d1, s.d2))

\* dP and dT at constant V and e per unit of lambda1.
PT_ddlambda(o, V, e) ==
  LET s  == PT_iter(o, V, e)
      dV == s.V1 ++ s.V2
      dx == s.e1 ++ s.e2
      det == PT_det(s.d1, s.d2)
      sum(f(_)) == f(s.d1) ** PT_J(s.d2) ++ f(s.d2) ** PT_J(s.d1)
      along(d) == dV ** d.PV ++ dx ** d.Pe
      heat(d)  == dV ** d.TV ++ dx ** d.Te
      ok == Guard({s.P})
  IN  [ P |-> ok ** (sum(along) // det ++ o.de ** PT_GammaV(s.d1, s.d2)),
        T |-> ok ** (sum(heat) // det ++ o.de ** PT_Cv(s.d1, s.d2)) ]

PT_e_PV(o, P, V) ==
  Call(o.eos1, P, U.P, V, U.V, U.e) ++ Call(o.eos2, P, U.P, V, U.V, U.e) ++ o.de
    ++ EOS_e_PV(o, P, V)

PT_init(o) ==
  << Need({"lambda1"}), Need({"eos1"}), Need({"eos2"}),
     Put("V1", In(o.eos1, U.V)), Put("e1", In(o.eos1, U.e)),
     Put("V2", In(o.eos2, U.V)), Put("e2", In(o.eos2, U.e)),
     Put("P1_ref", x_Ve(o.eos1, o.V1, o.e1, U.P)), Put("P1", o.P1_ref),
     Put("T1_ref", x_Ve(o.eos1, o.V1, o.e1, U.T)), Put("T1", o.T1_ref),
     Put("P2_ref", x_Ve(o.eos2, o.V2, o.e2, U.P)), Put("P2", o.P2_ref),
     Put("T2_ref", x_Ve(o.eos2, o.V2, o.e2, U.T)), Put("T2", o.T2_ref),
     PutIf(~Is(o.tol_P), "tol_P", In(o.eos1, U.P) ++ In(o.eos2, U.P)),
     PutIf(~Is(o.tol_T), "tol_T", Free),
     PutIf(~Is(o.V_ref), "V_ref", o.lambda1 ** (o.V1 ++ o.V2)),
     PutIf(~Is(o.e_ref), "e_ref", o.lambda1 ** (o.e1 ++ o.e2)) >>

PT_convert ==
  Fatal(EOS_convert \o << Part("eos1"), Part("eos2"), Factors({"V", "e", "P", "T"}) >>)
    \o << Scale({"P1_ref", "P2_ref", "P1", "P2", "Peq", "tol_P"}, U.P),
          Scale({"T1_ref", "T2_ref", "T1", "T2", "Teq", "tol_T"}, U.T),
          Scale({"V1", "V2", "Vav"}, U.V), Scale({"de", "e1", "e2", "eav"}, U.e) >>

PT_functions(o) ==
  LET V == U.V
      e == U.e
      s == PT_iter(o, V, e)
      d == PT_ddlambda(o, V, e)
  IN  [ P |-> PT_pure(o, V, e, U.P) ++ s.P, T |-> PT_pure(o, V, e, U.T) ++ s.T,
        S |-> PT_pure(o, V, e, U.S) ++ PT_S(o, V, e),
        Gamma |-> PT_pure(o, V, e, One) ++ PT_Gamma(o, V, e),
        CV |-> PT_pure(o, V, e, U.Cv) ++ PT_CV(o, V, e),
        c2 |-> PT_pure(o, V, e, U.u^^2) ++ PT_c2(o, V, e),
        FD |-> PT_pure(o, V, e, One) ++ EOS_FD(V, e), e_PV |-> PT_e_PV(o, U.P, V),
        NotInDomain |-> Guard({PT_pure(o, V, e, One), PT_c2(o, V, e)}),
        PT |-> EOS_PT(o, U.P, U.T), dPdlambda |-> d.P, dTdlambda |-> d.T ]

-----------------------------------------------------------------------------
(* PTequilibrium_VT                                                        *)

PTT_start == VT_start @@
  [ eos1 |-> Unset, eos2 |-> Unset, lambda1 |-> Unset, de |-> Free, tol |-> One,
    V1 |-> One, V2 |-> One ]

\* P, which leaves V1 and V2 of the solution.
PTT_iter(o, V, T) ==
  LET V1 == In(o.eos1, U.V) ++ V
      V2 == In(o.eos2, U.V) ++ V
      P1 == x_VT(o.eos1, V1, T, U.P)
      P2 == x_VT(o.eos2, V2, T, U.P)
      K1 == x_VT(o.eos1, V1, T, U.u^^2) // V1^^2
      K2 == x_VT(o.eos2, V2, T, U.u^^2) // V2^^2
      Kav == o.lambda1 ** (K1 ++ K2)
      dV  == V ++ o.lambda1 ** (V1 ++ V2)
      dV1 == (o.lambda1 ** (P1 ++ P2) ++ K2 ** dV) // Kav
      dV2 == (o.lambda1 ** (P1 ++ P2) ++ K1 ** dV) // Kav
  IN  [ P |-> Guard({ (P1 ++ P2) ++ o.tol ** (P1 ++ P2), dV ++ o.tol ** V }) ** (P1 ++ P2),
        V1 |-> V1 ++ dV1, V2 |-> V2 ++ dV2 ]

\* Either component alone.
PTT_pure(o, V, T, want) == x_VT(o.eos1, V, T, want) ++ x_VT(o.eos2, V, T, want)

\* Derivatives of the components; Gamma of the second one is taken at V1.
PTT_dd(o, V, T) ==
  LET s == PTT_iter(o, V, T)
      at(x, v) == [ V |-> v, PV |-> x_VT(x, v, T, U.P // U.V), PT |-> x_VT(x, v, T, U.P // U.T),
                    CV |-> x_VT(x, v, T, U.Cv), G |-> x_VT(x, s.V1, T, One) ]
      a == at(o.eos1, s.V1)
      b == at(o.eos2, s.V2)
      sum == o.lambda1 ** (a.PV ++ b.PV)
  IN  [ ok |-> Guard({s.P}), a |-> a, b |-> b, sum |-> sum,
        PT |-> o.lambda1 ** (a.PV ** b.PT ++ b.PV ** a.PT),
        CV |-> o.lambda1 ** (a.CV ++ b.CV) ** sum
                 ++ o.lambda1^^2 ** ((a.G // a.V) ** a.CV ++ (b.G // b.V) ** b.CV)^^2 ** T ]

PTT_init(o) ==
  << Need({"lambda1"}), Need({"eos1"}), Need({"eos2"}),
     PutIf(~Is(o.V_ref), "V_ref", o.lambda1 ** (In(o.eos1, U.V) ++ In(o.eos2, U.V))),
     PutIf(~Is(o.T_ref), "T_ref", In(o.eos1, U.T) ++ In(o.eos2, U.T)) >>

PTT_convert ==
  << Put("V1", Free), Put("V2", Free) >>
    \o Fatal(VT_convert \o << Part("eos1"), Part("eos2"), Factors({"e"}) >>)
    \o << Scale({"de"}, U.e) >>

PTT_functions(o) ==
  LET V == U.V
      T == U.T
      s == PTT_iter(o, V, T)
      d == PTT_dd(o, V, T)
      x(v1, v2, want) == x_VT(o.eos1, v1, T, want) ++ x_VT(o.eos2, v2, T, want)
  IN  [ P |-> PTT_pure(o, V, T, U.P) ++ s.P,
        e |-> PTT_pure(o, V, T, U.e) ++ o.de ++ d.ok ** o.lambda1 ** x(s.V1, s.V2, U.e),
        S |-> PTT_pure(o, V, T, U.S) ++ d.ok ** o.lambda1 ** x(s.V1, s.V2, U.S),
        P_V |-> PTT_pure(o, V, T, U.P // U.V) ++ d.ok ** ((d.a.PV ** d.b.PV) // d.sum),
        P_T |-> PTT_pure(o, V, T, U.P // U.T) ++ d.ok ** (d.PT // d.sum),
        CV |-> PTT_pure(o, V, T, U.Cv) ++ d.ok ** (d.CV // d.sum),
        Gamma |-> PTT_pure(o, V, T, One) ++ d.ok ** ((V ** d.PT) // d.CV),
        c2 |-> PTT_pure(o, V, T, U.u^^2)
                 ++ d.ok ** V^^2 ** ((d.a.PV ** d.b.PV ++ (d.PT^^2 ** T) // d.CV) // d.sum),
        NotInDomain |-> Guard({PTT_pure(o, V, T, One), d.ok ** d.sum}) ]

-----------------------------------------------------------------------------
(* StiffIdeal: a stiffened gas (1) and an ideal gas (2).  Vav stands for   *)
(* the whole state that is kept: V1, V2, e1, e2, Vav, eav, Peq, Teq.       *)

SI_params ==
  [ lambda1 |-> One, G1 |-> Unset, P_p |-> Free, Cv1 |-> Unset, G2 |-> Unset, Q |-> Free,
    Cv2 |-> Unset, dS |-> Unset, c0 |-> Unset, s |-> Unset, Vav |-> Free ]
SI_start  == EOS_start @@ SI_params @@ [ T_ref |-> One ]
SIT_start == VT_start @@ SI_params @@ [ P_ref |-> Unset, e_ref |-> Unset ]

\* With c0 and s: us = c0 + s up.
SI_given(o) == Is(o.c0) /\ Is(o.s)
SI_need     == << Need({"G1"}), Need({"G2"}), Need({"Cv1"}), Need({"Cv2"}) >>
SI_match(o, P) ==
  << PutIf(SI_given(o), "G1", o.s ++ One),
     PutIf(SI_given(o), "P_p", (o.c0^^2 // o.V_ref) // (o.G1 ++ One) ++ P) >>
SI_init(o) ==
  << NeedIf(SI_given(o), {"V_ref", "P_ref"}) >> \o SI_match(o, o.P_ref)
    \o << PutIf(SI_given(o), "e_ref",
                ((o.P_ref ++ (o.G1 ++ One) ** o.P_p) ** o.V_ref) // o.G1),
          PutIf(SI_given(o), "T_ref", (o.e_ref ++ o.P_p ** o.V_ref) // o.Cv1) >>
    \o SI_need \o << PutIf(~Is(o.dS), "dS", Free ++ o.Q // o.T_ref) >>

\* ConvertParams leaves the members of the base class alone.
SI_convert ==
  << Factors({"Cv", "V", "e"}), Scale({"P_p"}, U.e // U.V), Scale({"Cv1", "Cv2", "dS"}, U.Cv),
     Scale({"Q"}, U.e), Put("Vav", Free) >>

\* PTequil: two pure components, two ideal gases, the root of a quadratic.
SI_state(o, P, T) ==
  LET V1 == (o.G1 ** o.Cv1 ** T) // (P ++ o.P_p)
  IN  [ P |-> P, T |-> T, V1 |-> V1, V2 |-> (o.G2 ** o.Cv2 ** T) // P,
        e1 |-> o.Cv1 ** T ++ o.P_p ** V1, e2 |-> o.Cv2 ** T ++ o.Q ]
SI_Cv(o)  == o.lambda1 ** (o.Cv1 ++ o.Cv2)
SI_GCv(o) == o.lambda1 ** (o.G1 ** o.Cv1 ++ o.G2 ** o.Cv2)
SI_PTequil(o, V, e) ==
  LET eQ == e ++ o.lambda1 ** o.Q
      T0 == eQ // SI_Cv(o)
      a2 == SI_Cv(o) ** V
      a1 == SI_GCv(o) ** eQ ++ (o.G1 ++ One) ** SI_Cv(o) ** o.P_p ** V
      a0 == o.G2 ** o.lambda1 ** o.Cv2 ** eQ ** o.P_p
      P3 == (a1 ++ Sqrt(a1^^2 ++ a0 ** a2)) // a2
      P  == (o.G1 ** e) // V ++ (o.G1 ++ One) ** o.P_p ++ (o.G2 ** (e ++ o.Q)) // V
              ++ (SI_GCv(o) ** T0) // V ++ P3
      T  == (e ++ o.P_p ** V) // o.Cv1 ++ (e ++ o.Q) // o.Cv2 ++ T0 ++ V // (SI_GCv(o) // P3)
      ok == Guard({V ++ o.Vav, P, T})
  IN  SI_state(o, ok ** P, ok ** T)

\* Entropy above the reference state (V_ref, e_ref).
SI_S(o, s, e2_ref) ==
  o.lambda1
    ** (o.Cv1 ** (Pure((s.e1 ++ o.P_p ** s.V1) // (o.e_ref ++ o.P_p ** o.V_ref))
                    ++ o.G1 ** Pure(s.V1 // o.V_ref))
        ++ o.Cv2 ** (Pure(s.e2 // e2_ref) ++ o.G2 ** Pure(s.V2 // o.V_ref)) ++ o.dS)

SI_dd1(o, s) == [ Pe |-> o.G1 // s.V1, PV |-> (o.G1 ** s.e1) // s.V1^^2, Te |-> One // o.Cv1,
                  TV |-> o.P_p // o.Cv1 ]
SI_dd2(o, s) == [ Pe |-> o.G2 // s.V2, PV |-> s.P // s.V2, Te |-> One // o.Cv2, TV |-> Free ]
SI_c2(o, s, V) ==
  LET a == SI_dd1(o, s)
      b == SI_dd2(o, s)
      part(d, x) == (s.P ** d.Pe ++ d.PV) ** (x.PV ** x.Te)
  IN  (o.G1 ++ One) ** (s.P ++ o.P_p) ** s.V1 ++ (o.G2 ++ One) ** s.P ** s.V2
        ++ V^^2 ** o.lambda1 ** ((part(a, b) ++ part(b, a)) // PT_det(a, b))

SI_PT(o, P, T) ==
  LET s == SI_state(o, P, T)
  IN  Guard({ o.lambda1 ** (s.V1 ++ s.V2) ++ U.V, o.lambda1 ** (s.e1 ++ s.e2) ++ U.e })

SI_ddlambda(o, s) ==
  LET V_T == (o.lambda1 ** (s.V1 ++ s.V2)) // s.T
      V_P == o.lambda1 ** (s.V1 // (s.P ++ o.P_p) ++ s.V2 // s.P)
      e_T == o.lambda1 ** (o.Cv1 ++ (o.P_p ** s.V1) // s.T ++ o.Cv2)
      e_P == o.lambda1 ** s.V1 ** (o.P_p // (s.P ++ o.P_p))
      det == V_T ** e_P ++ e_T ** V_P
      dV  == s.V2 ++ s.V1
      de  == s.e2 ++ s.e1
  IN  [ P |-> (V_T ** de ++ e_T ** dV) // det, T |-> (dV ** e_P ++ de ** V_P) // det ]

SI_functions(o) ==
  LET V == U.V
      s == SI_PTequil(o, V, U.e)
      a == SI_dd1(o, s)
      b == SI_dd2(o, s)
      d == SI_ddlambda(o, s)
  IN  [ P |-> s.P, T |-> s.T, S |-> SI_S(o, s, o.e_ref ++ o.Q), c2 |-> SI_c2(o, s, V),
        Gamma |-> o.G1 ++ o.G2 ++ V ** o.lambda1 ** PT_GammaV(a, b),
        CV |-> o.Cv1 ++ o.Cv2 ++ PT_Cv(a, b) // o.lambda1,
        FD |-> o.G1 ++ One ++ o.G2 ++ EOS_FD(V, U.e), NotInDomain |-> Guard({s.P}),
        PT |-> SI_PT(o, U.P, U.T), dPdlambda |-> d.P, dTdlambda |-> d.T ]

-----------------------------------------------------------------------------
(* StiffIdeal_VT                                                           *)

SIT_Pequil(o, V, T) ==
  LET a0 == o.G1 ** o.Cv1 ** T ** V
      a1 == SI_GCv(o) ** T ++ o.P_p ** V
      V1 == (o.G1 ** o.Cv1 ** V) // SI_GCv(o)
              ++ (a1 ++ Sqrt(a1^^2 ++ o.lambda1 ** a0 ** o.P_p)) // (o.P_p ** o.lambda1) ++ V
      V2 == (o.G2 ** o.Cv2 ** V) // SI_GCv(o) ++ (V ++ V1) // o.lambda1
      P  == (o.G1 ** o.Cv1 ** T) // V1 ++ o.P_p ++ (o.G2 ** o.Cv2 ** T) // V2
  IN  SI_state(o, Guard({V ++ o.Vav, P}) ** P, T)

SIT_init(o) ==
  LET s == SIT_Pequil(o, o.V_ref, o.T_ref)
  IN  << Need({"V_ref", "T_ref"}), Put("P_ref", s.P),
         Put("e_ref", o.lambda1 ** (s.e1 ++ s.e2)) >>
        \o SI_match(o, o.P_ref) \o SI_need
        \o << PutIf(~Is(o.dS), "dS", Free ++ o.Q // o.T_ref) >>

SIT_convert ==
  << Factors({"Cv", "V", "e"}), Scale({"P_ref", "P_p"}, U.e // U.V), Scale({"e_ref", "Q"}, U.e),
     Scale({"Cv1", "Cv2", "dS"}, U.Cv), Put("Vav", Free) >>

SIT_functions(o) ==
  LET V == U.V
      T == U.T
      s == SIT_Pequil(o, V, T)
      G1Cv == o.G1 ** o.Cv1
      G2Cv == o.G2 ** o.Cv2
      PV == (G1Cv ** T) // s.V1^^2 ++ (G2Cv ** T) // s.V2^^2
      PT == G1Cv // s.V1 ++ G2Cv // s.V2
      CV == o.Cv1 ++ o.Cv2
  IN  [ P |-> s.P, e |-> o.lambda1 ** (s.e1 ++ s.e2), S |-> SI_S(o, s, o.e_ref),
        P_V |-> ((G1Cv ++ G2Cv) ** T) // V^^2 ++ PV^^2 // (o.lambda1 ** PV),
        P_T |-> (G1Cv ++ G2Cv) // V ++ (PV ** PT) // PV,
        CV |-> CV ++ (o.lambda1 ** PV ** CV) // PV,
        Gamma |-> o.G1 ++ o.G2 ++ V ** ((PV ** PT) // (PV ** CV)),
        c2 |-> (o.G1 ++ One) ** (G1Cv ++ G2Cv) ** T
                 ++ V^^2 ** ((PV^^2 ++ (T // (PV ** CV)) ** (PV ** PT)^^2) // PV),
        NotInDomain |-> Guard({s.P}) ]

=============================================================================
