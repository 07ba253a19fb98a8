------------------------------- MODULE JWLEOS -------------------------------
(***************************************************************************)
(* Detonation products: JWL and BKW, each in (V, e) and in (V, T), and the *)
(* fitting form HEfit, with the detonation and deflagration loci that use  *)
(* that Gamma depends on V only.                                           *)
(***************************************************************************)
EXTENDS EOSdetonation

-----------------------------------------------------------------------------
(* JWLdetonation, BKWdetonation, HEfitdetonation and the deflagrations: G  *)
(* is Gamma at V.                                                          *)

\* The locus at V: the equation for e is linear.
JW_locus(w, V, G) ==
  LET dV == w.V0 ++ V
      P0 == eos_P(V, w.e0)
      de == ((P0 ++ w.P0) ** dV) // (One ++ (dV ** G) // V)
      P  == P0 ++ (G // V) ** de
  IN  [ e |-> w.e0 ++ de, P |-> P, D |-> w.V0 ** Sqrt((P ++ w.P0) // dV) ]

JW_cj(w, G) ==
  LET V == w.V0
      h == JW_locus(w, V, G)
      at == Guard({eos_c(V, h.e) ++ (V // w.V0) ** h.D})
  IN  [ V |-> at ** V, e |-> h.e, P |-> h.P, D |-> h.D, u |-> (One ++ V // w.V0) ** h.D ]

JW_f_pressure(w, V, p) ==
  LET e == w.e0 ++ (p ++ w.P0) ** (w.V0 ++ V) IN [ e |-> e, f |-> eos_P(V, e) ]
JW_f_velocity(w, V, du2) ==
  LET dV == w.V0 ++ V
      e  == w.e0 ++ du2 ++ w.P0 ** dV
  IN  [ e |-> e, f |-> (eos_P(V, e) ++ w.P0) ** dV ]
JW_f_wave_speed(w, V, m2) ==
  LET dV == w.V0 ++ V
      e  == w.e0 ++ m2 ** dV^^2 ++ w.P0 ** dV
  IN  [ e |-> e, f |-> (eos_P(V, e) ++ w.P0) ++ m2 ** dV ]

JW_set(w, V, e, P) ==
  LET D == dir ** w.V0 ** Sqrt((P ++ w.P0) // (w.V0 ++ V))
  IN  Wave(V, e, P, w.u0 ++ (One ++ V // w.V0) ** D, w.u0 ++ D)

JWD_P(w, cj, p) ==
  LET f == JW_f_pressure(w, w.V0, p)
  IN  After({cj.P ++ p},
        ErrorOne \cup CJwave(w, cj)
          \cup After({f.f ++ p}, Ok(JW_set(w, w.V0, f.e, p))))
\* us = u0 + V0/(V0-V1)*u1 where u1 is dir*(u-u0).
JWD_u(w, cj, u) ==
  LET u1 == Forward(u, w.u0)
      V  == w.V0
      f  == JW_f_velocity(w, V, u1^^2)
  IN  After({cj.u ++ u1},
        ErrorOne \cup CJwave(w, cj)
          \cup After({f.f ++ u1^^2},
                     Ok(Wave(V, f.e, eos_P(V, f.e), w.u0 ++ u1,
                             w.u0 ++ (w.V0 // (w.V0 ++ V)) ** u1))))
JWD_u_s(w, cj, us) ==
  LET D == Forward(us, w.u0)
      V == w.V0
      f == JW_f_wave_speed(w, V, (D // w.V0)^^2)
  IN  After({cj.D ++ D},
        ErrorOne \cup CJwave(w, cj)
          \cup After({f.f},
                     Ok(Wave(V, f.e, eos_P(V, f.e),
                             w.u0 ++ (One ++ V // w.V0) ** dir ** D, w.u0 ++ dir ** D))))
JWD_V(w, cj, G, v1) ==
  LET h == JW_locus(w, v1, G)
  IN  After({cj.V ++ v1}, ErrorOne \cup CJwave(w, cj) \cup Ok(JW_set(w, v1, h.e, h.P)))

\* The deflagrations: at Vp0 the pressure is P0 and the gas at rest.
JWF_p0(w) == Ok(Wave(w.V0, w.e0 ++ w.P0 ** (w.V0 ++ w.V0), w.P0, w.u0, w.u0))

JWF_P(w, cj, p) == After({w.P0 ++ p}, JWD_P(w, cj, p))
\* u itself is stored before it is looked at.
JWF_u(w, cj, u) ==
  LET u1 == Forward(u, w.u0)
      V  == w.V0
      f  == JW_f_velocity(w, V, u1^^2)
  IN  After({cj.u ++ u1},
        ErrorOne \cup CJwave(w, cj) \cup JWF_p0(w)
          \cup After({f.f ++ u1^^2},
                     Ok(Wave(V, f.e, eos_P(V, f.e), u,
                             w.u0 ++ (w.V0 // (w.V0 ++ V)) ** u1))))
JWF_u_s(w, cj, us) == JWD_u_s(w, cj, us) \cup JWF_p0(w)
JWF_V(w, cj, G, v1) == JWD_V(w, cj, G, v1) \cup JWF_p0(w)

\* w_u_s returns 1, "To Do".
JWD_curves(G) ==
  LET w  == reactants
      cj == JW_cj(w, G)
      v  == Velocity
  IN  [ detonation_P |-> JWD_P(w, cj, U.P), detonation_u |-> JWD_u(w, cj, v),
        detonation_u_s |-> JWD_u_s(w, cj, v), detonation_w_u_s |-> ErrorOne,
        detonation_V |-> JWD_V(w, cj, G, U.V) ]
JWL_curves(G) ==
  LET w  == reactants
      cj == JW_cj(w, G)
      v  == Velocity
  IN  JWD_curves(G) @@
      [ deflagration_P |-> JWF_P(w, cj, U.P), deflagration_u |-> JWF_u(w, cj, v),
        deflagration_u_s |-> JWF_u_s(w, cj, v), deflagration_V |-> JWF_V(w, cj, G, U.V) ]

-----------------------------------------------------------------------------
(* JWL.  noHeat is Edet <= 0, heat is Edet > 0 /\ de > 0; T0 and S0 are    *)
(* other names of Tcj and Scj.                                             *)

JWLparams ==
  [ V0 |-> Unset, e0 |-> Free, A |-> Unset, R1 |-> Unset, B |-> Unset, R2 |-> Unset,
    C |-> Unset, omega |-> Unset, de |-> Unset, Cv |-> Unset, Tcj |-> Unset,
    Scj |-> Unset, Vcj |-> Unset, Pcj |-> Unset, noHeat |-> Free, heat |-> Free ]
JWL_start  == EOS_start @@ JWLparams @@ [ P0 |-> Free, Edet |-> Free ]
JWLT_start == VT_start @@ JWLparams @@ [ Edet |-> Unset ]

JWL_exp(o, V) ==
  LET v == V // o.V0 IN (o.A // o.R1) ** Pure(o.R1 ** v) ++ (o.B // o.R2) ** Pure(o.R2 ** v)
JWL_Pexp(o, V) ==
  LET v == V // o.V0
      w(R) == (One ++ o.omega // (R ** v)) ** Pure(R ** v)
  IN  o.A ** w(o.R1) ++ o.B ** w(o.R2)
JWL_cexp(o, V) ==
  LET v == V // o.V0
      w(R) == (o.V0 // R) ** ((v ** R)^^2 ++ o.omega) ** Pure(R ** v)
  IN  o.A ** w(o.R1) ++ o.B ** w(o.R2)
JWL_Pref(o, V) ==
  o.A ** Pure((o.R1 ** V) // o.V0) ++ o.B ** Pure((o.R2 ** V) // o.V0)
    ++ o.C ** Pow(o.V0 // V, o.omega ++ One)
JWL_eref(o, V) ==
  o.V0 ** (JWL_exp(o, V) ++ (o.C // o.omega) ** Pow(o.V0 // V, o.omega)) ++ o.de
JWL_Tref(o, V) == o.Tcj ** Pow(o.Vcj // V, o.omega)

JWL_T(o, V, e) == JWL_Tref(o, V) ++ (e ++ JWL_eref(o, V)) // o.Cv
JWL_S(o, V, T) == o.Cv ** (Pure(T // o.Tcj) ++ o.omega ** Pure(V // o.Vcj)) ++ o.Scj
JWL_c2(o, V, e) == JWL_cexp(o, V) ++ o.omega ** (One ++ o.omega) ** (e ++ o.de)
JWL_P(o, V, e) == JWL_Pexp(o, V) ++ (o.omega ** (e ++ o.de)) // V

\* The isentrope through (V0, P0) when there is no heat, else through the CJ
\* state; C, Tcj and Scj may be given.
JWL_isentrope(o, P0) ==
  LET cold == P0 ++ o.A ** Pure(o.R1) ++ o.B ** Pure(o.R2)
      no   == o.noHeat = One
      T0   == JWL_T(o, o.V0, o.e0)
  IN  << PutIf(no, "C", cold), PutIf(no, "Vcj", o.V0),
         PutIf(no /\ ~Is(o.Tcj), "Tcj", ((o.V0 // o.omega) ** cold) // o.Cv),
         PutIf(no /\ ~Is(o.Scj), "Scj", Free),
         PutIf(o.heat = One /\ ~Is(o.C), "C",
               o.omega ** Pow(o.Vcj // o.V0, o.omega)
                 ** ((o.e0 ++ o.de) // o.V0 ++ JWL_exp(o, o.Vcj))),
         PutIf(o.heat = One /\ ~Is(o.Tcj), "Tcj",
               (o.e0 ++ o.de ++ o.V0 ** JWL_exp(o, o.Vcj)) // o.Cv),
         PutIf(o.heat = One /\ ~Is(o.Scj), "Scj",
               o.Edet // T0 ++ o.Cv ** (Pure(T0 // o.Tcj) ++ o.omega ** Pure(o.V0 // o.Vcj))) >>

JWL_need == Need({"V0", "A", "R1", "B", "R2", "omega", "Edet"})
JWL_tests(o) ==
  << Put("de", o.Edet ++ o.e0), PutIf(o.Edet = Free, "noHeat", One),
     TestIf(o.Edet # Free, {"noHeat"}), TestIf(o.noHeat # One, {"heat"}) >>

JWL_init(o) ==
  << JWL_need >> \o JWL_tests(o) \o << SolveIf(o.heat = One, {"Vcj", "Pcj"}) >>
    \o JWL_isentrope(o, o.P0)
    \o << PutIf(o.noHeat = One /\ ~Is(o.e_ref), "e_ref",
                o.V0 ** (JWL_exp(o, o.V0) ++ o.C // o.omega) ++ o.de),
          PutIf(~Is(o.V_ref), "V_ref", o.V0),
          PutIf(~Is(o.e_ref), "e_ref", o.e0) >>

\* JWL HE(*this): nothing is done when C is given; a CJ state that is not found
\* is logged.
JWLT_init(o) ==
  << JWL_need >> \o JWL_tests(o)
    \o << PutIf(Is(o.C), "noHeat", Free), PutIf(Is(o.C), "heat", Free),
          TestIf(o.heat = One, {"Vcj", "Pcj"}) >>
    \o JWL_isentrope(o, o.Pcj)
    \o << PutIf(~Is(o.V_ref), "V_ref", o.V0),
          PutIf(~Is(o.T_ref), "T_ref",
                JWL_Tref(o, o.V_ref) ++ (o.e0 ++ JWL_eref(o, o.V_ref)) // o.Cv) >>

JWL_convert ==
  << Factors({"V", "e", "T"}), Scale({"V0"}, U.V), Scale({"e0"}, U.e),
     Scale({"A", "B", "C"}, U.e // U.V), Scale({"Edet", "de"}, U.e),
     Scale({"Cv", "Scj"}, U.e // U.T), Scale({"Tcj"}, U.T), Scale({"Vcj"}, U.V),
     Scale({"Pcj"}, U.e // U.V) >>

JWL_functions(o) ==
  LET V == U.V
      e == U.e
      v == V // o.V0
      Ae == o.A ** Pure(o.R1 ** v)
      Be == o.B ** Pure(o.R2 ** v)
      Cs == (o.omega ** ((e ++ o.de) // o.V0 ++ Ae // o.R1 ++ Be // o.R2)) // v
      P1 == Ae ** o.R1 ** v ++ Be ** o.R2 ** v ++ Cs ** (o.omega ++ One)
      P2 == Ae ** (o.R1 ** v)^^2 ++ Be ** (o.R2 ** v)^^2
              ++ Cs ** (o.omega ++ One) ** (o.omega ++ One)
      T  == JWL_T(o, V, e)
  IN  [ P |-> JWL_P(o, V, e), e_PV |-> o.de ++ (V ** (U.P ++ JWL_Pexp(o, V))) // o.omega,
        c2 |-> JWL_c2(o, V, e), FD |-> P2 // P1, Gamma |-> o.omega, T |-> T,
        S |-> JWL_S(o, V, T), CV |-> o.Cv,
        NotInDomain |-> Guard({JWL_P(o, V, e) ++ o.P_vac, JWL_c2(o, V, e)}),
        Pref |-> JWL_Pref(o, V) // U.P, eref |-> JWL_eref(o, V) // U.e,
        Tref |-> JWL_Tref(o, V) // U.T ]

JWLT_functions(o) ==
  LET V == U.V
      T == U.T
      e == JWL_eref(o, V) ++ o.Cv ** (T ++ JWL_Tref(o, V))
      c2 == JWL_c2(o, V, e)
      P_V == (o.omega // V)^^2 ** o.Cv ** T ++ c2 // V^^2
  IN  [ P |-> JWL_P(o, V, e), e |-> e, S |-> JWL_S(o, V, T), P_V |-> P_V,
        P_T |-> (o.omega ** o.Cv) // V, CV |-> o.Cv, Gamma |-> o.omega, c2 |-> c2,
        NotInDomain |-> Guard({T, P_V}), Pref |-> JWL_Pref(o, V) // U.P ]

-----------------------------------------------------------------------------
(* BKW: polynomials in log(V/Vunit), log(P/Punit); their coefficients, 0   *)
(* when not given, have no unit.                                           *)

BKWparams ==
  [ V0 |-> Unset, e0 |-> Free, P0 |-> Free, de |-> Free, Cv |-> Unset, Scj |-> Unset,
    Vcj |-> Unset, Pcj |-> Unset, Tcj |-> Unset,
    Punit |-> One, eunit |-> One, Vunit |-> One, Tunit |-> One ]
BKW_start  == EOS_start @@ BKWparams
BKWT_start == VT_start @@ BKWparams

BKW_ln(o, V)   == Pure(V // o.Vunit)
BKW_Pref(o, V) == o.Punit ** BKW_ln(o, V)
BKW_eref(o, V) == o.eunit ** BKW_ln(o, V)
BKW_Tref(o, V) == o.Tunit ** BKW_ln(o, V)
BKW_G(o, V)    == BKW_ln(o, V)

BKW_P(o, V, e) == BKW_Pref(o, V) ++ (BKW_G(o, V) // V) ** (e ++ o.de ++ BKW_eref(o, V))
BKW_T(o, V, e) == BKW_Tref(o, V) ++ (e ++ o.de ++ BKW_eref(o, V)) // o.Cv

BKW_cj(o) ==
  << SolveIf(TRUE, {"Vcj", "Pcj"}), Put("Tcj", BKW_T(o, o.Vcj, o.e0)),
     PutIf(~Is(o.Scj), "Scj", (o.Vcj ** o.Pcj) // o.Tcj) >>
BKW_init(o) ==
  << Need({"V0", "Cv"}) >> \o BKW_cj(o)
    \o << PutIf(~Is(o.V_ref), "V_ref", o.V0), PutIf(~Is(o.e_ref), "e_ref", o.e0) >>
BKWT_init(o) ==
  << Need({"V0", "Cv"}), PutIf(~Is(o.V_ref), "V_ref", o.V0),
     PutIf(~Is(o.T_ref), "T_ref",
           BKW_Tref(o, o.V_ref) ++ (o.e0 ++ o.de ++ BKW_eref(o, o.V_ref)) // o.Cv) >>
    \o BKW_cj(o)

BKW_convert ==
  << Factors({"V", "e", "T"}), Scale({"V0"}, U.V), Scale({"e0"}, U.e),
     Scale({"P0"}, U.e // U.V), Scale({"de"}, U.e), Scale({"Cv", "Scj"}, U.e // U.T),
     Scale({"Vcj"}, U.V), Scale({"Pcj"}, U.e // U.V), Scale({"Tcj"}, U.T),
     Scale({"Punit"}, U.e // U.V), Scale({"eunit"}, U.e), Scale({"Vunit"}, U.V),
     Scale({"Tunit"}, U.T) >>

BKW_functions(o) ==
  LET V  == U.V
      e  == U.e
      G  == BKW_G(o, V)
      de == e ++ o.de ++ BKW_eref(o, V)
      cr == V ** BKW_Pref(o, V) ** BKW_ln(o, V)
      c2 == cr ++ (G ** (G ++ One) ++ BKW_ln(o, V)) ** de
  IN  [ P |-> BKW_P(o, V, e), c2 |-> c2, Gamma |-> G, T |-> BKW_T(o, V, e), CV |-> o.Cv,
        e_PV |-> BKW_eref(o, V) ++ o.de ++ (V ** (U.P ++ BKW_Pref(o, V))) // G,
        FD |-> (cr ++ ((G ++ One) ** (G ** (G ++ One) ++ BKW_ln(o, V))) ** de) // c2,
        S |-> o.Scj ++ o.Cv ** Pure(One ++ de // (o.Cv ** BKW_Tref(o, V))),
        NotInDomain |-> Guard({BKW_P(o, V, e), c2}) ]

BKWT_functions(o) ==
  LET V  == U.V
      T  == U.T
      G  == BKW_G(o, V)
      Tr == BKW_Tref(o, V)
      th == T ++ Tr
      P_V == (BKW_Pref(o, V) ** BKW_ln(o, V)) // V
               ++ (o.Cv ** (th ** (BKW_ln(o, V) ++ G) ++ G ** BKW_ln(o, V) ** Tr)) // V^^2
  IN  [ P |-> BKW_Pref(o, V) ++ (G // V) ** o.Cv ** th,
        e |-> BKW_eref(o, V) ++ o.de ++ o.Cv ** th, S |-> o.Scj ++ o.Cv ** Pure(T // Tr),
        P_V |-> P_V, P_T |-> (G // V) ** o.Cv, CV |-> o.Cv, Gamma |-> G,
        c2 |-> V ** BKW_Pref(o, V) ** BKW_ln(o, V)
                 ++ (G ** (G ++ One) ++ BKW_ln(o, V)) ** o.Cv ** th,
        NotInDomain |-> Guard({T, P_V}) ]

=============================================================================
