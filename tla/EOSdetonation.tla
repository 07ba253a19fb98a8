--------------------------- MODULE EOSdetonation ----------------------------
(***************************************************************************)
(* The default detonation and deflagration loci: waves from a state        *)
(* (V0, e0) of the products at a pressure P0 below P(V0, e0), and the      *)
(* Chapman-Jouguet (CJ) state, where the wave is sonic; the polars.        *)
(***************************************************************************)
EXTENDS EOScurves

\* Initialize(state, p0) of both: state0.T and state0.c stay NaN.
reactants == [ V0 |-> U.V, e0 |-> U.e, P0 |-> U.P, u0 |-> Velocity ]

CJwave(w, cj) ==
  Ok(Wave(cj.V, cj.e, cj.P, w.u0 ++ dir ** cj.u, w.u0 ++ dir ** cj.D))

-----------------------------------------------------------------------------
(* CJstate.                                                                *)

HugV(w, V) ==
  LET Kcv  == eos_KS(w.V0, w.e0)
      e    == w.e0 ++ (w.V0 ++ V) ** (w.P0 ++ Kcv ** (One ++ V // w.V0))
      P    == eos_P(V, e)
      h(x) == x ++ w.e0 ++ (eos_P(V, x) ++ w.P0) ** (w.V0 ++ V)
      e1   == e ++ h(e) // (One ++ (eos_Gamma(V, e) ** (w.V0 ++ V)) // V)
  IN  [ e |-> Guard({h(e1) ++ (e1 ++ w.e0)}) ** e1, P |-> P,
        u |-> Sqrt((P ++ w.P0) ** (w.V0 ++ V)) ]

\* The wave speed is compared with the sound speed behind the wave.
sonic(w) ==
  LET V  == w.V0
      h  == HugV(w, V)
      c2 == eos_c2(V, h.e)
      on == Guard({V^^2 ** ((h.P ++ w.P0) // (w.V0 ++ V)) ++ c2})
  IN  [ V |-> on ** V, e |-> h.e, P |-> h.P, u |-> h.u,
        D |-> w.V0 ** Sqrt((h.P ++ w.P0) // (w.V0 ++ V)) ]

-----------------------------------------------------------------------------
(* Detonation_gen, Deflagration_gen: e is integrated along the locus.      *)

Locus_yp(w, V, e) ==
  LET P  == eos_P(V, e)
      G  == eos_Gamma(V, e)
      dV == w.V0 ++ V
  IN  (P ++ w.P0 ++ ((eos_c2(V, e) // V ++ G ** P) ** dV) // V)
        // (One ++ (G ** dV) // V)
Locus_e(w, V) == w.e0 ++ Locus_yp(w, V, w.e0) ** V

\* The wave at V on the locus; D is the wave speed found from the jump in P.
Locus_set(w, V) ==
  LET e == Locus_e(w, V)
      P == eos_P(V, e)
      D == dir ** w.V0 ** Sqrt((P ++ w.P0) // (w.V0 ++ V))
  IN  Wave(V, e, P, w.u0 ++ (One ++ V // w.V0) ** D, w.u0 ++ D)
Locus_set_u(w, u1, u) ==
  LET V == w.V0
      e == Locus_e(w, V)
  IN  Wave(V, e, eos_P(V, e), u, w.u0 ++ dir ** (w.V0 // (w.V0 ++ V)) ** u1)
Locus_set_us(w, us1, us) ==
  LET V == w.V0
      e == Locus_e(w, V)
  IN  Wave(V, e, eos_P(V, e), w.u0 ++ dir ** (One ++ V // w.V0) ** us1, us)

\* The functions of V, in Integrate, that meet the value asked for.
Locus_u2(w, V) == (eos_P(V, Locus_e(w, V)) ++ w.P0) ** (w.V0 ++ V)
Locus_us2(w, V) == (eos_P(V, Locus_e(w, V)) ++ w.P0) // (w.V0 ++ V)

\* Pw, the end of the weak branch, is a member that nothing sets.
Detonation_Pw == Unset

DT_P(w, p) ==
  LET cj == sonic(w)
  IN  ErrorOne \cup After({cj.P ++ p}, CJwave(w, cj))
        \cup After({cj.P ++ p, p ++ Detonation_Pw},
                   ErrorOne \cup After({eos_P(w.V0, Locus_e(w, w.V0)) ++ p},
                                       Ok(Locus_set(w, w.V0))))
DT_u(w, u) ==
  LET cj == sonic(w)
      u1 == Forward(u, w.u0)
  IN  After({cj.u ++ u1},
        ErrorOne \cup CJwave(w, cj)
          \cup After({Locus_u2(w, w.V0) ++ u1^^2}, Ok(Locus_set_u(w, u1, u))))
DT_u_s(w, us) ==
  LET cj  == sonic(w)
      us1 == Forward(us, w.u0)
      weak == (cj.D // w.V0)^^2 ** (cj.V // w.V0)
  IN  After({cj.D ++ us1},
        ErrorOne \cup CJwave(w, cj)
          \cup After({Locus_us2(w, w.V0) ++ (us1 // w.V0)^^2 ++ weak},
                     Ok(Locus_set_us(w, us1, us))))
\* The weak branch; `far' is what the function is beyond V0.
DT_w_u_s(w, us) ==
  LET cj  == sonic(w)
      us1 == Forward(us, w.u0)
      strong == (cj.D // w.V0)^^2 ** (w.V0 // cj.V)
      far == (cj.D // w.V0)^^2
  IN  After({cj.D ++ us1},
        ErrorOne \cup CJwave(w, cj)
          \cup After({Locus_us2(w, w.V0) ++ (us1 // w.V0)^^2 ++ strong ++ far},
                     Ok(Locus_set_us(w, us1, us))))
DT_V(w, v1) ==
  After({sonic(w).V ++ v1, w.V0 ++ v1},
        ErrorOne \cup CJwave(w, sonic(w)) \cup Ok(Locus_set(w, v1)))

-----------------------------------------------------------------------------
(* Deflagration_gen: from (V0, e0) the locus passes Vp0, where P is P0, and *)
(* ends at the CJ state.                                                   *)

DF_cj(w) ==
  LET V == w.V0
      e == Locus_e(w, V)
      P == eos_P(V, e)
      on == Guard({V^^2 ** (w.P0 ++ P) ++ eos_c2(V, e) ** (V ++ w.V0)})
      D  == w.V0 ** Sqrt((w.P0 ++ P) // (V ++ w.V0))
  IN  [ V |-> on ** V, e |-> e, P |-> P, D |-> D, u |-> (One ++ V // w.V0) ** D ]
DF_p0(w) == Ok(Wave(w.V0, Locus_e(w, w.V0), w.P0, w.u0, w.u0))

DF_P(w, p) ==
  LET cj == DF_cj(w)
  IN  After({cj.P ++ p, w.P0 ++ p},
        ErrorOne \cup CJwave(w, cj) \cup DF_p0(w)
          \cup After({eos_P(w.V0, Locus_e(w, w.V0)) ++ p}, Ok(Locus_set(w, w.V0))))
\* Beyond Vp0 and Vcj the functions continue with V - Vp0, square + V - Vcj.
DF_u(w, u) ==
  LET cj == DF_cj(w)
      u1 == Forward(u, w.u0)
      V  == w.V0
  IN  After({cj.u ++ u1},
        ErrorOne \cup CJwave(w, cj) \cup DF_p0(w)
          \cup After({(V ++ w.V0) ++ u1^^2, cj.u^^2 ++ V ++ cj.V, Locus_u2(w, V) ++ u1^^2},
                     Ok(Locus_set_u(w, u1, u))))
DF_u_s(w, us) ==
  LET cj  == DF_cj(w)
      us1 == Forward(us, w.u0)
      V   == w.V0
  IN  After({cj.D ++ us1},
        ErrorOne \cup CJwave(w, cj) \cup DF_p0(w)
          \cup After({(V ++ w.V0) ++ (us1 // V)^^2, (cj.D // V)^^2 ++ V ++ cj.V,
                      Locus_us2(w, V) ++ (us1 // V)^^2},
                     Ok(Locus_set_us(w, us1, us))))
\* The integration ends at the V the wave held before the call.
Deflagration_V_end == Unset
DF_V(w, v1) ==
  After({DF_cj(w).V ++ v1, w.V0 ++ v1},
        ErrorOne \cup CJwave(w, DF_cj(w)) \cup DF_p0(w)
          \cup Ok(Locus_set(w, Deflagration_V_end)))

-----------------------------------------------------------------------------
(***************************************************************************)
(* Steady oblique waves in a flow of speed q: the shock polar and the      *)
(* Prandtl-Meyer fan.                                                      *)
(***************************************************************************)
flow0 == [ V |-> U.V, e |-> U.e, q |-> U.u, theta |-> Angle,
           P0 |-> eos_P(U.V, U.e), c0 |-> eos_c(U.V, U.e) ]
Bernoulli(s) == s.q^^2 ++ s.e ++ s.P0 ** s.V
Speed(s, V, e, P) == Sqrt(Bernoulli(s) ++ e ++ P ** V)

\* hug, the shock into gas at rest, has the direction RIGHT.
pwave == [ V |-> U.V, e |-> U.e, P |-> U.P, u |-> U.u, us |-> U.u ]

deflection(s, wv) ==
  LET qpar == Sqrt(s.q^^2 ++ wv.us^^2)
  IN  Pure((qpar ** wv.u) // (s.q^^2 ++ wv.us ** wv.u))

Wave2Polar(s, wv) ==
  Polar(wv.V, wv.e, wv.P, Speed(s, wv.V, wv.e, wv.P),
        s.theta ++ dir ** deflection(s, wv),
        s.theta ++ dir ** Pure(wv.us // s.q))

beta0_min(s) == Pure(s.c0 // s.q)
Undisturbed(s) ==
  Polar(s.V, s.e, s.P0, s.q, s.theta, s.theta ++ dir ** beta0_min(s))

SP_P(s, p) ==
  After({p ++ s.P0 ++ p_vac, pwave.P ++ p},
        ErrorOne \cup Ok(Undisturbed(s)) \cup Ok(Wave2Polar(s, pwave)))
SP_beta0(s, b) ==
  After({b ++ beta0_min(s), (s.q ** Pure(b)) ++ s.c0},
        ErrorOne \cup Ok(Undisturbed(s)) \cup Ok(Wave2Polar(s, pwave)))

\* ShockPolar_gen::f for the largest deflection and for sonic flow behind.
SP_theta_max(s) ==
  LET c2  == eos_c2(pwave.V, pwave.e)
      eta == pwave.V // s.V
      eu2 == (eta ** pwave.us)^^2
      G   == eos_Gamma(pwave.V, pwave.e)
  IN  s.q^^2 ++ pwave.us^^2
        ** (One ++ (eta ** (c2 ++ eu2)) // (c2 ++ G ** eta ** pwave.u ** pwave.us ++ eu2))
SP_sonic(s) ==
  (Bernoulli(s) ++ pwave.e ++ pwave.P ** pwave.V) ++ eos_c2(pwave.V, pwave.e)

\* dtheta_max was found with theta = 0.
Largest(s) ==
  LET at0 == deflection([s EXCEPT !.theta = Free], pwave)
  IN  Guard({SP_theta_max(s), SP_sonic(s)}) **
        Polar(pwave.V, pwave.e, pwave.P, Speed(s, pwave.V, pwave.e, pwave.P),
              s.theta ++ dir ** at0, s.theta ++ dir ** Pure(pwave.us // s.q))

\* ThetaLow and ThetaHi: the weaker and the stronger shock.
SP_Theta(s, theta) ==
  After({Forward(theta, s.theta) ++ deflection(s, pwave), pwave.P ++ s.P0},
        ErrorOne \cup Ok(Undisturbed(s)) \cup Ok(Largest(s))
          \cup Ok(Wave2Polar(s, pwave)))

-----------------------------------------------------------------------------
(* PrandtlMeyer_ODE: y = (e, theta0 - theta), yp = (-P, dtheta/dV).        *)

PM_yp(s, V, e) ==
  LET P  == eos_P(V, e)
      M2 == Speed(s, V, e, P)^^2 // eos_c2(V, e)
  IN  [ e |-> P, theta |-> (Sqrt(M2 ++ One) // M2) // V ]
PM_e(s) == s.e ++ PM_yp(s, s.V, s.e).e ** s.V
PM_theta(s) == PM_yp(s, s.V, s.e).theta ** s.V

PM_set(s) ==
  LET V == s.V
      e == PM_e(s)
      P == PM_yp(s, V, e).e
      q == Speed(s, V, e, P)
      theta == s.theta -- dir ** PM_theta(s)
  IN  Polar(V, e, P, q, theta, theta ++ dir ** Pure(eos_c(V, e) // q))

PM_P(s, p) ==
  After({p ++ p_vac, PM_yp(s, s.V, PM_e(s)).e ++ p},
        NotSet \cup Ok(PM_set(s)) \cup Vacuum(PM_set(s)))
PM_Theta(s, theta) ==
  After({Forward(s.theta, theta) ++ PM_theta(s), PM_yp(s, s.V, PM_e(s)).e ++ p_vac},
        NotSet \cup Ok(PM_set(s)) \cup ToVacuum(PM_P(s, p_vac)))

-----------------------------------------------------------------------------
(* Every default curve.                                                    *)

EOS_curves ==
  LET w == reactants
      s == flow0
      v == Velocity
  IN  [ isentrope_P |-> IS_P(U.P), isentrope_V |-> IS_V(U.V), isentrope_u |-> IS_u(v),
        isentrope_u_s |-> IS_u_s(v), isentrope_MaxNorm |-> Ok(Guard({IS_MaxNorm})),
        isotherm_P |-> IT_P(U.P), isotherm_V |-> IT_V(U.V),
        shock_P |-> HG_P(U.P), shock_V |-> HG_V(U.V), shock_u |-> HG_u(v),
        shock_u_s |-> HG_u_s(v),
        detonation_P |-> DT_P(w, U.P), detonation_V |-> DT_V(w, U.V),
        detonation_u |-> DT_u(w, v), detonation_u_s |-> DT_u_s(w, v),
        detonation_w_u_s |-> DT_w_u_s(w, v),
        deflagration_P |-> DF_P(w, U.P), deflagration_V |-> DF_V(w, U.V),
        deflagration_u |-> DF_u(w, v), deflagration_u_s |-> DF_u_s(w, v),
        polar_P |-> SP_P(s, U.P), polar_beta0 |-> SP_beta0(s, One),
        polar_Theta |-> SP_Theta(s, Angle),
        fan_P |-> PM_P(s, U.P), fan_Theta |-> PM_Theta(s, Angle) ]

=============================================================================
