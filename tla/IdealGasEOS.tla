----------------------------- MODULE IdealGasEOS ----------------------------
(***************************************************************************)
(* IdealGas and IdealGas_VT, with the wave curves in closed form.          *)
(***************************************************************************)
EXTENDS EOSdetonation

IG_start == EOS_start @@ [ gamma |-> Unset, Cv |-> Unset ]
IGT_start == VT_start @@ [ gamma |-> Unset, Cv |-> Unset ]

IG_init == << Need({"gamma", "Cv"}) >>
IG_convert == << ScaleOrFail("Cv", "Cv") >>

IG_P(o, V, e) == (o.gamma ++ One) ** (e // V)
IG_functions(o) ==
  LET V == U.V
      e == U.e
  IN  [ P |-> IG_P(o, V, e), T |-> e // o.Cv,
        S |-> o.Cv ** (Pure(e // o.e_ref) ++ (o.gamma ++ One) ** Pure(V // o.V_ref)),
        c2 |-> o.gamma ** (o.gamma ++ One) ** e, Gamma |-> o.gamma ++ One,
        CV |-> o.Cv, FD |-> o.gamma ++ One, e_PV |-> (U.P ** V) // (o.gamma ++ One),
        PT |-> Guard({(o.Cv ** U.T) ++ U.e,
                      (((o.gamma ++ One) ** o.Cv ** U.T) // U.P) ++ U.V}) ]

IGT_functions(o) ==
  LET V == U.V
      T == U.T
      g == o.gamma ++ One
      P == (g ** o.Cv ** T) // V
      logs == Pure(T // o.T_ref) ++ g ** Pure(V // o.V_ref)
  IN  [ P |-> P, e |-> o.Cv ** T, S |-> o.Cv ** logs,
        P_V |-> (g ** o.Cv ** T) // V^^2, P_T |-> (g ** o.Cv) // V, CV |-> o.Cv,
        F |-> o.Cv ** T ** (One ++ logs), CP |-> o.gamma ** o.Cv,
        KS |-> o.gamma ** P, KT |-> P, Gamma |-> g, beta |-> One // T,
        c2 |-> o.gamma ** g ** o.Cv ** T, cT2 |-> g ** o.Cv ** T ]

-----------------------------------------------------------------------------
(* Isentrope_IdealGas, Isotherm_IdealGas.                                  *)

IGS_set(o, V, P, c) ==
  LET u == state0.u -- dir ** ((state0.c ++ c) // (o.gamma ++ One))
  IN  Wave(V, (P ** V) // (o.gamma ++ One), P, u, u ++ dir ** c)
IGS_P(o, p) ==
  LET V == state0.V ** Pow(state0.P // p, One // o.gamma)
      w == IGS_set(o, V, p, Sqrt(o.gamma ** p ** V))
  IN  After({p ++ p_vac}, Ok(w) \cup Vacuum(w))
IGS_V(o, V) ==
  LET e == state0.e ** Pow(state0.V // V, o.gamma ++ One)
      P == IG_P(o, V, e)
  IN  NotSet \cup After({P ++ p_vac}, ReturnVacuum(IGS_P(o, p_vac))
                   \cup Ok(IGS_set(o, V, P, Sqrt(o.gamma ** P ** V))))
\* At the sound speed c behind the wave.
IGS_at(o, c, u, us) ==
  LET V == state0.V ** Pow(state0.c // c, One // (o.gamma ++ One))
      P == c^^2 // (o.gamma ** V)
  IN  After({c, P ++ p_vac}, ReturnVacuum(IGS_P(o, p_vac))
              \cup Ok(Wave(V, (P ** V) // (o.gamma ++ One), P, u, us)))
IGS_u(o, u) ==
  LET c == state0.c ++ (o.gamma ++ One) ** Forward(u, state0.u)
  IN  IGS_at(o, c, u, u ++ dir ** c)
\* Mutant: right for a wave to the right only.
IGS_u_s_right(o, us) ==
  LET c == (state0.c ++ (o.gamma ++ One) ** Forward(us, state0.u)) // (o.gamma ++ One)
  IN  IGS_at(o, c, us -- c, us)
IGS_u_s(o, us) ==
  LET c == (state0.c ++ (o.gamma ++ One) ** Forward(us, state0.u)) // (o.gamma ++ One)
  IN  IGS_at(o, c, us -- dir ** c, us)
IGS_u_escape(o) ==
  state0.u -- dir ** (state0.c // (o.gamma ++ One))
                ** (One ++ Pow(p_vac // state0.P, (o.gamma ++ One) // o.gamma))

IGI_P(o, p) ==
  LET s == Thermal(((o.gamma ++ One) ** state0.e) // p, state0.e, p, state0.T)
  IN  After({p ++ p_vac}, Ok(s) \cup Vacuum(s))
IGI_V(o, v) ==
  LET P == IG_P(o, v, state0.e)
  IN  NotSet \cup After({P ++ p_vac}, ReturnVacuum(IGI_P(o, p_vac))
                   \cup Ok(Thermal(v, state0.e, P, state0.T)))

-----------------------------------------------------------------------------
(* Hugoniot_IdealGas: M2 is the square of the Mach number of the shock.    *)

IGH_V(o, M2) == ((o.gamma ++ One // M2) // (o.gamma ++ One)) ** state0.V
IGH_pressure(o, M2) == (One ++ (o.gamma // (o.gamma ++ One)) ** (M2 ++ One)) ** state0.P
IGH_e(o, P, V) == (P ** V) // (o.gamma ++ One)
IGH_up(o, M2, us) == state0.u ++ (One // (o.gamma ++ One)) ** (One ++ One // M2) ** us
\* P and V: us is relative to the gas ahead of the shock.
IGH_us(M2) == dir ** Sqrt(M2) ** state0.c

IGH_P(o, p) ==
  LET M2 == One ++ ((o.gamma ++ One) // o.gamma) ** (p // state0.P ++ One)
      V  == IGH_V(o, M2)
  IN  NotSet \cup After({M2}, Ok(Wave(V, IGH_e(o, p, V), p,
                                      IGH_up(o, M2, IGH_us(M2)), IGH_us(M2))))
IGH_Vv(o, v) ==
  LET den == (o.gamma ++ One) ** v ++ (o.gamma ++ One) ** state0.V
      M2  == state0.V // den
      P   == IGH_pressure(o, M2)
  IN  NotSet \cup After({den, state0.V ++ v},
                   Ok(Wave(v, IGH_e(o, P, v), P, IGH_up(o, M2, IGH_us(M2)), IGH_us(M2))))
IGH_u_s(o, us) ==
  LET M2 == (Forward(us, state0.u) // state0.c)^^2
      V  == IGH_V(o, M2)
      P  == IGH_pressure(o, M2)
  IN  NotSet \cup After({Forward(us, state0.u) // state0.c},
                   Ok(Wave(V, IGH_e(o, P, V), P, IGH_up(o, M2, us -- state0.u), us)))
IGH_u(o, u) ==
  LET uc == ((o.gamma ++ One) ** Forward(u, state0.u)) // state0.c
      M  == uc ++ Sqrt(One ++ uc^^2)
      V  == IGH_V(o, M^^2)
      P  == IGH_pressure(o, M^^2)
  IN  NotSet \cup After({M}, Ok(Wave(V, IGH_e(o, P, V), P, u,
                                     state0.u ++ dir ** M ** state0.c)))

-----------------------------------------------------------------------------
(* Detonation_IdealGas and Deflagration_IdealGas: delQ = P(V0,e0)/P0 - 1.   *)

IGD_c0(o, w) == Sqrt(o.gamma ** w.P0 ** w.V0)
IGD_delQ(o, w) == IG_P(o, w.V0, w.e0) // w.P0 ++ One
IGD_cj(o, w) ==
  LET b == One ++ IGD_delQ(o, w)
      c == One ++ IGD_delQ(o, w) // (o.gamma ++ One)
      P == (b ++ Sqrt(b^^2 ++ c)) ** w.P0
      V == ((o.gamma ** P) // (o.gamma ** P ++ (P ++ w.P0))) ** w.V0
      D == Sqrt((o.gamma ** P) // V) ** w.V0
  IN  [ V |-> Guard({w.P0 ++ IG_P(o, w.V0, w.e0)}) ** V, P |-> P,
        e |-> (P ** V) // (o.gamma ++ One), D |-> D, u |-> (One ++ V // w.V0) ** D ]
IGD_p0(o, w) ==
  LET V == ((o.gamma ++ One) // o.gamma) ** (w.e0 // w.P0 ++ w.V0)
  IN  Ok(Wave(V, (w.P0 ** V) // (o.gamma ++ One), w.P0, w.u0, w.u0))

IGD_P(o, w, p) ==
  LET dp == (p ++ w.P0) // w.P0
      M2 == (((o.gamma ++ One) ** dp) // o.gamma ++ One) // (One ++ IGD_delQ(o, w) // dp)
      epsilon == dp // (o.gamma ** M2)
      V  == (One ++ epsilon) ** w.V0
      us == dir ** Sqrt(M2) ** IGD_c0(o, w)
  IN  NotSet \cup After({p ++ IGD_cj(o, w).P},
                   Ok(Wave(V, (p ** V) // (o.gamma ++ One), p,
                           w.u0 ++ epsilon ** us, w.u0 ++ us)))
IGD_u_s(o, w, us) ==
  LET us1 == Forward(us, w.u0)
      M2 == (us1 // IGD_c0(o, w))^^2
      b  == (o.gamma ** (M2 ++ One)) // (o.gamma ++ One)
      c  == (o.gamma // (o.gamma ++ One)) ** IGD_delQ(o, w) ** M2
      dp == b ++ Sqrt(b^^2 ++ c)
      epsilon == dp // (o.gamma ** M2)
      V  == (One ++ epsilon) ** w.V0
      P  == w.P0 ** (dp ++ One)
  IN  NotSet \cup After({us1 ++ IGD_cj(o, w).D},
                   Ok(Wave(V, (P ** V) // (o.gamma ++ One), P,
                           w.u0 ++ dir ** epsilon ** us1, us)))
IGD_V(o, w, v) ==
  LET dV == w.V0 ++ v
      dp == (IGD_delQ(o, w) ** w.V0 ++ o.gamma ** dV) // (v ++ (o.gamma ++ One) ** dV)
      P  == (dp ++ One) ** w.P0
      u  == dir ** Sqrt(w.P0 ** dp ** dV)
  IN  NotSet \cup After({v ++ IGD_cj(o, w).V},
                   Ok(Wave(v, (P ** v) // (o.gamma ++ One), P, w.u0 ++ u,
                           w.u0 ++ u ** (w.V0 // dV))))
\* The detonation takes dir*u1/dv for the wave speed, u1 being dir*(u-u0).
IGD_u(o, w, u) ==
  LET u1 == Forward(u, w.u0)
      u2 == u1^^2 // (w.P0 ** w.V0)
      b  == (o.gamma ++ One) ** u2 ++ IGD_delQ(o, w)
      dp == b ++ Sqrt(b^^2 ++ o.gamma ** u2)
      P  == (dp ++ One) ** w.P0
      dv == u2 // dp
      V  == w.V0 ** (One ++ dv)
  IN  NotSet \cup After({u1 ++ IGD_cj(o, w).u},
                   Ok(Wave(V, (P ** V) // (o.gamma ++ One), P, u,
                           w.u0 ++ dir ** (u1 // dv))))

IG_curves(o) ==
  LET w == reactants
      v == Velocity
  IN  [ isentrope_P |-> IGS_P(o, U.P), isentrope_V |-> IGS_V(o, U.V),
        isentrope_u |-> IGS_u(o, v), isentrope_u_s |-> IGS_u_s(o, v),
        isentrope_u_escape |-> Ok(Guard({Forward(IGS_u_escape(o), v) ++ U.u})),
        isotherm_P |-> IGI_P(o, U.P), isotherm_V |-> IGI_V(o, U.V),
        shock_P |-> IGH_P(o, U.P), shock_V |-> IGH_Vv(o, U.V),
        shock_u |-> IGH_u(o, v), shock_u_s |-> IGH_u_s(o, v),
        detonation_P |-> IGD_P(o, w, U.P), detonation_V |-> IGD_V(o, w, U.V),
        detonation_u |-> IGD_u(o, w, v), detonation_u_s |-> IGD_u_s(o, w, v),
        deflagration_P |-> IGD_P(o, w, U.P) \cup IGD_p0(o, w),
        deflagration_V |-> IGD_V(o, w, U.V) \cup IGD_p0(o, w),
        deflagration_u |-> IGD_u(o, w, v) \cup IGD_p0(o, w),
        deflagration_u_s |-> IGD_u_s(o, w, v) \cup IGD_p0(o, w) ]

=============================================================================
