---------------------------- MODULE StiffenedEOS ----------------------------
(***************************************************************************)
(* StiffenedGas and StiffenedGas_VT, which share StiffGasParams.  P0, c0   *)
(* and s are parameters only InitParams sees.                              *)
(***************************************************************************)
EXTENDS EOScurves

StiffGasParams ==
  [ G |-> Unset, e_p |-> Unset, P_p |-> Unset, Cv |-> Unset,
    P0 |-> Unset, c0 |-> Unset, s |-> Unset ]
SG_start  == [ EOS_start EXCEPT !.e_ref = Free ] @@ StiffGasParams
SGT_start == [ VT_start EXCEPT !.T_ref = One ] @@ StiffGasParams

\* e0 is the energy at (V_ref, P0): e_ref, or 0 where the state is (V, T).
StiffGas_init(o, e0) ==
  << PutIf(Is(o.s), "G", o.s ++ One), NeedIf(~Is(o.s), {"G"}),
     NeedIf(Is(o.c0), {"P0", "V_ref"}),
     PutIf(Is(o.c0), "P_p", (o.c0^^2 // o.V_ref) // (o.G ++ One) ++ o.P0),
     PutIf(Is(o.c0), "e_p", e0 ++ o.P0 ** o.V_ref ++ o.c0^^2 // o.G) >>
SG_init(o) ==
  StiffGas_init(o, o.e_ref) \o << Need({"e_p", "P_p", "Cv"}) >>
SGT_init(o) ==
  StiffGas_init(o, Free)
    \o << PutIf(Is(o.c0), "T_ref", (o.e_p ++ o.P_p ** o.V_ref) // o.Cv),
          Need({"e_p", "P_p", "Cv"}) >>

StiffGas_convert ==
  << Factors({"Cv", "V", "e"}), Scale({"Cv"}, U.Cv), Scale({"e_p"}, U.e),
     Scale({"P_p"}, U.e // U.V) >>

SG_P(o, V, e) == (o.G ** (e ++ o.e_p)) // V ++ (o.G ++ One) ** o.P_p
SG_th(o, V, e) == e ++ o.e_p ++ o.P_p ** V           \* Cv * T
SG_functions(o) ==
  LET V == U.V
      e == U.e
      V1 == (o.G ** o.Cv ** U.T) // (U.P ++ o.P_p)
  IN  [ P |-> SG_P(o, V, e), T |-> SG_th(o, V, e) // o.Cv,
        S |-> o.Cv ** (Pure(SG_th(o, V, e) // SG_th(o, o.V_ref, o.e_ref))
                         ++ o.G ** Pure(V // o.V_ref)),
        c2 |-> (o.G ++ One) ** o.G ** SG_th(o, V, e), Gamma |-> o.G, CV |-> o.Cv,
        FD |-> One ++ o.G,
        e_PV |-> o.e_p ++ (V // o.G) ** (U.P ++ (o.G ++ One) ** o.P_p),
        NotInDomain |-> Guard({SG_P(o, V, e)}),
        PT |-> Guard({V1 ++ U.V, (o.Cv ** U.T ++ o.e_p ++ o.P_p ** V1) ++ U.e}) ]

SGT_functions(o) ==
  LET V == U.V
      T == U.T
      GCT == o.G ** o.Cv ** T
      logs == Pure(T // o.T_ref) ++ o.G ** Pure(V // o.V_ref)
  IN  [ P |-> GCT // V ++ o.P_p, e |-> o.Cv ** T ++ o.P_p ** V ++ o.e_p,
        S |-> o.Cv ** logs, P_V |-> GCT // V^^2, P_T |-> (o.G ** o.Cv) // V,
        CV |-> o.Cv, F |-> o.Cv ** T ** (One ++ logs) ++ o.P_p ** V ++ o.e_p,
        NotInDomain |-> Guard({GCT // V ++ o.P_p}), CP |-> (o.G ++ One) ** o.Cv,
        KS |-> ((o.G ++ One) ** GCT) // V, KT |-> GCT // V, Gamma |-> o.G,
        beta |-> One // T, c2 |-> (o.G ++ One) ** GCT, cT2 |-> GCT ]

-----------------------------------------------------------------------------
(* Wave curves; p is the pressure plus P_p.                                *)

SGS_e(o, p, V) == (p // o.G ++ o.P_p) ** V ++ o.e_p
SGS_set(o, p, V) ==
  LET c == Sqrt((o.G ++ One) ** p ** V)
      u == state0.u -- dir ** ((state0.c ++ c) // o.G)
  IN  Wave(V, SGS_e(o, p, V), p ++ o.P_p, u, u ++ dir ** c)
SGS_P(o, P) ==
  LET p == P ++ o.P_p
      w == SGS_set(o, p, state0.V ** Pow((state0.P ++ o.P_p) // p, One // (o.G ++ One)))
  IN  After({P ++ p_vac}, Ok(w) \cup Vacuum(w))
SGS_V(o, V) ==
  LET p == (state0.P ++ o.P_p) ** Pow(state0.V // V, o.G ++ One)
  IN  NotSet \cup After({(p ++ o.P_p) ++ p_vac},
                        ReturnVacuum(SGS_P(o, p_vac)) \cup Ok(SGS_set(o, p, V)))
SGS_at(o, c, u, us) ==
  LET x == (o.G ++ One) ** state0.V ** (state0.P ++ o.P_p)
      V == state0.V ** Pow(x // c^^2, One // o.G)
      p == c^^2 // ((o.G ++ One) ** V)
  IN  After({c, (p ++ o.P_p) ++ p_vac}, ReturnVacuum(SGS_P(o, p_vac))
              \cup Ok(Wave(V, SGS_e(o, p, V), p ++ o.P_p, u, us)))
SGS_u(o, u) ==
  LET c == state0.c ++ o.G ** Forward(u, state0.u)
  IN  SGS_at(o, c, u, u ++ dir ** c)
SGS_u_s(o, us) ==
  LET c == (state0.c ++ o.G ** Forward(us, state0.u)) // (o.G ++ One)
  IN  SGS_at(o, c, us -- dir ** c, us)
SGS_u_escape(o) ==
  LET V == state0.V ** Pow((o.P_p ++ state0.P) // (o.P_p ++ p_vac), One // (o.G ++ One))
      c == Sqrt((o.G ++ One) ** (o.P_p ++ p_vac) ** V)
  IN  state0.u -- dir ** ((state0.c ++ c) // o.G)

SGI_e(o, V) == o.Cv ** state0.T ++ o.e_p ++ o.P_p ** V
SGI_P(o, p) ==
  LET V == (state0.V ** (state0.P ++ o.P_p)) // (p ++ o.P_p)
      s == Thermal(V, SGI_e(o, V), p, state0.T)
  IN  After({p ++ p_vac}, Ok(s) \cup Vacuum(s))
SGI_V(o, v) ==
  LET e == SGI_e(o, v)
      P == (o.G ** (e ++ o.e_p)) // v ++ (o.G ++ One) ** o.P_p
  IN  ErrorOne \cup After({P ++ p_vac}, ReturnVacuum(SGI_P(o, p_vac))
                     \cup Ok(Thermal(v, e, P, state0.T)))

SGH_V(o, M2) == ((o.G ++ One // M2) // (o.G ++ One)) ** state0.V
SGH_pressure(o, M2) ==
  (One ++ ((o.G ++ One) // (o.G ++ One)) ** (M2 ++ One)) ** (state0.P ++ o.P_p) ++ o.P_p
SGH_e(V, P) == state0.e ++ (state0.P ++ P) ** (state0.V ++ V)
SGH_up(o, M2, us) == state0.u ++ (One // (o.G ++ One)) ** (One ++ One // M2) ** us
SGH_us(M2) == dir ** Sqrt(M2) ** state0.c

SGH_P(o, p) ==
  LET M2 == One ++ (p ++ o.P_p) // (state0.P ++ o.P_p) ++ One
      V  == SGH_V(o, M2)
  IN  NotSet \cup After({M2}, Ok(Wave(V, SGH_e(V, p), p, SGH_up(o, M2, SGH_us(M2)),
                                      state0.u ++ SGH_us(M2))))
SGH_u_s(o, us) ==
  LET M2 == (Forward(us, state0.u) // state0.c)^^2
      V  == SGH_V(o, M2)
      P  == SGH_pressure(o, M2)
  IN  NotSet \cup After({Forward(us, state0.u) // state0.c},
                   Ok(Wave(V, SGH_e(V, P), P, SGH_up(o, M2, us -- state0.u), us)))
\* us is relative to the gas ahead of the shock.
SGH_Vv(o, v) ==
  LET den == (o.G ++ One) ** v ++ o.G ** state0.V
      M2  == state0.V // den
      P   == SGH_pressure(o, M2)
  IN  NotSet \cup After({den, state0.V ++ v},
                   Ok(Wave(v, SGH_e(v, P), P, SGH_up(o, M2, SGH_us(M2)), SGH_us(M2))))
SGH_u(o, u) ==
  LET uc == ((o.G ++ One) ** Forward(u, state0.u)) // state0.c
      M  == uc ++ Sqrt(One ++ uc^^2)
      V  == SGH_V(o, M^^2)
      P  == SGH_pressure(o, M^^2)
  IN  NotSet \cup After({M}, Ok(Wave(V, SGH_e(V, P), P, u,
                                     state0.u ++ dir ** M ** state0.c)))

SG_curves(o) ==
  [ isentrope_P |-> SGS_P(o, U.P), isentrope_V |-> SGS_V(o, U.V),
    isentrope_u |-> SGS_u(o, Velocity), isentrope_u_s |-> SGS_u_s(o, Velocity),
    isentrope_u_escape |-> Ok(Guard({Forward(SGS_u_escape(o), Velocity) ++ U.u})),
    isotherm_P |-> SGI_P(o, U.P), isotherm_V |-> SGI_V(o, U.V),
    shock_P |-> SGH_P(o, U.P), shock_V |-> SGH_Vv(o, U.V),
    shock_u |-> SGH_u(o, Velocity), shock_u_s |-> SGH_u_s(o, Velocity) ]

=============================================================================
