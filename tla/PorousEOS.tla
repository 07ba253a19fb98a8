----------------------------- MODULE PorousEOS ------------------------------
(***************************************************************************)
(* Porous materials: a solid and the volume fraction phi it fills, as a    *)
(* function of P V in equilibrium (PhiEq: Phi0, Phi1, EC).                 *)
(***************************************************************************)
EXTENDS EOScurves

-----------------------------------------------------------------------------
(* PhiEq_spline: phi(PV) up to PV_smax is a spline over the function f of  *)
(* the concrete class, and so is energy(phi), of the integral of PV/phi.   *)
(* knots is the unit of the PV and of the energy in the splines, y that of *)
(* the steps of the integrator: the units of the time of InitPV.  s_e is   *)
(* the product of the factors of all conversions since then.               *)

PHI_start == [ PV_min |-> Unset, PV_smax |-> Unset, PV_max |-> Unset, Pmin |-> Unset,
               e_max |-> Unset, s_e |-> One, knots |-> One, y |-> One ]
PHI_hidden == DOMAIN PHI_start

\* The object has been converted before.
PHI_again == [ s_e |-> U.e, knots |-> One // U.e, y |-> One // U.e ]

PHI_InitPV(o, PV0, PV1) ==
  << Put("PV_min", PV0), Put("PV_smax", PV1), Put("PV_max", o.PV_smax),
     SolveIf(TRUE, {"e_max"}) >>

PHI_convert(o) ==
  << Factors({"e", "P"}), Scale({"s_e"}, U.e), Scale({"PV_min", "PV_max", "PV_smax"}, o.s_e),
     Scale({"Pmin"}, U.P), Scale({"e_max"}, o.s_e) >>

\* phi(PV), and its derivatives: the spline, or beyond it a power of the
\* distance from PV_max.
PHI_dPV(o)      == o.PV_max ++ o.PV_smax
PHI_phi(o, PV)  ==
  Guard({PV ++ o.PV_min, PV ++ o.PV_smax, PV // o.s_e ++ o.knots})
    ** Pure((o.PV_max ++ PV) // PHI_dPV(o))
PHI_dphi(o, PV)  == PHI_phi(o, PV) ** (o.s_e // o.knots ++ One // PHI_dPV(o))
PHI_d2phi(o, PV) == PHI_phi(o, PV) ** ((o.s_e // o.knots)^^2 ++ PHI_dPV(o)^^(-2))

PHI_PV(o) == o.PV_min ++ o.s_e ** o.knots ++ PHI_dPV(o)

\* The integral: a step from one that is kept.
PHI_Energy(o)   == o.s_e ** (o.y ++ PHI_PV(o))
PHI_energy(o)   == o.s_e ** o.knots ++ o.e_max ++ PHI_Energy(o)
PHI_denergy(o)  == o.s_e ** o.knots ++ o.PV_max ++ PHI_PV(o)
PHI_d2energy(o) ==
  LET dPV    == PHI_dPV(o)
      dphidPV == Pure((o.PV_max ++ PHI_PV(o)) // dPV) // dPV
  IN  o.s_e ** o.knots ++ One // (dphidPV ++ One // o.PV_max) ++ PHI_PV(o)

PHI_functions(o) ==
  [ phi |-> PHI_phi(o, U.e), dphi |-> PHI_dphi(o, U.e), d2phi |-> PHI_d2phi(o, U.e),
    PV |-> PHI_PV(o), energy |-> PHI_energy(o), denergy |-> PHI_denergy(o),
    d2energy |-> PHI_d2energy(o), P_min |-> o.Pmin, E_max |-> o.e_max, PV_0 |-> o.PV_min,
    PV_1 |-> o.PV_max ]

-----------------------------------------------------------------------------
(* Phi0, Phi1, EC.                                                         *)

P0_start == PHI_start @@ [ P0 |-> Unset, V0 |-> Unset, phi0 |-> Unset, Pc |-> Unset,
                           PV_0 |-> Unset, PV_1 |-> Unset ]
P0_init(o) ==
  << Need({"V0", "P0", "phi0", "Pc"}), PutIf(~Is(o.PV_0), "PV_0", o.P0 ** o.V0),
     PutIf(~Is(o.PV_1), "PV_1", o.Pc ** o.V0), Put("Pmin", o.P0) >>
    \o PHI_InitPV(o, o.PV_0, o.PV_1)
P0_convert(o) ==
  PHI_convert(o) \o << Factors({"V", "P"}), Scale({"V0"}, U.V),
                       Scale({"P0", "Pc", "PV_0", "PV_1"}, U.P) >>
P0_f(o, PV) == Pure((PV ++ o.P0 ** o.V0) // (o.Pc ** o.V0))

\* phi0 stands for all pure numbers of the fit, which must be given.
P1_start == PHI_start @@ [ P0 |-> Unset, V0 |-> Unset, PV0 |-> Unset, PV1 |-> Unset,
                           phi0 |-> Unset, sPV1 |-> One ]
P1_init(o) ==
  << Need({"V0", "P0", "PV1", "phi0"}), PutIf(~Is(o.PV0), "PV0", o.P0 ** o.V0),
     Put("sPV1", o.PV1), Put("Pmin", o.P0) >> \o PHI_InitPV(o, o.PV0, o.sPV1)
P1_convert(o) ==
  PHI_convert(o) \o << Factors({"V", "P"}), Scale({"V0"}, U.V), Scale({"P0"}, U.P),
                       Scale({"PV0", "PV1", "sPV1"}, U.P ** U.V) >>
P1_f(o, sPV) ==
  LET PV == o.PV0 ++ (o.PV1 ++ o.PV0) ** ((sPV ++ o.PV0) // (o.sPV1 ++ o.PV0))
  IN  Pure(PV // o.PV0) ** Pure(o.PV1 // o.PV0)

\* data: the table of phi over PV, of the isotherm of another EOS.
EC_start   == PHI_start @@ [ data |-> Unset ]
EC_init(o) == << SolveIf(TRUE, {"data", "Pmin"}) >> \o PHI_InitPV(o, o.data, o.data)
EC_f(o, PV) == Guard({PV ++ o.data})

P0_functions(o) == PHI_functions(o) @@ [f |-> P0_f(o, U.e)]
P1_functions(o) == PHI_functions(o) @@ [f |-> P1_f(o, U.e)]
EC_functions(o) == PHI_functions(o) @@ [f |-> EC_f(o, U.e)]

-----------------------------------------------------------------------------
(* FrozenPorous: a fixed volume fraction phi_f and its energy B_f.         *)

FP_start == EOS_start @@ [ solid |-> Unset, phi_eq |-> Unset, phi_f |-> Unset, B_f |-> Unset ]

\* phi_eq->energy and its first two derivatives.
B_eq(o, phi) == Call1(o.phi_eq, phi, One, U.e)

FP_init(o) ==
  << Need({"solid", "phi_eq"}), PutIf(~Is(o.phi_f), "phi_f", One),
     PutIf(~Is(o.B_f), "B_f", B_eq(o, o.phi_f)),
     PutIf(~Is(o.e_ref), "e_ref", In(o.solid, U.e) ++ o.B_f),
     PutIf(~Is(o.V_ref), "V_ref", In(o.solid, U.V) // o.phi_f) >>

FP_convert == EOS_convert \o << ScaleOrFail("B_f", "e"), Part("solid"), Part("phi_eq") >>

FP_at(o, V, e, want) == x_Ve(o.solid, o.phi_f ** V, e ++ o.B_f, want)

FP_functions(o) ==
  LET V == U.V
      e == U.e
  IN  [ P |-> o.phi_f ** FP_at(o, V, e, U.P), T |-> FP_at(o, V, e, U.T),
        S |-> FP_at(o, V, e, U.S), c2 |-> FP_at(o, V, e, U.u^^2),
        Gamma |-> FP_at(o, V, e, One), CV |-> FP_at(o, V, e, U.Cv),
        NotInDomain |-> FP_at(o, V, e, One),
        P_frozen |-> x_Ve(o.solid, V, e ++ B_eq(o, One), U.P),
        phi |-> Call1(o.phi_eq, U.P ** V, U.e, One), energy |-> B_eq(o, One) ]

\* The curves are those of the solid from (phi_f V, e - B_f, u), with p_vac/phi_f;
\* what they set is taken back.
FP_wave(o) ==
  Wave(In(o.solid, U.V) // o.phi_f, In(o.solid, U.e) ++ o.B_f, In(o.solid, U.P) ** o.phi_f,
       Velocity, Velocity)
FP_state(o) ==
  Thermal(In(o.solid, U.V) // o.phi_f, In(o.solid, U.e) ++ o.B_f, In(o.solid, U.P) ** o.phi_f,
          In(o.solid, U.T))
FP_start_at(o) == FP_at(o, U.V, U.e, One) ** Call1(o.solid, p_vac // o.phi_f, U.P, One)
FP_ask(o, x, dim, set) ==
  LET found == FP_start_at(o) ** Call1(o.solid, x, dim, One) ** set
  IN  NotSet \cup Ok(found) \cup Vacuum(found)

FP_curves(o) ==
  LET w  == FP_wave(o)
      P  == FP_ask(o, U.P // o.phi_f, U.P, w)
      V  == FP_ask(o, U.V ** o.phi_f, U.V, w)
      u  == FP_ask(o, U.u, U.u, w)
  IN  [ isentrope_P |-> P, isentrope_V |-> V, isentrope_u |-> u, isentrope_u_s |-> u,
        shock_P |-> P, shock_V |-> V, shock_u |-> u, shock_u_s |-> u,
        isotherm_P |-> FP_ask(o, U.P // o.phi_f, U.P, FP_state(o)),
        isotherm_V |-> FP_ask(o, U.V ** o.phi_f, U.V, FP_state(o)) ]

-----------------------------------------------------------------------------
(* EqPorous: phi_f solves V P = phi dB/dphi.  V_f stands for the state the *)
(* last call of P leaves in V_f, e_f, phi_f, B_f and P_f.                  *)

EP_start == EOS_start @@ [ solid |-> Unset, phi_eq |-> Unset, B_max |-> Unset,
                           dBdphi_max |-> Unset, V_f |-> Free ]

EP_init(o) ==
  << Need({"solid", "phi_eq"}), PutIf(~Is(o.e_ref), "e_ref", In(o.solid, U.e)),
     PutIf(~Is(o.V_ref), "V_ref", In(o.solid, U.V)), SolveIf(TRUE, {}),
     Put("B_max", B_eq(o, One)), Put("dBdphi_max", B_eq(o, One)) >>

EP_convert ==
  EOS_convert \o << Factors({"e", "V"}), Scale({"B_max", "dBdphi_max"}, U.e), Part("solid"),
                    Part("phi_eq") >>

\* P where the solid is at (V, es): the root of f, or the least pressure.
EP_P(o, V, es) ==
  LET P_f == x_Ve(o.solid, V, es, U.P)
      f   == V ** P_f ++ B_eq(o, One)
  IN  Guard({f}) ** (P_f ++ In(o.phi_eq, U.P))

EP_functions(o) ==
  LET V   == U.V
      es  == U.e ++ B_eq(o, One)
      P   == EP_P(o, V, es)
      at(want) == Guard({P}) ** x_Ve(o.solid, V, es, want)
      c2s == at(U.u^^2)
      B2  == B_eq(o, One)
      c2  == c2s ++ (c2s ++ P ** V)^^2 // (c2s ++ B2)
  IN  [ P |-> P, T |-> at(U.T), S |-> at(U.S), c2 |-> c2, NotInDomain |-> Guard({c2}),
        Gamma |-> ((P ** V ++ B2) ** at(One)) // (c2s ++ B2),
        CV |-> ((c2s ++ B2) // (P ** V ++ B2)) ** at(U.Cv)
                 ** ((B2 ++ B_eq(o, One)) // (B2 ++ c2s ++ at(One)^^2 ** at(U.Cv) ** at(U.T))),
        P_frozen |-> x_Ve(o.solid, V, U.e ++ B_eq(o, One), U.P),
        phi |-> Call1(o.phi_eq, U.P ** V, U.e, One), energy |-> B_eq(o, One),
        lastState |-> Guard({V ++ o.V_f}) ]

\* IsothermEqPorous: V of the solid on its isotherm where f is zero.
EP_isotherm(o, x, dim) ==
  LET V == In(o.solid, U.V)
      P == In(o.solid, U.P)
      from == Guard({x_Ve(o.solid, U.V, U.e ++ B_eq(o, One), One)})
      f    == Call1(o.solid, x, dim, One) ** (P ** V ++ B_eq(o, One))
  IN  NotSet \cup Ok(Guard({from, f}) ** Thermal(V, In(o.solid, U.e) ++ B_eq(o, One), P,
                                                 In(o.solid, U.T)))
EP_curves(o) ==
  [ isotherm_P |-> EP_isotherm(o, U.P, U.P), isotherm_V |-> EP_isotherm(o, U.V, U.V) ]

-----------------------------------------------------------------------------
(* DissipativePorous: the energy of compaction heats the solid.            *)

DSP_functions(o) ==
  LET V   == U.V
      P   == EP_P(o, V, U.e)
      at(es, want) == Guard({P}) ** x_Ve(o.solid, V, es, want)
      es  == U.e ++ B_eq(o, One)
      B2  == B_eq(o, One)
      c2s == at(U.e, U.u^^2)
      c2  == P ** V ++ ((B2 ++ P ** V) ** (c2s ++ P ** V))
                         // (B2 ++ c2s ++ at(U.e, One) ** P ** V)
      den == at(es, U.u^^2) ++ B2 ++ at(es, One) ** P ** V
  IN  [ P |-> P, T |-> at(U.e, U.T), S |-> at(U.e, U.S), c2 |-> c2, NotInDomain |-> Guard({c2}),
        Gamma |-> ((P ** V ++ B2) ** at(es, One)) // den,
        CV |-> at(es, U.Cv) // (One ++ ((P ** V ++ at(es, One) ** at(es, U.Cv) ** at(es, U.T))
                                          ** at(es, One)) // den),
        lastState |-> Guard({V ++ o.V_f}) ]

\* DissipativeIsotherm: the isotherm of the solid, asked for the porous P or V;
\* 1 also where the temperature of the state differs from that of the start.
DSP_isotherm(o, x, dim) ==
  LET V   == In(o.solid, U.V)
      e   == In(o.solid, U.e)
      P   == x_Ve(o.solid, V, e, U.P)
      phi == Call1(o.phi_eq, P ** V, U.e, One)
      set == Guard({ (IF dim = U.P THEN P ELSE V) ++ x, phi })
               ** Thermal(V // phi, e, phi ** P, eos_T(V // phi, e))
  IN  ErrorOne \cup Ok(set) \cup {<<1, "asked", set>>}
DSP_curves(o) ==
  [ isotherm_P |-> DSP_isotherm(o, U.P, U.P), isotherm_V |-> DSP_isotherm(o, U.V, U.V) ]

=============================================================================
