------------------------------ MODULE HErates -------------------------------
(***************************************************************************)
(* Burn rates: d lambda/dt of an explosive HE, a mixture (PTequilibrium) of *)
(* reactants and products with the mass fraction lambda of products.  HE is *)
(* a component: the mixture InitBurn makes.                                *)
(***************************************************************************)
EXTENDS EOScurves

HE_start   == [ HE |-> OldUnits ]
HE_convert == << Part("HE") >>

\* HErate::P, T and c.
HE_at(o, V, e, want) == x_Ve(o.HE, V, e, want)
HE_P(o) == HE_at(o, U.V, U.e, U.P)
HE_T(o) == HE_at(o, U.V, U.e, U.T)
HE_functions(o) == [ P |-> HE_P(o), T |-> HE_T(o), c |-> HE_at(o, U.V, U.e, U.u) ]

\* Copy makes a new rate, gives it the parameters, but neither a name, the
\* units nor the status good: it cannot be converted.
NewCopy == Aborted

\* What Rate, TimeStep, Integrate and Dt make of the rate: steps in time of
\* dlambda / rate, taken by a midpoint scheme with a tolerance for lambda or,
\* towards the end, by the solution for a rate that depends on lambda alone.
Burn(rate, dt_min) ==
  [ zdot |-> rate, TimeStep |-> One // rate ++ dt_min,
    Integrate |-> Guard({One ++ U.t ** rate, U.t ++ One // rate}),
    Dt |-> One // rate ++ One // rate ]

-----------------------------------------------------------------------------
(* Arrhenius and ArrheniusRT: k (1 - lambda)^n (T/T_m)^m exp(-T_a/T).      *)

AR_start == HE_start @@
  [ k |-> Unset, T_a |-> Unset, T_cutoff |-> Unset, T_max |-> One, T_m |-> One,
    dt_min |-> Free ]

AR_Rate(o, T) == Guard({T ++ o.T_max}) ** o.k ** Pure(T // o.T_m) ** Pure(o.T_a // T)

\* Where the rate is RMIN, a number: an estimate, and a step of Newton's iteration.
AR_cutoff(o) ==
  LET T == o.T_a // Pure(One // o.k)
      dlnRdT == (o.T_a // T ++ One) // T
  IN  T ++ Pure(AR_Rate(o, T)) // dlnRdT

AR_init(o) ==
  << Need({"k", "T_a"}), PutIf(~Is(o.T_cutoff), "T_cutoff", AR_cutoff(o)), SolveIf(TRUE, {}) >>
AR_convert ==
  HE_convert \o << Factors({"t", "T"}), Scale({"k"}, One // U.t),
                   Scale({"T_a", "T_m", "T_cutoff", "T_max"}, U.T), Scale({"dt_min"}, U.t) >>
AR_functions(o) ==
  LET T == HE_T(o)
  IN  Burn(Guard({T ++ o.T_cutoff}) ** AR_Rate(o, T), o.dt_min)
        @@ [copy |-> NewCopy] @@ HE_functions(o)

\* In the state with the shock (HotSpotHE) Rate leaves zdot[0] and zdot[1],
\* of the shock pressure and time, as they were.
ART_functions(o) == [zdot_shock |-> Unset] @@ AR_functions(o)

-----------------------------------------------------------------------------
(* PnRate: k (1 - lambda)^nu (P/Pcj)^N.                                    *)

PN_start == HE_start @@ [ k |-> Unset, Pcj |-> Unset, P_cutoff |-> Unset, dt_min |-> Free ]
PN_init(o) ==
  << Need({"k", "Pcj"}),
     PutIf(~Is(o.P_cutoff), "P_cutoff", o.Pcj ** Pow(One // o.k, One)) >>
PN_convert ==
  HE_convert \o << Factors({"t", "P"}), Scale({"k"}, One // U.t), Scale({"Pcj", "P_cutoff"}, U.P),
                   Scale({"dt_min"}, U.t) >>
PN_functions(o) ==
  LET p == HE_P(o)
  IN  Burn(Guard({p ++ o.P_cutoff}) ** o.k ** Pure(p // o.Pcj), o.dt_min)
        @@ [copy |-> NewCopy] @@ HE_functions(o)

-----------------------------------------------------------------------------
(* IgnitionGrowth and IgnitionGrowthRT.  2 and 3 stand for the exponents y *)
(* and z of the pressure.  Of the parameters, a and rho0 are not required. *)

IGR_start == HE_start @@
  [ I |-> Unset, G1 |-> Unset, G2 |-> Unset, rho0 |-> Unset, a |-> Unset ]
IGR_init == << Need({"I"}), Need({"G1"}), Need({"G2"}) >>
IGR_convert ==
  HE_convert \o << Factors({"t", "P", "rho"}), Scale({"I"}, One // U.t),
                   Scale({"G1"}, One // (U.t ** U.P^^2)), Scale({"G2"}, One // (U.t ** U.P^^3)),
                   Scale({"rho0"}, U.rho) >>
IGR_Rate(o, V, p) ==
  LET x == One // (V ** o.rho0)
  IN  o.I ** Pure(x ++ o.a) ++ o.G1 ** p^^2 ++ o.G2 ** p^^3
IGR_functions(o) == Burn(IGR_Rate(o, U.V, HE_P(o)), Free) @@ HE_functions(o)

\* IgnitionGrowthRT::Copy copies the parameters to itself and returns a new,
\* empty rate; Rate sets zdot[2] and zdot[3] only.
IGRT_functions(o) == [zdot_shock |-> Unset, copy |-> Unset] @@ IGR_functions(o)

-----------------------------------------------------------------------------
(* ReactiveHugoniot: lambda along the locus us = c0 + s u of shocks into    *)
(* the reactants, for a copy h of the mixture.  Its states ws0, CJ and c0  *)
(* are in the units of h.                                                  *)

HUG_us(h, u) == In(h, U.u) ++ u
HUG_state(h, u) ==
  LET us == HUG_us(h, u)
      V0 == In(h, U.V)
      P0 == In(h, U.P)
  IN  [ V |-> (One ++ u // us) ** V0, e |-> In(h, U.e) ++ P0 ** V0 ** (u // us) ++ u^^2,
        P |-> P0 ++ (u ** us) // V0 ]

\* d lambda/du
HUG_F(h, u) ==
  LET w  == HUG_state(h, u)
      us == HUG_us(h, u)
      V0 == In(h, U.V)
      dP == x_Ve(h, w.V, w.e, U.P)
      dPde == x_Ve(h, w.V, w.e, One) // w.V
      dPdV == w.P ** dPde ++ x_Ve(h, w.V, w.e, U.u^^2) // w.V^^2
      dVdu == (One ++ u // us) ** (V0 // us)
      dedu == u ++ dVdu ** In(h, U.P)
      dPdu == (One ++ u // us) ** (us // V0)
  IN  (dPdu ++ dPdV ** dVdu ++ dPde ** dedu) // dP
HUG_lambda(h, u) == One ++ HUG_F(h, u) ** (In(h, U.u) ++ u)

\* P(p): the state where the pressure is p, or the state CJ.
HUG_P(h, p, u) == Guard({p ++ In(h, U.P), HUG_state(h, u).P ++ p, HUG_lambda(h, u) ++ One})

-----------------------------------------------------------------------------
(* FFrate and FFQrate, Forest Fire: the rate behind a shock that runs up to *)
(* detonation over the distance Xpop(p), from the Hugoniot hug.            *)

FF_start == HE_start @@
  [ b |-> Unset, Pref |-> One, xref |-> One, dt_min |-> Free, hug |-> Unset, Pmax |-> Unset,
    Rmax |-> Unset ]
FF_hidden == {"hug", "Pmax", "Rmax"}

FF_Xpop(o, p) == o.xref ** Pure(p // o.Pref)
FF_Rate(o, p) ==
  LET u  == In(o.hug, U.u)
      w  == HUG_state(o.hug, u)
      us == HUG_us(o.hug, u)
      dP == x_Ve(o.HE, w.V, w.e, U.P)
      c  == x_Ve(o.HE, w.V, w.e, U.u)
      rho == (One // w.V) // (One // In(o.hug, U.V))
  IN  HUG_P(o.hug, p, u)
        ** (One ++ (rho ** (c // us)) // (One ++ u // us)) ** (us // dP) ** (p // FF_Xpop(o, p))

\* InitBurn: the Hugoniot, and the rate at lambda_max.
FF_InitBurn(o) ==
  << SolveIf(TRUE, {}), Put("hug", o.HE),
     Put("Pmax", HE_at(o, In(o.hug, U.V), In(o.hug, U.e), U.P)), Put("Rmax", FF_Rate(o, o.Pmax)) >>
FF_init(o) == << Need({"b"}) >> \o FF_InitBurn(o)
FF_convert(o) ==
  HE_convert \o << Factors({"L", "t", "P"}), Scale({"xref"}, U.L), Scale({"Pref"}, U.P),
                   Scale({"dt_min"}, U.t) >> \o FF_InitBurn(o)

FF_burn(o, p) == Burn(Guard({p ++ o.Pmax}) ** (FF_Rate(o, p) ++ o.Rmax), o.dt_min)
FF_functions(o) ==
  FF_burn(o, HE_P(o)) @@ [ copy |-> NewCopy, Xpop |-> FF_Xpop(o, U.P),
                           hug_F |-> HUG_F(o.hug, U.u), hug_lambda |-> HUG_lambda(o.hug, U.u) ]
    @@ HE_functions(o)

\* FFQrate adds Q, a viscous pressure, to the pressure of the state.
FFQ_functions(o) == FF_burn(o, HE_P(o) ++ U.P) @@ FF_functions(o)

=============================================================================
