---------------------------- MODULE HotSpotRates ----------------------------
(***************************************************************************)
(* Burn rates of hot spots behind a shock that passed at the time ts, with *)
(* the shock pressure Ps and temperature Ts: lambda = g(s) of a scaled     *)
(* distance s with ds/dt = f(Ps) D(P/Ps).  g, D and the fits are pure       *)
(* numbers.                                                                *)
(***************************************************************************)
EXTENDS HErates

\* HotSpotRate: f = exp(A + B Ps/Pref) between P0 and P1.
HS_start == HE_start @@
  [ B |-> Unset, Pref |-> One, tref |-> One, P0 |-> Free, P1 |-> Unset ]
HS_init(o) == << Need({"B"}), PutIf(~Is(o.P1), "P1", Free), SolveIf(TRUE, {}) >>
HS_convert ==
  HE_convert \o << Factors({"t", "P"}), Scale({"Pref"}, U.P), Scale({"tref"}, U.t),
                   Scale({"P0", "P1"}, U.P) >>
HS_f(o, Ps) ==
  Guard({Ps ++ o.P1, Ps ++ o.P0})
    ** (Pure(Ps // o.Pref) ++ Pure((Ps ++ o.P0) // o.Pref) ++ Pure((Ps ++ o.P1) // o.Pref))
HS_functions(o) ==
  Burn((HS_f(o, U.P) ** Pure(HE_P(o) // U.P)) // o.tref, Free)
    @@ [ copy |-> NewCopy, slope |-> HS_f(o, U.P) // o.Pref ] @@ HE_functions(o)

\* HotSpotRate2: f = s0(Ps, Ts) of the hot spot temperature Ts + a Ps.  s0 is
\* kept in the state (HotSpotHE2) once computed.
HS2_start == HE_start @@ [ a |-> Unset, b |-> Unset, sigma |-> Unset, Ti |-> Unset ]
HS2_init == << Need({"b"}), Need({"a"}), Need({"sigma"}), Need({"Ti"}), SolveIf(TRUE, {}) >>
HS2_convert ==
  HE_convert \o << Factors({"t", "P", "T"}), Scale({"b"}, One // U.t), Scale({"a"}, U.T // U.P),
                   Scale({"sigma", "Ti"}, U.T) >>
HS2_s0(o) == o.b ** Pure((o.Ti ++ U.T ++ o.a ** U.P) // o.sigma)

\* HotSpotRateExp: the same with s0 = exp(b + (Ts + a Ps/Pref)/Tw) / tref.
HSE_start == HE_start @@ [ a |-> Free, Tw |-> Unset, Pref |-> One, tref |-> One ]
HSE_init  == << Need({"Tw"}), SolveIf(TRUE, {}) >>
HSE_convert ==
  HE_convert \o << Factors({"t", "P", "T"}), Scale({"Pref"}, U.P), Scale({"tref"}, U.t),
                   Scale({"a", "Tw"}, U.T) >>
HSE_s0(o) == Pure((U.T ++ o.a ** (U.P // o.Pref)) // o.Tw) // o.tref

HS0_functions(o, s0) ==
  Burn((s0 ++ One // U.t) ** Pure(HE_P(o) // U.P), Free)
    @@ [ copy |-> NewCopy, s0 |-> s0 ] @@ HE_functions(o)
HS2_functions(o) == HS0_functions(o, HS2_s0(o))
HSE_functions(o) == HS0_functions(o, HSE_s0(o))

-----------------------------------------------------------------------------
(* HotSpotRateCC and HotSpotCC_Rate: hot spots, then carbon clusters: a     *)
(* second fraction lambda2 = s2^2 with the energy q = lambda de(lambda2).   *)

\* What both classes have: the times and the energy of the clusters, and the
\* function f in the form HotSpotRateCC.C calls deprecated.
CL_start == HE_start @@
  [ Pref |-> One, tref |-> One, B |-> Unset, Pign |-> Unset, Pmax |-> Unset, fmax |-> Unset,
    fign |-> Unset, Q |-> Free, t1 |-> Unset, t2 |-> Unset, tb |-> Unset, t3 |-> Unset,
    a2 |-> Unset, a3 |-> Unset ]
CL_hidden == {"fign", "tb", "t3", "a2", "a3"}

CL_fign(o) == Pure(o.Pign // o.Pref) // o.tref
CL_init(o) ==
  << Need({"t1", "t2"}), Put("a2", One // (o.t2 ++ o.t1)), Put("tb", o.t1 ++ One // o.a2),
     Put("a3", o.a2^^2), Put("t3", o.t2 ++ One // o.a2), SolveIf(TRUE, {}) >>
CL_convert ==
  HE_convert \o
  << Factors({"P", "t", "e"}), Scale({"Pref", "Pign", "Pmax"}, U.P), Scale({"Q"}, U.e),
     Scale({"tref", "t1", "t2", "tb", "t3"}, U.t), Scale({"a2"}, One // U.t),
     Scale({"a3"}, One // U.t^^2) >>

\* f, and the slope by Ps: the numerator is a number for low and the rates
\* fign and fmax for high pressures.
CL_f(o, Ps) ==
  Guard({Ps ++ o.Pign, Ps ++ o.Pmax})
    ** ((Pure(Ps // o.Pref) ++ ((Ps ++ o.Pign) ** (o.fmax ++ o.fign)) // (o.Pmax ++ o.Pign)
           ++ o.fmax) // o.tref)
CL_dfdp(o, Ps) ==
  Guard({Ps ++ o.Pign, Ps ++ o.Pmax})
    ** ((Pure(Ps // o.Pref) // o.Pref ++ (o.fmax ++ o.fign) // (o.Pmax ++ o.Pign)) // o.tref)

\* h(t), its inverse, and ds2/dt: a parabola to (t1, h1), a line to (t2, h2),
\* a parabola to (t3, 1).  Where s2 = 1, rate_s2 returns what it never set.
CL_h(o, t) ==
  LET d1 == o.t1 ++ One // o.a2
      alpha == (d1 ++ Sqrt((o.t1 ++ t ++ One // o.a2)^^2 ++ t ** (o.t1 ++ t)))
                  // (One // o.a2 ++ o.t1)
  IN  Guard({t ++ o.t1, t ++ o.t2, t ++ o.t3})
        ** (Pure(alpha)^^2 ++ t // d1 ++ o.a2 ** t ++ o.a3 ** (o.t3 ++ t)^^2 ++ One)
CL_hinv(o) ==
  (o.t1 ++ One // o.a2) ++ o.t1 ++ o.t1 ++ One // o.a2 ++ o.t3 ++ Sqrt(One // o.a3) ++ o.t3
CL_rate_s2(o) == One // (o.tb ++ o.t1) ++ o.a2 ++ Sqrt(o.a3)

\* q and the mixture at e - q.
CL_q(o) == Pure(One) ** o.Q
CL_at(o, V, e, want) == HE_at(o, V, e ++ CL_q(o), want)

\* The steps of s and of s2.
CL_burn(o, f, p) ==
  LET sdot  == f ** Pure(p // U.P)
      s2dot == CL_rate_s2(o)
      dt    == One // sdot ++ One // s2dot
      steps == Guard({One ++ U.t ** sdot, One ++ U.t ** (s2dot ++ Unset)})
  IN  [ zdot |-> sdot, zdot_s2 |-> s2dot, TimeStep |-> dt, Integrate |-> steps,
        Dt |-> Guard({dt ** s2dot}) ** dt, h |-> CL_h(o, U.t), hinv |-> CL_hinv(o),
        rate_s2 |-> s2dot ++ Unset, q |-> CL_q(o), copy |-> NewCopy ]

\* HotSpotCC_Rate: the energy e_cc of the clusters is in the state.
HCC_init(o) ==
  << Need({"B"}), Need({"Pign", "Pmax"}), Put("fign", CL_fign(o)), Need({"fmax"}) >>
    \o CL_init(o)
HCC_functions(o) ==
  LET P == CL_at(o, U.V, U.e, U.P)
      b == CL_burn(o, CL_f(o, U.P), P)
  IN  [ zdot_e |-> CL_q(o) ** (b.zdot ++ b.zdot_s2), P |-> P, T |-> CL_at(o, U.V, U.e, U.T),
        c |-> CL_at(o, U.V, U.e, U.u), dfdp |-> CL_dfdp(o, U.P) ] @@ b

-----------------------------------------------------------------------------
(* HotSpotRateCC: f in one of three forms, by whether fn or df1 is given.  *)

RCC_start == CL_start @@ [ fn |-> Unset, df1 |-> Unset, P0 |-> Free, P1 |-> Unset,
                           Pr |-> Unset, Cr |-> Unset, C |-> Unset ]
RCC_hidden == CL_hidden \cup {"C"}
RCC_smooth(o) == Is(o.fn) \/ Is(o.df1)

RCC_init(o) ==
  << NeedIf(Is(o.fn), {"df1", "P1", "Cr", "Pr"}),
     PutIf(Is(o.fn), "C", o.Cr // Pure((o.Pr ++ o.P0) // o.Pref)), NeedIf(~Is(o.fn), {"B"}),
     NeedIf(RCC_smooth(o), {"P1"}),
     PutIf(RCC_smooth(o) /\ ~Is(o.fn), "Pmax", Free), PutIf(RCC_smooth(o) /\ ~Is(o.fn), "fmax", Free),
     NeedIf(~RCC_smooth(o), {"Pign", "Pmax"}),
     PutIf(~RCC_smooth(o), "fign", CL_fign(o)), NeedIf(~RCC_smooth(o), {"fmax"}) >>
    \o CL_init(o)
RCC_convert == CL_convert \o << Scale({"P0", "P1", "Pr"}, U.P) >>

RCC_f(o, Ps) ==
  IF ~RCC_smooth(o) THEN CL_f(o, Ps)
  ELSE Guard({Ps ++ o.P0, Ps ++ o.P1})
         ** (((IF Is(o.fn) THEN o.C ** Pure((Ps ++ o.P0) // o.Pref) ELSE Pure(Ps // o.Pref))
                ++ Pure((Ps ++ o.P1) // o.Pref)) // o.tref)
RCC_dfdp(o, Ps) == IF RCC_smooth(o) THEN RCC_f(o, Ps) // o.Pref ELSE CL_dfdp(o, Ps)

\* HErate2: the mixture with the energy of its products moved by e2(lambda2).
HE2_at(o, V, e, want) == Guard({CL_q(o) ++ In(o.HE, U.e)}) ** HE_at(o, V, e, want)

\* dlambdadt has no return statement.
RCC_functions(o) ==
  LET V == U.V
      e == U.e
      P == HE2_at(o, V, e, U.P)
      GammaV == HE2_at(o, V, e, One) // V
      Cv == HE2_at(o, V, e, U.Cv)
  IN  [ P |-> P, T |-> HE2_at(o, V, e, U.T), c |-> HE2_at(o, V, e, U.u),
        dPdlambda |-> P ++ GammaV ** CL_q(o),
        dTdlambda |-> (HE2_at(o, V, e, U.T) ++ CL_q(o) // Cv) ++ CL_q(o) // Cv,
        dlambdadt |-> Unset, dfdp |-> RCC_dfdp(o, U.P), rate_s |-> RCC_f(o, U.P) ** Pure(P // U.P) ]
        @@ CL_burn(o, RCC_f(o, U.P), P)

=============================================================================
