----------------------------- MODULE EOSbasics ------------------------------
(***************************************************************************)
(* The interfaces EOS (functions of V, e) and EOS_VT (functions of V, T):  *)
(* the functions a concrete class supplies, as its callers see them, the   *)
(* defaults the base classes compute from them, and the part of            *)
(* InitParams and ConvertParams that the base classes do.                  *)
(***************************************************************************)
EXTENDS Dimensions, Sequences, TLC

-----------------------------------------------------------------------------
(* What a caller gets from a virtual function: its documented dimension.   *)

eos_P(V, e)     == OfVe(V, e, U.P)
eos_T(V, e)     == OfVe(V, e, U.T)
eos_S(V, e)     == OfVe(V, e, U.S)
eos_c2(V, e)    == OfVe(V, e, U.u^^2)
eos_c(V, e)     == Sqrt(eos_c2(V, e))
eos_Gamma(V, e) == OfVe(V, e, One)
eos_FD(V, e)    == OfVe(V, e, One)
eos_CV(V, e)    == OfVe(V, e, U.Cv)
eos_KS(V, e)    == eos_c2(V, e) // V
eos_e_PV(P, V)  == Guard({P ++ U.P, V ++ U.V}) ** U.e
eos_Domain(V, e) == OfVe(V, e, One)          \* NotInDomain, InDomain

vt_P(V, T)      == OfVT(V, T, U.P)
vt_e(V, T)      == OfVT(V, T, U.e)
vt_S(V, T)      == OfVT(V, T, U.S)
vt_P_V(V, T)    == OfVT(V, T, U.P // U.V)
vt_P_T(V, T)    == OfVT(V, T, U.P // U.T)
vt_CV(V, T)     == OfVT(V, T, U.Cv)
vt_Gamma(V, T)  == OfVT(V, T, One)
vt_cT2(V, T)    == OfVT(V, T, U.u^^2)

\* The dimension in which each virtual function answers; the functions not
\* named here return flags and pure numbers.
Answers ==
  [ P |-> U.P, T |-> U.T, S |-> U.S, c2 |-> U.u^^2, CV |-> U.Cv, CP |-> U.Cv,
    KT |-> U.P, KS |-> U.P, beta |-> U.beta, e_PV |-> U.e, e |-> U.e,
    F |-> U.e, dPdlambda |-> U.P, dTdlambda |-> U.T, P_V |-> U.P // U.V,
    P_T |-> U.P // U.T, cT2 |-> U.u^^2, P_frozen |-> U.P, P_min |-> U.P, E_max |-> U.e,
    PV |-> U.e, PV_0 |-> U.e, PV_1 |-> U.e, dphi |-> One // U.e, d2phi |-> U.e^^(-2),
    energy |-> U.e, denergy |-> U.e, d2energy |-> U.e,
    zdot |-> One // U.t, zdot_s2 |-> One // U.t, zdot_e |-> U.e // U.t, TimeStep |-> U.t,
    Dt |-> U.t, s0 |-> One // U.t, rate_s |-> One // U.t, rate_s2 |-> One // U.t,
    dlambdadt |-> One // U.t, slope |-> One // U.P, dfdp |-> One // (U.t ** U.P),
    z_Ps |-> U.P, z_Ts |-> U.T, z_ts |-> U.t, z_s0 |-> One // U.t, z_e_cc |-> U.e, z_Q |-> U.P,
    hinv |-> U.t, q |-> U.e, c |-> U.u, Xpop |-> U.L, hug_F |-> One // U.u,
    z_tauinv |-> One // U.t, zdot_tauinv |-> U.t^^(-2), Tau |-> U.t, Ps |-> U.P, Pdev |-> U.P,
    dPdev_deps |-> U.P, Phydro |-> U.P, Pshear |-> U.P, yield_function |-> U.P,
    yield_strength |-> U.P, dPdT |-> U.P // U.T, cs2 |-> U.u^^2, d2PdV2 |-> U.P // U.V^^2,
    V_ref |-> U.V, e_ref |-> U.e, T_ref |-> U.T, P_vac |-> U.P ]

-----------------------------------------------------------------------------
(* The defaults of class EOS.  The tolerances are dimensionless (EOS.h).   *)

EOS_NotInDomain(V, e) == Guard({eos_c2(V, e)})

EOS_c2(V, e) ==
  LET p0 == eos_P(V, e)
      dV == V
      V1 == V ++ dV
      e1 == e ++ p0 ** dV
      p1 == eos_P(V1, e1)
      p2 == eos_P(V1 ++ dV, e1 ++ p1 ** dV)
      dP  == p2 ++ p0
      d2P == p2 ++ p1 ++ p0
  IN  Guard({p1 ++ p0, p2 ++ p1, d2P ++ dP}) ** ((V^^2 ** (dP ++ d2P)) // dV)

EOS_FD(V, e) ==
  LET rc2(v, x) == eos_c2(v, x) // v^^2
      p0 == eos_P(V, e)
      dV == V
      V1 == V ++ dV
      p1 == eos_P(V1, e ++ p0 ** dV)
      e1 == e ++ (p0 ++ p1) ** dV
      V2 == V1 ++ dV
      p2 == eos_P(V2, e1 ++ p1 ** dV)
      e2 == e1 ++ (p1 ++ p2) ** dV
      drc2  == rc2(V2, e2) ++ rc2(V, e)
      d2rc2 == rc2(V2, e2) ++ rc2(V1, e1) ++ rc2(V, e)
  IN  Guard({p1 ++ p0, p2 ++ p1, d2rc2 ++ drc2})
        ** ((drc2 ++ d2rc2) // dV) ** (V // rc2(V, e))

EOS_Gamma(V, e) ==
  LET de == eos_c2(V, e)
      dP == eos_P(V, e ++ de) ++ eos_P(V, e)
  IN  Guard({dP}) ** ((V ** dP) // de)

EOS_CV(V, e) ==
  LET de == eos_c2(V, e)
      dT == eos_T(V, e ++ de) ++ eos_T(V, e)
  IN  Guard({dT}) ** (de // dT)

EOS_CP(V, e) ==
  LET csq == eos_c2(V, e)
      G   == eos_Gamma(V, e)
      Cv  == eos_CV(V, e)
  IN  (csq ** Cv) // (csq ++ G^^2 ** Cv ** eos_T(V, e))

EOS_KT(V, e) ==
  (eos_c2(V, e) ++ eos_Gamma(V, e)^^2 ** eos_CV(V, e) ** eos_T(V, e)) // V

EOS_beta(V, e) ==
  LET G  == eos_Gamma(V, e)
      Cv == eos_CV(V, e)
  IN  (G ** Cv) // (eos_c2(V, e) ++ G^^2 ** Cv ** eos_T(V, e))

\* Newton's iteration for e at (P, V): the tolerance is the larger of
\* OneDFunc_abs_tol and OneDFunc_rel_tol * p.
EOS_e_PV(o, p, V) ==
  LET e  == o.e_ref ++ p ** (o.V_ref ++ V)
      p1 == eos_P(V, e)
  IN  Guard({V ++ o.V_ref, (p ++ p1) ++ (One ++ p)})
        ** (e ++ (V ** (p ++ p1)) // eos_Gamma(V, e))

\* e_EOS::e, the energy on a line of constant V where T is as given.
e_EOS(V, T, e0) ==
  LET step(e) == e ++ eos_CV(V, e) ** (T ++ eos_T(V, e))
      e1 == step(e0)
  IN  Guard({T ++ eos_T(V, e0), T ++ eos_T(V, e1), T ++ eos_T(V, step(e1))})
        ** (e1 ++ step(e1))

\* EOS::PT: the isotherm from the reference state, then Newton's iteration in
\* two variables whose tolerances are OneDFunc_abs_tol + OneDFunc_rel_tol * P.
EOS_PT(o, p, t) ==
  LET Tref == eos_T(o.V_ref, o.e_ref)
      V    == o.V_ref ++ U.V
      e    == o.e_ref ++ e_EOS(V, t, o.e_ref)
      P1   == eos_P(V, e)
      T1   == eos_T(V, e)
      dPde == eos_Gamma(V, e) // V
      dTde == One // eos_CV(V, e)
      dPdV == dPde ** P1 ++ eos_c2(V, e) // V^^2
      dTdV == dTde ** P1 ++ dPde ** T1
      det  == dPdV ** dTde ++ dPde ** dTdV
      dP   == p ++ P1
      dT   == t ++ T1
      dV   == (dTde ** dP ++ dPde ** dT) // det
      de   == (dPdV ** dT ++ dTdV ** dP) // det
  IN  Guard({t ++ Tref, p ++ o.P_vac, p ++ eos_P(o.V_ref, o.e_ref),
             dP ++ (One ++ P1), dT ++ (One ++ T1),
             V ++ dV, e ++ de, de ++ t // dTde})
        ** eos_Domain(V ++ dV, e ++ de)

EOS_functions(o) ==
  LET V == U.V
      e == U.e
  IN  [ NotInDomain |-> EOS_NotInDomain(V, e), c2 |-> EOS_c2(V, e), FD |-> EOS_FD(V, e),
        Gamma |-> EOS_Gamma(V, e), CV |-> EOS_CV(V, e), CP |-> EOS_CP(V, e),
        KT |-> EOS_KT(V, e), beta |-> EOS_beta(V, e), e_PV |-> EOS_e_PV(o, U.P, V),
        e |-> e_EOS(V, U.T, e), PT |-> EOS_PT(o, U.P, U.T) ]

-----------------------------------------------------------------------------
(* The defaults of class EOS_VT.                                           *)

VT_F(V, T)  == vt_e(V, T) ++ T ** vt_S(V, T)
VT_KT(V, T) == V ** vt_P_V(V, T)
VT_KS(V, T) == V ** vt_P_V(V, T) ++ ((T ** V) // vt_CV(V, T)) ** vt_P_T(V, T)^^2
VT_CP(V, T) == vt_CV(V, T)
                 ++ ((V ** T) // VT_KT(V, T)) ** vt_P_T(V, T)^^2
VT_Gamma(V, T) == (V ** vt_P_T(V, T)) // vt_CV(V, T)
VT_beta(V, T)  == vt_P_T(V, T) // VT_KT(V, T)
VT_c2(V, T)  == V ** VT_KS(V, T)
VT_cT2(V, T) == V ** VT_KT(V, T)

VT_functions ==
  LET V == U.V
      T == U.T
  IN  [ F |-> VT_F(V, T), KT |-> VT_KT(V, T), KS |-> VT_KS(V, T), CP |-> VT_CP(V, T),
        Gamma |-> VT_Gamma(V, T), beta |-> VT_beta(V, T), c2 |-> VT_c2(V, T),
        cT2 |-> VT_cT2(V, T) ]

-----------------------------------------------------------------------------
(***************************************************************************)
(* InitParams and ConvertParams of a class are sequences of statements     *)
(* over its data members.  Reading the parameters gives members a value;   *)
(* Is(x) is !isnan(x).                                                     *)
(***************************************************************************)
Is(x) == x # Unset

Stmt(do, if, of, val) == [do |-> do, if |-> if, of |-> of, val |-> val]

\* The members S must be set, and in their range, or the function returns 1.
Need(S)         == Stmt("need", TRUE, S, Free)
NeedIf(c, S)    == Stmt("need", c, S, Free)
\* x = v
Put(x, v)       == Stmt("put", TRUE, {x}, v)
PutIf(c, x, v)  == Stmt("put", c, {x}, v)
\* A computation that may fail, and otherwise sets the members S.
SolveIf(c, S)   == Stmt("solve", c, S, Free)
\* A comparison or a computation, after which the members S may have been set.
TestIf(c, S)    == Stmt("test", c, S, Free)
\* The factors of the quantities Q must exist or the function returns 1.
Factors(Q)      == Stmt("factors", TRUE, Q, 1)
\* x *= s_d for the members S
Scale(S, d)     == Stmt("scale", TRUE, S, d)
ScaleIf(c, S, d) == Stmt("scale", c, S, d)
\* x *= factor(q), then return 1 if x is not finite
ScaleOrFail(x, q) == Stmt("scaleOrFail", TRUE, {x}, q)
\* if( x && x->ConvertUnits(convert) ) return 1, or -1
Part(x)         == Stmt("part", TRUE, {x}, 1)
PartFatal(x)    == Stmt("part", TRUE, {x}, -1)
\* if( x && x->ConvertUnits(convert) ) delete x
Refresh(x)      == Stmt("refresh", TRUE, {x}, Free)

\* EOS::EOS, EOS::InitBase after InitParams, EOS::ConvertParams.
EOS_start == [ V_ref |-> Unset, e_ref |-> Unset, P_ref |-> Unset,
               P_vac |-> One, VTeos |-> Free ]

EOS_init(o) ==
  << SolveIf(Is(o.P_ref), {"V_ref", "e_ref"}), Need({"V_ref", "e_ref"}) >>

EOS_convert ==
  << Factors({"V", "e", "P"}), Scale({"P_vac"}, U.P), Scale({"V_ref"}, U.V),
     Scale({"e_ref"}, U.e), Refresh("VTeos") >>

EOS_base(o) == [ V_ref |-> o.V_ref, e_ref |-> o.e_ref, P_vac |-> o.P_vac,
                 VTeos |-> o.VTeos ]

\* EOS_VT likewise.
VT_start == [ V_ref |-> Unset, T_ref |-> Unset, Ve_eos |-> Free ]

VT_init == << Need({"V_ref", "T_ref"}) >>

VT_convert ==
  << Factors({"V", "T"}), Scale({"V_ref"}, U.V), Scale({"T_ref"}, U.T),
     Refresh("Ve_eos") >>

VT_base(o) == [ V_ref |-> o.V_ref, T_ref |-> o.T_ref, Ve_eos |-> o.Ve_eos ]

-----------------------------------------------------------------------------
(***************************************************************************)
(* Composite objects: an equation of state made of others.  A component is *)
(* an object with units of its own (OldUnits, NewUnits); it takes and gives *)
(* numbers in the units it is in.                                          *)
(***************************************************************************)
In(x, dim) == IF x = OldUnits THEN One ELSE dim

Call(x, a, dimA, b, dimB, want) ==
  IF x \in {Unset, Aborted} THEN Unset
  ELSE Guard({a ++ In(x, dimA), b ++ In(x, dimB)}) ** In(x, want)

\* A call with one argument.
Call1(x, a, dimA, want) == Call(x, a, dimA, Free, One, want)

\* The functions of (V, e) and of (V, T) of the component x.
x_Ve(x, V, e, want) == Call(x, V, U.V, e, U.e, want)
x_VT(x, V, T, want) == Call(x, V, U.V, T, U.T, want)

\* All that can fail in these statements is fatal: the object is left bad.
Fatal(statements) ==
  [ i \in DOMAIN statements |->
      IF statements[i].do \in {"factors", "part"}
      THEN [statements[i] EXCEPT !.val = -1] ELSE statements[i] ]

=============================================================================
