----------------------------- MODULE EOScurves ------------------------------
(***************************************************************************)
(* The wave curves an EOS provides by default: isentrope and isotherm      *)
(* (integrated), shock, detonation and deflagration loci, shock polar,     *)
(* Prandtl-Meyer fan.                                                      *)
(*                                                                         *)
(* A function of a curve returns a status and sets a wave: its value is    *)
(* the set of the outcomes <<status, at, wave>> its paths can have.  at    *)
(* says where on the curve the wave was set: "asked" for the value of the  *)
(* argument, "p_vac" for the end of the curve, "none" not at all.  wave is *)
(* One when every field has the unit it should have and follows the        *)
(* direction of the wave and the speed of the observer as it should.       *)
(***************************************************************************)
EXTENDS EOSbasics

\* The difference of a velocity and the one it is compared with or measured
\* from, in the direction of the wave.
Forward(u, from) == dir ** (u -- from)
Angle == [dir EXCEPT ![6] = 1]

Wave(V, e, P, u, us) ==
  Guard({V ++ U.V, e ++ U.e, P ++ U.P,
         Forward(u, Velocity) ++ U.u, Forward(us, Velocity) ++ U.u})
Thermal(V, e, P, T) == Guard({V ++ U.V, e ++ U.e, P ++ U.P, T ++ U.T})
Polar(V, e, P, q, theta, beta) ==
  Guard({V ++ U.V, e ++ U.e, P ++ U.P, q ++ U.u,
         Forward(theta, Angle) ++ One, Forward(beta, Angle) ++ One})

Ok(wave)     == {<<0, "asked", wave>>}
Vacuum(wave) == {<<1, "p_vac", wave>>}
NotSet       == {<<-1, "none", One>>}
ErrorOne     == {<<1, "none", One>>}       \* return 1 before the wave is set

\* The outcomes S, after the comparisons G.
After(G, S) == { <<x[1], x[2], Guard(G) ** x[3]>> : x \in S }

\* return P(p_vac, ...), or with its status 0 replaced by 1, others by -1.
ReturnVacuum(S) == { <<x[1], IF x[2] = "none" THEN "none" ELSE "p_vac", x[3]>> :
                       x \in { y \in S : y[1] # 1 } }
\* Mutant: the status 0 is passed on.
ToVacuum_status(S) == { <<IF x[1] = 0 THEN 0 ELSE -1, x[2], x[3]>> : x \in ReturnVacuum(S) }
ToVacuum(S) == { <<IF x[1] = 0 THEN 1 ELSE -1, x[2], x[3]>> : x \in ReturnVacuum(S) }

\* EOS::Evaluate: the initial state of a curve.
state0 ==
  [ V |-> U.V, e |-> U.e, u |-> Velocity, P |-> eos_P(U.V, U.e),
    T |-> eos_T(U.V, U.e), c |-> eos_c(U.V, U.e) ]
p_vac == U.P                        \* EOS::P_vac, see ConvertUnits

-----------------------------------------------------------------------------
(* Isentrope_ODE: y = (e, u - u0), yp = (-P, c/V).                         *)

IS_yp(V, e) == [ e |-> eos_P(V, e), u |-> eos_c(V, e) // V ]
IS_y == [ e |-> state0.e ++ IS_yp(U.V, U.e).e ** U.V,
          u |-> IS_yp(U.V, U.e).u ** U.V ]

IS_set(V) ==
  LET yp == IS_yp(V, IS_y.e)
      u  == state0.u -- dir ** IS_y.u
  IN  Wave(V, IS_y.e, yp.e, u, u ++ dir ** V ** yp.u)

\* de/dV only; the tolerance ODE::epsilon is dimensionless.
IS_MaxNorm ==
  LET abs_err == IS_y.e
      rel_err == IS_y.e // (IS_y.e ++ One)
  IN  rel_err ++ abs_err

IS_P(p) ==
  After({p ++ p_vac}, NotSet \cup Ok(IS_set(U.V)) \cup Vacuum(IS_set(U.V)))
IS_V(V) ==
  After({V ++ state0.V, IS_yp(V, IS_y.e).e ++ p_vac},
        NotSet \cup Ok(IS_set(V)) \cup ToVacuum(IS_P(p_vac)))
IS_u(u) ==
  After({Forward(state0.u, u) ++ IS_y.u, IS_yp(U.V, IS_y.e).e ++ p_vac},
        NotSet \cup Ok(IS_set(U.V)) \cup ToVacuum(IS_P(p_vac)))
IS_u_s(us) ==
  After({Forward(us, state0.u) ++ (IS_y.u ++ U.V ** IS_yp(U.V, IS_y.e).u),
         IS_yp(U.V, IS_y.e).e ++ p_vac},
        NotSet \cup Ok(IS_set(U.V)) \cup ToVacuum(IS_P(p_vac)))

-----------------------------------------------------------------------------
(* Isotherm_ODE: y = e.                                                    *)

IT_yp(V, e) ==
  eos_P(V, e) ++ (eos_Gamma(V, e) ** eos_CV(V, e) ** state0.T) // V
IT_e == state0.e ++ IT_yp(U.V, state0.e) ** U.V
IT_set(V) == Thermal(V, IT_e, eos_P(V, IT_e), eos_T(V, IT_e))

IT_P(p) ==
  After({p ++ p_vac, eos_P(U.V, IT_e) ++ p_vac},
        NotSet \cup Ok(IT_set(U.V)) \cup Vacuum(IT_set(U.V)))
IT_V(V) ==
  After({V ++ state0.V, eos_P(V, IT_e) ++ p_vac},
        NotSet \cup Ok(IT_set(V)) \cup ToVacuum(IT_P(p_vac)))

-----------------------------------------------------------------------------
(* Hugoniot_generic: f is the jump condition that is solved for V1 or e1.  *)

HG_e1(V1, dedV) == state0.e ++ dedV ** (state0.V ++ V1)

HG_f_pressure(V1, p_av) == eos_P(V1, HG_e1(V1, p_av))
HG_f_velocity(V1, du) ==
  (eos_P(V1, state0.e ++ du^^2 ++ state0.P ** (state0.V ++ V1)) ++ state0.P)
    ** (state0.V ++ V1)
HG_f_wave_speed(V1, m2) ==
  LET dV == state0.V ++ V1
  IN  (eos_P(V1, state0.e ++ m2 ** dV^^2 ++ state0.P ** dV) ++ state0.P) ++ m2 ** dV
HG_f_specificV(V1, e1) ==
  e1 ++ state0.e ++ (eos_P(V1, e1) ++ state0.P) ** (state0.V ++ V1)

\* f is monotonic in V: the sign of df/dV.
HG_dfdV(V1, e1, p_av) ==
  LET p1   == eos_P(V1, e1)
      G    == eos_Gamma(V1, e1)
      dPdV == eos_c2(V1, e1) // V1^^2 ++ (G ** p1) // V1
  IN  dPdV ++ (G ** p_av) // V1
HG_dfdV_u(V1, e1) ==
  LET p1 == eos_P(V1, e1)
  IN  p1 ++ (((p1 ++ state0.P) ** eos_Gamma(V1, e1)) // V1
               ++ eos_c2(V1, e1) // V1^^2) ** (state0.V ++ V1)

HG_initial ==
  Wave(state0.V, state0.e, state0.P, state0.u, state0.u ++ dir ** state0.c)

HG_Vbound_P(p) ==
  LET Vmin == state0.V ** (One ++ (state0.V ** (p ++ state0.P)) // state0.c^^2)
  IN  state0.V ++ Vmin
HG_weak_P(p) ==
  LET K  == state0.c^^2 // state0.V
      dp == p ++ state0.P
      V  == (One ++ dp // K) ** state0.V
      e  == state0.e ++ (p ++ state0.P) ** (dp // K) ** state0.V
      VKinv == (state0.V // state0.c)^^2 ++ V^^2 // eos_c2(V, e)
      dV == dp ** VKinv
      rhoc_inv == Sqrt(VKinv)
  IN  Guard({dp ++ K}) **
        Wave(state0.V ++ dV, state0.e ++ (p ++ state0.P) ** dV, p,
             state0.u ++ dir ** dp ** rhoc_inv,
             state0.u ++ dir ** (state0.V // rhoc_inv))
HG_P(p) ==
  LET p_av == state0.P ++ p
      V1   == HG_Vbound_P(p)
      e1   == HG_e1(V1, p_av)
      us   == dir ** state0.V ** Sqrt((p ++ state0.P) // (state0.V ++ V1))
  IN  After({p ++ state0.P, (state0.P ++ p) ++ state0.c^^2 // state0.V},
        NotSet \cup Ok(HG_initial) \cup Ok(HG_weak_P(p))
          \cup Ok(Guard({HG_f_pressure(V1, p_av) ++ p, HG_dfdV(V1, e1, p_av)}) **
                    Wave(V1, e1, eos_P(V1, e1),
                         state0.u ++ (One ++ V1 // state0.V) ** us, state0.u ++ us)))

HG_Vbound_us == state0.V ** (One ++ One // (One ++ One // eos_Gamma(state0.V, state0.e)))
HG_u_s(us) ==
  LET D  == Forward(us, state0.u)
      m2 == ((us -- state0.u) // state0.V)^^2
      s  == eos_FD(state0.V, state0.e)
      up == (D ++ state0.c) // s
      dV == (up // D) ** state0.V
      V1 == HG_Vbound_us
      e1 == state0.e ++ m2 ** (state0.V ++ V1)^^2 ++ state0.P ** (state0.V ++ V1)
  IN  After({D ++ state0.c},
        NotSet \cup Ok(HG_initial)
          \cup Ok(Wave(state0.V ++ dV, state0.e ++ m2 ** dV^^2 ++ state0.P ** dV,
                       state0.P ++ (up ** D) // state0.V, state0.u ++ dir ** up, us))
          \cup Ok(Guard({HG_f_wave_speed(V1, m2)}) **
                    Wave(V1, e1, eos_P(V1, e1),
                         state0.u ++ (One ++ V1 // state0.V) ** (us -- state0.u), us)))

HG_Vbound_u(du) == state0.V ++ state0.V ** (One ++ du // state0.c)
HG_u(u) ==
  LET du == Forward(u, state0.u)
      dV == (du ** state0.V) // state0.c
      V0 == state0.V ++ dV
      e0 == state0.e ++ du^^2 ++ state0.P ** dV
      V1 == HG_Vbound_u(du)
      e1 == state0.e ++ du^^2 ++ state0.P ** (state0.V ++ V1)
  IN  After({du ++ state0.c},
        NotSet \cup Ok(HG_initial)
          \cup Ok(Wave(V0, e0, eos_P(V0, e0), u,
                       state0.u ++ dir ** (state0.c ++ Sqrt(eos_c2(V0, e0)))))
          \cup Ok(Guard({HG_f_velocity(V1, du) ++ du^^2, HG_dfdV_u(V1, e1)}) **
                    Wave(V1, e1, eos_P(V1, e1), u,
                         state0.u ++ dir ** ((state0.V ** du) // (state0.V ++ V1)))))

\* Bounds for e at given V: the isentrope, then steps of Newton's iteration.
HG_e_bound(V) ==
  LET dV  == state0.V ++ V
      den == One ++ (eos_Gamma(V, state0.e) ** dV) // V
  IN  state0.e ++ HG_f_specificV(V, state0.e) // den
HG_V(V) ==
  LET dV == state0.V ++ V
      s  == eos_FD(state0.V, state0.e)
      us == dir ** (state0.c // (One ++ (s ** dV) // state0.V))
      up == (dV // state0.V) ** us
      P  == state0.P ++ (up ** us) // state0.V
      e1 == HG_e_bound(V)
      p1 == eos_P(V, e1)
      du == dir ** Sqrt((p1 ++ state0.P) ** dV)
  IN  After({dV ++ state0.V},
        NotSet \cup Ok(HG_initial)
          \cup Ok(Wave(V, state0.e ++ (state0.P ++ P) ** dV, P, state0.u ++ up,
                       state0.u ++ us))
          \cup Ok(Guard({HG_f_specificV(V, e1)}) **
                    Wave(V, e1, p1, state0.u ++ du,
                         state0.u ++ (state0.V // dV) ** du)))

=============================================================================
