----------------------------- MODULE PlasticEOS -----------------------------
(***************************************************************************)
(* Elastic-plastic flow: extended equations of state whose z[0] is the     *)
(* plastic strain, around an Elastic1D, and a rate at which the stress     *)
(* relaxes to the yield surface.                                           *)
(***************************************************************************)
EXTENDS HEburnEOS

EPL_start(z) == EOS_start @@ [ x \in z |-> One ] @@ [ elastic |-> Unset ]
EPL_init(o) ==
  << Need({"elastic"}), SolveIf(TRUE, {}),
     PutIf(~Is(o.V_ref), "V_ref", In(o.elastic, U.V)),
     PutIf(~Is(o.e_ref), "e_ref", In(o.elastic, U.e)) >>

\* Like that of HEburn, the override leaves z_ref as it was.
EPL_convert == << Part("elastic") >> \o EOS_convert

\* The elastic strain, and the functions of elastic and its shear.
EPL_eps(o, V)         == Call1(o.elastic, V, U.V, One)
EPL_at(o, V, e, want) == Guard({EPL_eps(o, V)}) ** x_Ve(o.elastic, V, e, want)
EPL_shear(o, V, want) == Guard({EPL_eps(o, V)}) ** Call1(o.elastic, V, U.V, want)

EPL_functions(o) ==
  LET at(want) == EPL_at(o, U.V, U.e, want)
  IN  [ P |-> at(U.P), Phydro |-> at(U.P), Pshear |-> at(U.P), Pdev |-> at(U.P), T |-> at(U.T),
        S |-> at(U.S), c2 |-> at(U.u^^2), Gamma |-> at(One), CV |-> at(U.Cv), CP |-> at(U.Cv),
        KT |-> at(U.P), beta |-> at(U.beta), FD |-> at(One), NotInDomain |-> at(One) ]
        @@ EXT_functions(o)

-----------------------------------------------------------------------------
(* VMrate: the yield surface is |eps_el| = epsy_el; tau1 is the time of     *)
(* relaxation, which z[1] = tauinv follows.                                *)

VMR_start == EPL_start(PlasticStrain2) @@ [ tau1 |-> Unset, epsy_el |-> Unset, n1 |-> Free ]
VMR_init(o) == EPL_init(o) \o << SolveIf(TRUE, {}), Need({"tau1", "epsy_el"}) >>
VMR_convert == << Factors({"t"}), Scale({"tau1"}, U.t) >> \o EPL_convert

VMR_functions(o) ==
  LET z1   == One // U.t
      deps == EPL_eps(o, U.V) ++ o.epsy_el
      rate == Pow(deps // o.epsy_el, o.n1) // o.tau1
      epsn == rate // (o.n1 ** z1)
      x    == Pure(o.n1 ** U.t ** z1 ** (One ++ epsn))
      f    == ((One ++ epsn) ** x) // (One ++ epsn ** x)
      pl   == EPL_eps(o, U.V) ++ o.epsy_el ++ deps ** Pow(f, One // o.n1)
  IN  [ zdot |-> deps ** z1, zdot_tauinv |-> rate ** z1, TimeStep |-> One // (z1 ++ rate),
        Integrate |-> Guard({pl, z1 ++ (z1 ** (One ++ epsn)) // (One ++ epsn ** x)}),
        Equilibrate |-> Guard({pl, z1 ++ rate // o.n1}),
        yield_function |-> EPL_shear(o, U.V, U.P), yield_strength |-> EPL_shear(o, U.V, U.P) ]
        @@ zref(o) @@ EPL_functions(o)

-----------------------------------------------------------------------------
(* Polymer: the plastic strain on the yield surface is a spline of          *)
(* 1 - V/V_ref, from 0 to eta1.                                            *)

POL_start == EPL_start(PlasticStrain1) @@
  [ tau0 |-> Unset, eps0 |-> Unset, n |-> Free, Vmin |-> Free, epsy |-> Unset, eta1 |-> Unset ]
POL_init(o) ==
  EPL_init(o) \o
  << SolveIf(TRUE, {}), Need({"tau0", "eps0"}), Need({"epsy"}),
     Put("eta1", One ++ o.Vmin // o.V_ref), SolveIf(TRUE, {}) >>
POL_convert ==
  << Factors({"V", "t"}), Scale({"Vmin"}, U.V), Scale({"tau0"}, U.t) >> \o EPL_convert

POL_functions(o) ==
  LET eta  == Pure(One ++ U.V // o.V_ref)
      epsy == Guard({U.V ++ o.V_ref, eta ++ o.eta1}) ** o.epsy
      deps == Guard({EPL_eps(o, U.V)}) ** (One ++ epsy)
      fast == One ++ Pow(deps // o.eps0, o.n)
      late == One ++ Pow(deps // o.eps0, o.n) ** (One ++ Pure((o.n ** U.t) // o.tau0))
  IN  [ zdot |-> (deps ** fast) // o.tau0, TimeStep |-> o.tau0 // fast, Tau |-> o.tau0 // fast,
        Integrate |-> Guard({deps,
          epsy ++ (deps ** Pure(U.t // o.tau0)) // Pow(late, One // o.n)}),
        Equilibrate |-> Guard({deps}),
        yield_function |-> EPL_shear(o, U.V, U.P),
        yield_strength |-> Guard({epsy}) ** EPL_shear(o, U.V, U.P) ]
        @@ EPL_functions(o)

-----------------------------------------------------------------------------
(* VonMises1D: yield strength Y0, shear viscosity nu, or the time tau = nu/G0 *)
(* (but nu is needed).  InitParams gives dPdev_deps the energy of the       *)
(* reference state for its T.                                              *)

VM_start == EPL_start(PlasticStrain1) @@
  [ Y0 |-> Unset, nu |-> Unset, A1 |-> Free, A2 |-> Free, n1 |-> Free, n2 |-> Free,
    tau |-> Free, eps_y |-> Free ]
VM1_G0(o) == x_VT(o.elastic, In(o.elastic, U.V), In(o.elastic, U.e), U.P)
VM1_init(o) ==
  EPL_init(o) \o
  << Need({"Y0", "nu"}), PutIf(o.tau # Free, "nu", VM1_G0(o) ** o.tau), SolveIf(TRUE, {}),
     Put("eps_y", o.Y0 // VM1_G0(o)) >>
VM1_convert ==
  << Factors({"P", "t"}), Scale({"Y0"}, U.P), Scale({"nu"}, U.P ** U.t) >> \o EPL_convert

\* By how much the stress beyond the yield surface and the strain lower nu.
VM_soften(o, Yf) ==
  One ++ o.A2 ** Pow(Yf // o.Y0 ++ One, o.n2) ++ o.A1 ** Pow(One // o.eps_y, o.n1)

\* Step: towards the yield surface, where the stress is Yf, by at most tau/4.
VM_step(o, Yf, G) ==
  LET tau == (o.nu // VM_soften(o, Yf)) // G
      dt  == tau ++ U.t
  IN  Guard({Yf ++ o.Y0}) ** (One ++ ((Yf ++ o.Y0) // G) ** (One ++ Pure(dt // tau)))

VM1_functions(o) ==
  LET T  == EPL_at(o, U.V, U.e, U.T)
      Yf == (U.V // o.V_ref) ** x_VT(o.elastic, U.V, T, U.P)
      G  == x_VT(o.elastic, U.V, T, U.P)
      Nu == o.nu // VM_soften(o, Yf)
      eps1 == EPL_eps(o, U.V) ++ (Yf ++ o.Y0) // G
  IN  [ zdot |-> Guard({Yf ++ o.Y0}) ** ((Yf ++ o.Y0) // Nu),
        TimeStep |-> Guard({Yf ++ o.Y0}) ** (Nu // G),
        Integrate |-> Guard({EPL_eps(o, U.V) ++ VM_step(o, Yf, G), Yf ++ o.Y0}),
        Equilibrate |-> Guard({eps1, Yf ++ (o.Y0 ++ o.P_vac), eps1 ++ o.eps_y}),
        yield_function |-> Yf, yield_strength |-> o.Y0 ]
        @@ EPL_functions(o)

-----------------------------------------------------------------------------
(* VonMisesConstGV: the shear of elastic is a ConstGV, and the elastic      *)
(* strain on the yield surface a constant.                                 *)

VMC_start == VM_start @@
  [ G0 |-> Free, gv |-> Free, eps_y_compression |-> Free, eps_y_expansion |-> Free ]
VMC_hidden == {"eps_y", "G0", "gv", "eps_y_compression", "eps_y_expansion"}
VMC_init(o) ==
  EPL_init(o) \o
  << Need({"Y0", "nu"}), SolveIf(TRUE, {}), Put("gv", In(o.elastic, U.e)),
     Put("G0", o.gv // o.V_ref), SolveIf(TRUE, {}), PutIf(o.tau # Free, "nu", o.G0 ** o.tau),
     SolveIf(TRUE, {}), Put("eps_y", o.Y0 // o.G0),
     SolveIf(TRUE, {"eps_y_compression", "eps_y_expansion"}) >>
VMC_convert ==
  << Factors({"P", "t", "e"}), Scale({"Y0"}, U.P), Scale({"nu"}, U.P ** U.t),
     Scale({"G0"}, U.P), Scale({"gv"}, U.e) >> \o EPL_convert

\* Step comes to its end without a return where the stress is beyond the
\* yield surface: Integrate looks at what it returned.
VMC_Step(o) == Unset

VMC_functions(o) ==
  LET eps == EPL_eps(o, U.V) ++ o.eps_y_compression ++ o.eps_y_expansion
      Yf  == o.G0
      f   == VM_soften(o, Yf)
  IN  [ zdot |-> Guard({eps}) ** ((f ** (Yf ++ o.Y0)) // o.nu),
        TimeStep |-> Guard({eps}) ** ((o.nu // f) ** (U.V // o.gv)),
        Integrate |-> Guard({eps, VM_step(o, Yf, o.gv // U.V), VMC_Step(o)}),
        Equilibrate |-> Guard({eps}), yield_function |-> Yf, yield_strength |-> o.Y0 ]
        @@ EPL_functions(o)

=============================================================================
