------------------------------- MODULE MCODE -------------------------------
(***************************************************************************)
(* Values for the constants of ODE: times around T0 = 0.                   *)
(***************************************************************************)
EXTENDS ODE

Unsaved == -1                        \* CacheStep of an ODE with n_cache = 2
Before5 == -5                        \* Tmin
Before11 == -11                      \* Tmin, several outer states away
NotFinite3 == {-3}                   \* BadStops
Back == {0, -5}                      \* dt without an estimate, and up to Tmin
Both == {-1, 0, 1}                   \* dt before, after and without an estimate
Around == {-6, -3, 0, 2, 3, 7, 8, 9} \* on, between, beyond the steps and Tmax
Wide == {-7, -3, -1, 0, 1, 4, 7}     \* on, between and beyond the outer states
=============================================================================
