-------------------------- MODULE MCSignupRegistration --------------------------
(* SignupRegistration for TLC: users are symmetric model values.       *)
EXTENDS SignupRegistration, TLC

Symmetry == Permutations(Users)
=============================================================================
