------------------------------ MODULE MCOtpAuth ------------------------------
(* An instance of the login: one address, since the addresses share        *)
(* nothing but the session table.  Codes and session ids are symmetric.    *)
EXTENDS OtpAuth, TLC

Symmetry == Permutations(Codes) \cup Permutations(SessionIds)

=============================================================================
