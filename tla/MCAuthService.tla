---------------------------- MODULE MCAuthService ----------------------------
(* Small instances of AuthService for TLC. *)
EXTENDS AuthService, TLC

(* Tokens, usernames and handlers are interchangeable. *)
Symmetry == Permutations(Jti) \cup Permutations(Users)
              \cup Permutations(Requests)

TokenOps    == {"login", "refresh", "logout"}
RotationOps == {"login", "refresh"}
==============================================================================
