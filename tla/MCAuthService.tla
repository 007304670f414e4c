--------------------------- MODULE MCAuthService ---------------------------
(* Instances of AuthService: sign-ins of two accounts, two of them of the same one. *)
EXTENDS AuthService, TLC

CONSTANTS a, b

ThreeLogins == 1..3
FirstAndLastOfOneAccount == [l \in ThreeLogins |-> IF l = 2 THEN b ELSE a]
OneMinted == <<5>>
=============================================================================
