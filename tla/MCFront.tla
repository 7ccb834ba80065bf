------------------------------- MODULE MCFront -------------------------------
(* Instances of FrontAdmission for TLC. *)
EXTENDS FrontAdmission, TLC

CONSTANTS r1, r2, c1, c2, c3, k, s

\* Two stream requests with one id, the second a reload on an rpc connection; a
\* third connection only takes pushes.
MCKey == (r1 :> k) @@ (r2 :> k)
MCSession == (r1 :> s) @@ (r2 :> s)
MCConn == (r1 :> c1) @@ (r2 :> c2)
=============================================================================
