----------------------- MODULE MCAuthenticationEmail -----------------------
(* Small instances of AuthenticationEmail for TLC. *)
EXTENDS AuthenticationEmail, TLC

CONSTANTS v1, p1, c1, c2

MCDeliveries == 1 .. 2
MCOneDelivery == 1 .. 1

\* A code sent twice for one verification.
MCVerificationOf1 == [d \in Deliveries |-> v1]

\* Two overlapping calls of one process.
MCOverlap == (c1 :> p1) @@ (c2 :> p1)

CallSymmetry == Permutations(Calls)
=============================================================================
