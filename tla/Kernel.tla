------------------------------- MODULE Kernel -------------------------------
(***************************************************************************)
(* The claims formal/kernel_proof.py makes of the light-cone kernel, each of  *)
(* them posed there as a negation that Z3 must find unsatisfiable for the one *)
(* speed of light of the code.  A squared distance is d2, an elapsed time dt. *)
(***************************************************************************)
EXTENDS LightCone

\* The squared integer test is the real light cone: C * dt is at least the square
\* root of d2, which is the least real above every n / m whose square is at most d2.
T1_faithfulness(dt, d2) ==
    Reaches(dt, d2) <=>
      \A n \in Nat, m \in Nat \ {0} : n * n <= d2 * (m * m) => n <= (C * dt) * m

InStrictFuture(ta, tb, d2) == tb > ta /\ Reaches(tb - ta, d2)

T2_antisymmetry(ta, tb, d2) == ~(InStrictFuture(ta, tb, d2) /\ InStrictFuture(tb, ta, d2))

\* The boundary is sharp: an offset on the null cone passes, and one whose square
\* is larger by one does not.
T3_null_cone_exact(dt, offset) ==
    LET d2 == Dist2(<<0, 0, 0>>, offset)
    IN  /\ d2 = (C * dt) * (C * dt) => Reaches(dt, d2)
        /\ d2 = (C * dt) * (C * dt) + 1 => ~Reaches(dt, d2)

T4_future_monotone(dt, dt2, d2) == dt <= dt2 /\ Reaches(dt, d2) => Reaches(dt2, d2)

\* A time that reaches and whose predecessor does not is the smallest.
T5_min_light_time(m, d2, k) ==
    Reaches(m, d2) /\ (m = 0 \/ ~Reaches(m - 1, d2)) => ~(k < m /\ Reaches(k, d2))
=============================================================================
