------------------------------ MODULE Picking -------------------------------
(* The elements of a sequence at chosen places, in their order.            *)
EXTENDS Integers, Sequences

Pick(s, I) == LET f[n \in 0..Len(s)] == IF n = 0 THEN << >>
                                         ELSE IF n \in I THEN Append(f[n - 1], s[n]) ELSE f[n - 1]
              IN  f[Len(s)]
=============================================================================
