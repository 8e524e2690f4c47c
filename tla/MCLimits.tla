------------------------------ MODULE MCLimits ------------------------------
(***************************************************************************)
(* One value in every type a caller may ask for.                           *)
(***************************************************************************)
EXTENDS ClientWorlds

MCSingle == {SingleWorlds}

\* What request i reads: the first elements of its field.
Asked(i) == {z \in 1..schema[1].size : z <= Wanted(requests[i].dest, 1)}

(* get<>() throws "Numeric limits exceeded" only if a value it was asked   *)
(* for does not fit the type (Schema.hpp:437-442).                         *)
RefusedIsTooLarge ==
    access = "thrown" /\ why = "overflow" =>
        \E i \in 1..Len(requests) : \E z \in Asked(i) :
            ~Fits(Meant(world.content[1][z], schema[1], requests[i].dest), requests[i].dest)
=============================================================================
