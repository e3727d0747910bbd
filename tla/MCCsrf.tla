-------------------------------- MODULE MCCsrf --------------------------------
(* An alphabet of three and a usize of four values, so that subtractions wrap. *)
EXTENDS Csrf

CONSTANTS r1, r2, own, other
=============================================================================
