------------------------------ MODULE MCPosition ------------------------------
(* Three and two bits, and every value there is from twice the lowest that  *)
(* a field holds to one more than the assertions accept.                    *)
EXTENDS Position

MCXs == -Wide..Wide
MCYs == -Narrow..Narrow
=============================================================================
