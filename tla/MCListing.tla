------------------------------- MODULE MCListing -------------------------------
EXTENDS Listing, TLC

Symmetry == Permutations(Items)

\* The pages of a walk, one before the first and the last int.
MCPages == 0..2 \cup {7}

\* One size below 1 and one above the cap.
MCSizes == {0, 7}
===============================================================================
