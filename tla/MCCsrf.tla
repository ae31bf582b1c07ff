--------------------------------- MODULE MCCsrf ---------------------------------
EXTENDS Csrf, TLC

Symmetry == Permutations(Pages) \cup Permutations(Requests)
              \cup Permutations(Tokens)
===============================================================================
