--------------------------- MODULE MCSessionStore ---------------------------
(* Hellos under way are interchangeable, and so are the keys.               *)
EXTENDS SessionStore

StoreSymmetry == Permutations(Calls) \cup Permutations(Keys)

=============================================================================
