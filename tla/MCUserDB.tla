------------------------------ MODULE MCUserDB -------------------------------
EXTENDS UserDB

\* Two spellings of one user, another user, and a spelling of "root".
MCNames == {"ann", "Ann", "bob", "Root"}
MCLower == [n \in MCNames |-> CASE n = "Ann"  -> "ann"
                                [] n = "Root" -> "root"
                                [] OTHER      -> n]

=============================================================================
