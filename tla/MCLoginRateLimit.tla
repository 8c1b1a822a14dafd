-------------------------- MODULE MCLoginRateLimit --------------------------
(* Instances of LoginRateLimit for TLC. *)
EXTENDS LoginRateLimit, TLC

Symmetry == Permutations(Emails) \union Permutations(Clients) \union Permutations(Proxies)
                \union Permutations(Logins)
=============================================================================
