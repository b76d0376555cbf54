--------------------------- MODULE MCJwtValidator ---------------------------
(***************************************************************************)
(* Small instances of JwtValidator for TLC: Keycloak publishes k1, then no *)
(* RSA key at all, then k2.  A token of k2 is forged until k2 is published.*)
(***************************************************************************)
EXTENDS JwtValidator, TLC

MCKids == {"k1", "k2"}
MCKeySets == 1 :> {"k1"} @@ 2 :> {} @@ 3 :> {"k2"}

=============================================================================
