---------------------------- MODULE MCHTTPClient ----------------------------
(* An instance of HTTPClient for TLC. *)
EXTENDS HTTPClient, TLC

CONSTANTS c1, c2, web, other, doc, nac

MCPrograms == {[c \in Callers |-> k] : k \in {web, doc, nac}}
                \cup {(c1 :> web) @@ (c2 :> other)}
MCIssuer == (web :> "oauth2") @@ (other :> "infisical") @@ (doc :> "bitwarden") @@ (nac :> "nacos")
MCMaxVersion == (web :> 2) @@ (other :> 1) @@ (doc :> 2) @@ (nac :> 2)
MCMaxFaults == (web :> 1) @@ (other :> 1) @@ (doc :> 1) @@ (nac :> 2)
=============================================================================
