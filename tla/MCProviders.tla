---------------------------- MODULE MCProviders ----------------------------
(* One caller and two refs for a provider that resolves in batches, two     *)
(* callers and one ref for the others.                                      *)
EXTENDS Providers

AllServed == DOMAIN Table

\* What a batch leaves out though it is there, refused or no document.
LeftOut ==
    {<<"aws-sm", "denied">>, <<"aws-sm", "alias">>, <<"aws-sm", "notDoc">>,
     <<"aws-ps", "alias">>, <<"aws-ps", "notDoc">>, <<"mamori", "twin">>}

\* A failure that reads like an absence: of a lookup by name, of the identity
\* endpoint, of the first fetch, of a released client, by its words or its status.
LooksAbsent ==
    {<<"onepassword", "lookup">>, <<"configcat", "unfetched">>, <<"split", "released">>,
     <<"goff", "wording">>, <<"mamori", "foreign">>}
        \cup {<<s, "identity">> : s \in {"infisical", "bitwarden", "hcp-vs", "nacos"}}

Misreadings ==
    {<<m[1], m[2], "notFound">> : m \in LeftOut \cup LooksAbsent}
        \cup {<<"vault", "expired", "permissionDenied">>}
=============================================================================
