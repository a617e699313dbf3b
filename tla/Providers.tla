----------------------------- MODULE Providers -----------------------------
(***************************************************************************)
(* The providers: what Resolve and ResolveBatch of one provider instance   *)
(* do between the callers, a Close that may come at any moment, and a      *)
(* backend whose values change and whose requests fail.  The steps a       *)
(* provider takes, the client it keeps, the failures it recognises and     *)
(* the refs its batch leaves out are the fields of its record; how each    *)
(* step works is an action all of them share.                              *)
(***************************************************************************)
EXTENDS Integers, Sequences, FiniteSets, TLC

CONSTANTS
    Callers, Refs,          \* of a provider that resolves in batches
    LoneCallers, LoneRefs,  \* of one that does not
    Served,     \* the providers a run looks at
    Misread,    \* the known misreadings: provider, cause, kind
    Sparing,    \* the ones whose batch survives a missing container
    MaxMoves

VARIABLES
    scheme,     \* the provider
    item,       \* what the backend holds for each ref
    home,       \* the container of the values (app, namespace, store, relation) exists
    moves,
    closed,
    client,     \* the client in place: none, own, own and bare of values, or lent
    failed,     \* a failed build is remembered
    open,       \* clients the provider built and has not released
    call        \* each caller's call, the last one when it is not in one

vars == <<scheme, item, home, moves, closed, client, failed, open, call>>

-----------------------------------------------------------------------------
(* What can go wrong with a request, and the kind that says so.  The kind a  *)
(* provider reports is its classifier's, which need not agree.               *)

Meaning ==
    "absent" :> "notFound" @@ "denied" :> "permissionDenied" @@
    "unauthenticated" :> "unauthenticated" @@ "throttled" :> "rateLimited" @@
    "unavailable" :> "unavailable" @@ "unreachable" :> "unavailable" @@
    "deadline" :> "unavailable" @@ "invalid" :> "invalid" @@ "other" :> "unavailable" @@
    "expired" :> "unauthenticated" @@   \* a token ran out
    "quota" :> "rateLimited" @@         \* a success without flags: the quota is used up
    "partial" :> "unavailable" @@       \* a success without the flag: it was not computed
    "wording" :> "unavailable" @@       \* an error that reads like an absence
    "foreign" :> "unavailable"          \* a 404 of something that is not the server

Answered == {"absent", "denied", "unauthenticated", "throttled", "unavailable", "invalid"}
Common == Answered \cup {"unreachable", "deadline", "other"}

\* A classifier that knows some of the failures its backend has.
Told(failures, known) == [f \in failures |-> IF f \in known THEN Meaning[f] ELSE "unknown"]
Known(known) == Told(Common, known)

\* The status of a response, and a request that got none.
HTTPKinds == Known(Common)

\* Evaluated in the client's memory, which is the backend here.
NoKinds == Told({}, {})

-----------------------------------------------------------------------------
(* keeps    the client is built once and kept                                *)
(* sticky   a failed build is not tried again                                *)
(* close    what Close does: releases the client it built, only marks the    *)
(*          provider closed, or there is no Close                            *)
(* lends    the program may supply the client                                *)
(* build    the kind of a failed build, none when it cannot fail             *)
(* bare     the client is built though its first fetch failed                *)
Kept == [keeps |-> TRUE, sticky |-> FALSE, close |-> "release", lends |-> TRUE,
         build |-> "unknown", bare |-> FALSE]
Unclosed == [Kept EXCEPT !.close = "never"]
Marked == [Kept EXCEPT !.close = "mark", !.lends = FALSE, !.build = "invalid"]
PerCall == [Marked EXCEPT !.keeps = FALSE]
NoClient == [Unclosed EXCEPT !.keeps = FALSE, !.lends = FALSE, !.build = "none"]

(* The steps of Resolve, in order:                                           *)
(* ctx       the context is checked                                          *)
(* ref       the ref is parsed                                               *)
(* closed    the provider is refused once closed                             *)
(* client    the client is taken, built if need be                           *)
(* auth      a token is exchanged unless one is cached                       *)
(* hint      a name is looked up; a failed lookup is ignored                 *)
(* fallback  the name is used as an id when the lookup gave nothing          *)
(* replica   the value is asked of one of several servers                    *)
(* document  the container is read, the last time for the value              *)
(* shape     the value is asked for as one type, and again as another if it  *)
(*           is not of that one                                              *)
(* value     the value is asked for                                          *)

EtcdClient == Kept
EtcdKinds == Known({"denied", "unauthenticated", "unavailable", "unreachable", "deadline", "throttled"})
EtcdResolve == <<"ctx", "client", "value">>

RedisClient == Kept
RedisKinds == Known({"unauthenticated", "denied", "unavailable", "unreachable"})
RedisResolve == <<"ctx", "client", "value">>

ConsulClient == Unclosed
ConsulKinds == Known({"denied", "unauthenticated", "throttled", "unavailable", "invalid"})
ConsulResolve == <<"ctx", "client", "value">>

MySQLClient == [Kept EXCEPT !.sticky = TRUE]
MySQLKinds == Known({"denied", "unauthenticated", "unavailable"})
MySQLResolve == <<"ref", "client", "value">>

PostgresClient == Kept
PostgresKinds == Known({"denied", "unauthenticated", "unavailable"})
PostgresResolve == <<"ctx", "ref", "client", "value">>

\* A database handle of its own for every call, closed when it returns.
SqliteClient == [Kept EXCEPT !.keeps = FALSE, !.lends = FALSE]
SqliteKinds == Known({"denied", "unavailable", "unauthenticated"})
SqliteResolve == <<"closed", "ctx", "client", "ref", "value">>

MongoDBClient == Kept
MongoDBKinds == Known({"unauthenticated", "denied"})
MongoDBResolve == <<"ctx", "ref", "client", "value">>

FirestoreClient == Kept
FirestoreKinds == Known(Answered \cup {"unreachable", "deadline"})
FirestoreResolve == <<"ctx", "ref", "client", "value">>

K8sClient == [Kept EXCEPT !.sticky = TRUE]
K8sKinds == Known(Answered)
K8sResolve == <<"ctx", "ref", "client", "value">>

LaunchDarklyClient == Kept
LaunchDarklyKinds == Told({"unavailable", "other"}, {"unavailable"})
LaunchDarklyResolve == <<"ctx", "client", "value">>

SopsKinds == Told({"absent", "denied", "other"}, {"absent", "denied"})
SopsResolve == <<"ctx", "value", "value">>

FirebaseRTDBClient == [Kept EXCEPT !.close = "mark", !.lends = FALSE]
FirebaseRTDBResolve == <<"ctx", "client", "value">>

NacosClient == [Marked EXCEPT !.sticky = TRUE]
NacosResolve == <<"ctx", "ref", "client", "auth", "value">>

GCPClient == Kept
GCPKinds == Known(Answered \cup {"unreachable", "deadline"})
GCPResolve == <<"ctx", "ref", "client", "value">>

GCSClient == Kept
GCSKinds == Known(Answered)
GCSResolve == <<"ctx", "ref", "client", "value">>

S3Client == [Unclosed EXCEPT !.lends = FALSE]
S3Kinds == Known(Answered)
S3Resolve == <<"ref", "client", "value">>

AzblobClient == [Unclosed EXCEPT !.sticky = TRUE]
AzblobKinds == Known(Answered)
AzblobResolve == <<"ref", "client", "value">>

AWSKinds == Known(Answered)

AppConfigClient == [Unclosed EXCEPT !.lends = FALSE]
AppConfigResolve == <<"client", "ref", "document", "document">>

ParameterStoreClient == [Unclosed EXCEPT !.lends = FALSE]
ParameterStoreResolve == <<"client", "value">>

SecretsManagerClient == [Unclosed EXCEPT !.lends = FALSE]
SecretsManagerResolve == <<"client", "value">>

AzureKinds == Known(Answered)

KeyVaultClient == [Unclosed EXCEPT !.sticky = TRUE]
KeyVaultResolve == <<"ref", "client", "value">>

AzureAppConfigClient == [Unclosed EXCEPT !.sticky = TRUE]
AzureAppConfigResolve == <<"ref", "client", "value">>

CosmosClient == [Unclosed EXCEPT !.sticky = TRUE]
CosmosKinds == Known(Answered)
CosmosResolve == <<"ref", "client", "value">>

DynamoDBClient == [Unclosed EXCEPT !.lends = FALSE]
DynamoDBKinds == Known(Answered)
DynamoDBResolve == <<"ref", "client", "value">>

\* A missing project says nothing of the parameter.
FirebaseRCClient == [Kept EXCEPT !.close = "mark"]
FirebaseRCKinds == Known(Common \ {"absent"})
FirebaseRCResolve == <<"ctx", "ref", "client", "document">>

VaultClient == Unclosed
\* A token that ran out is a 403 like a denial.
VaultKinds ==
    "expired" :> "permissionDenied" @@
    Known({"absent", "denied", "throttled", "unavailable", "invalid"})
VaultResolve == <<"ctx", "ref", "client", "value">>

DopplerClient == PerCall
DopplerResolve == <<"closed", "ref", "client", "value">>

InfisicalClient == Marked
InfisicalResolve == <<"ref", "client", "auth", "value">>

OnePasswordClient == PerCall
OnePasswordResolve == <<"ref", "closed", "client", "hint", "fallback", "hint", "value">>

BitwardenClient == [PerCall EXCEPT !.sticky = TRUE]
BitwardenResolve == <<"closed", "client", "ref", "auth", "value">>

HCPVaultSecretsClient == Marked
HCPVaultSecretsResolve == <<"ref", "client", "auth", "value">>

ScalewayClient == PerCall
ScalewayResolve == <<"ref", "closed", "client", "value">>

SupabaseClient == Marked
SupabaseResolve == <<"ref", "client", "document">>

PostHogClient == Marked
\* A flag that is not in the answer is absent, computed or not.
PostHogKindsEager == "quota" :> "rateLimited" @@ "partial" :> "notFound" @@ HTTPKinds

\* The answer says why it is empty before an absence is read from it.
PostHogKinds == "quota" :> "rateLimited" @@ "partial" :> "unavailable" @@ HTTPKinds
PostHogResolve == <<"ctx", "ref", "client", "document">>

UnleashClient == Kept
UnleashResolve == <<"ctx", "ref", "client", "value">>

SplitClient == Kept
SplitResolve == <<"ctx", "ref", "client", "value">>

ConfigCatClient == [Kept EXCEPT !.lends = FALSE, !.bare = TRUE]
ConfigCatResolve == <<"ctx", "ref", "client", "value">>

GrowthBookClient == [Kept EXCEPT !.lends = FALSE]
GrowthBookResolve == <<"ctx", "ref", "client", "value">>

FlagsmithClient == [Unclosed EXCEPT !.lends = FALSE]
FlagsmithResolve == <<"ref", "client", "value">>

FliptClient == [Unclosed EXCEPT !.lends = FALSE, !.build = "none"]
FliptKinds == Known({"absent", "denied", "unauthenticated", "unavailable", "deadline", "throttled"})
FliptResolve == <<"ref", "client", "shape", "value">>

GoffClient == [Unclosed EXCEPT !.lends = FALSE]
\* An absence is told by the error's code or by its words.
GoffKinds ==
    "wording" :> "notFound" @@ Told({"unavailable", "invalid", "other"}, {"unavailable", "invalid"})
GoffResolve == <<"ctx", "ref", "client", "value">>

OpenFeatureClient == [Unclosed EXCEPT !.build = "none"]
OpenFeatureKinds == Told({"unavailable", "invalid", "other"}, {"unavailable", "invalid"})
OpenFeatureResolve == <<"ctx", "ref", "client", "shape", "shape", "value">>

ViperResolve == <<"ctx", "ref", "value">>

HTTPSResolve == <<"closed", "ref", "value">>

HerokuClient == Marked
HerokuResolve == <<"ref", "client", "document">>

VercelResolve == <<"ref", "closed", "client", "document", "closed", "client", "document">>
VercelClient == PerCall

CloudflareClient == PerCall
CloudflareResolve == <<"ref", "closed", "client", "document">>

MamoriClient == [NoClient EXCEPT !.close = "mark"]
\* A 404 is an absence whatever its body says.
MamoriKinds == "foreign" :> "notFound" @@ Known(Answered)
MamoriResolve == <<"ref", "closed", "replica", "closed", "value">>

(* What the answer to a batch leaves out without failing it: values that     *)
(* are absent, without the field, not a document, refused, answered under    *)
(* another name, or asked for twice; and a container that is gone.           *)

SecretsManagerBatch == {"absent", "noField", "notDoc", "denied", "alias"}
ParameterStoreBatch == {"absent", "noField", "notDoc", "alias"}

HerokuBatch == {"absent", "noField", "gone"}

CloudflareBatch == {"absent", "noField", "gone"}
VercelBatch == {"absent", "noField"}
MamoriBatch == {"absent", "noField", "twin"}

Row(kept, steps, kinds, badRef, omits) ==
    [client |-> kept, steps |-> steps, kinds |-> kinds, badRef |-> badRef, omits |-> omits]

Table ==
    "etcd" :> Row(EtcdClient, EtcdResolve, EtcdKinds, "unknown", {}) @@
    "redis" :> Row(RedisClient, RedisResolve, RedisKinds, "unknown", {}) @@
    "consul" :> Row(ConsulClient, ConsulResolve, ConsulKinds, "unknown", {}) @@
    "mysql" :> Row(MySQLClient, MySQLResolve, MySQLKinds, "unknown", {}) @@
    "postgres" :> Row(PostgresClient, PostgresResolve, PostgresKinds, "unknown", {}) @@
    "sqlite" :> Row(SqliteClient, SqliteResolve, SqliteKinds, "unknown", {}) @@
    "mongodb" :> Row(MongoDBClient, MongoDBResolve, MongoDBKinds, "unknown", {}) @@
    "firestore" :> Row(FirestoreClient, FirestoreResolve, FirestoreKinds, "unknown", {}) @@
    "k8s" :> Row(K8sClient, K8sResolve, K8sKinds, "invalid", {}) @@
    "launchdarkly" :> Row(LaunchDarklyClient, LaunchDarklyResolve, LaunchDarklyKinds, "unknown", {}) @@
    "sops" :> Row(NoClient, SopsResolve, SopsKinds, "unknown", {}) @@
    "firebase-rtdb" :> Row(FirebaseRTDBClient, FirebaseRTDBResolve, Known({}), "unknown", {}) @@
    "nacos" :> Row(NacosClient, NacosResolve, HTTPKinds, "invalid", {}) @@
    "gcp" :> Row(GCPClient, GCPResolve, GCPKinds, "invalid", {}) @@
    "gcs" :> Row(GCSClient, GCSResolve, GCSKinds, "unknown", {}) @@
    "s3" :> Row(S3Client, S3Resolve, S3Kinds, "unknown", {}) @@
    "azblob" :> Row(AzblobClient, AzblobResolve, AzblobKinds, "unknown", {}) @@
    "aws-appconfig" :> Row(AppConfigClient, AppConfigResolve, AWSKinds, "invalid", {}) @@
    "aws-ps" :> Row(ParameterStoreClient, ParameterStoreResolve, AWSKinds, "unknown", ParameterStoreBatch) @@
    "aws-sm" :> Row(SecretsManagerClient, SecretsManagerResolve, AWSKinds, "unknown", SecretsManagerBatch) @@
    "azure-kv" :> Row(KeyVaultClient, KeyVaultResolve, AzureKinds, "invalid", {}) @@
    "azure-appconfig" :> Row(AzureAppConfigClient, AzureAppConfigResolve, AzureKinds, "invalid", {}) @@
    "cosmos" :> Row(CosmosClient, CosmosResolve, CosmosKinds, "unknown", {}) @@
    "dynamodb" :> Row(DynamoDBClient, DynamoDBResolve, DynamoDBKinds, "unknown", {}) @@
    "firebase-rc" :> Row(FirebaseRCClient, FirebaseRCResolve, FirebaseRCKinds, "unknown", {}) @@
    "vault" :> Row(VaultClient, VaultResolve, VaultKinds, "invalid", {}) @@
    "doppler" :> Row(DopplerClient, DopplerResolve, HTTPKinds, "unknown", {}) @@
    "infisical" :> Row(InfisicalClient, InfisicalResolve, HTTPKinds, "invalid", {}) @@
    "onepassword" :> Row(OnePasswordClient, OnePasswordResolve, HTTPKinds, "unknown", {}) @@
    "bitwarden" :> Row(BitwardenClient, BitwardenResolve, HTTPKinds, "invalid", {}) @@
    "hcp-vs" :> Row(HCPVaultSecretsClient, HCPVaultSecretsResolve, HTTPKinds, "invalid", {}) @@
    "scaleway-sm" :> Row(ScalewayClient, ScalewayResolve, HTTPKinds, "unknown", {}) @@
    "supabase" :> Row(SupabaseClient, SupabaseResolve, HTTPKinds, "invalid", {}) @@
    "posthog" :> Row(PostHogClient, PostHogResolve, PostHogKinds, "invalid", {}) @@
    "unleash" :> Row(UnleashClient, UnleashResolve, NoKinds, "unknown", {}) @@
    "split" :> Row(SplitClient, SplitResolve, NoKinds, "unknown", {}) @@
    "configcat" :> Row(ConfigCatClient, ConfigCatResolve, NoKinds, "unknown", {}) @@
    "growthbook" :> Row(GrowthBookClient, GrowthBookResolve, Known({}), "unknown", {}) @@
    "flagsmith" :> Row(FlagsmithClient, FlagsmithResolve, Known({}), "unknown", {}) @@
    "flipt" :> Row(FliptClient, FliptResolve, FliptKinds, "unknown", {}) @@
    "goff" :> Row(GoffClient, GoffResolve, GoffKinds, "unknown", {}) @@
    "openfeature" :> Row(OpenFeatureClient, OpenFeatureResolve, OpenFeatureKinds, "invalid", {}) @@
    "viper" :> Row(NoClient, ViperResolve, NoKinds, "invalid", {}) @@
    "https" :> Row([NoClient EXCEPT !.close = "mark"], HTTPSResolve, HTTPKinds, "invalid", {}) @@
    "heroku" :> Row(HerokuClient, HerokuResolve, HTTPKinds, "invalid", HerokuBatch) @@
    "vercel-gc" :> Row(VercelClient, VercelResolve, HTTPKinds, "unknown", VercelBatch) @@
    "cloudflare-kv" :> Row(CloudflareClient, CloudflareResolve, HTTPKinds, "unknown", CloudflareBatch) @@
    "mamori" :> Row(MamoriClient, MamoriResolve, MamoriKinds, "invalid", MamoriBatch)

Provider == Table[scheme]

-----------------------------------------------------------------------------
\* The backend.

Takes(step) == \E i \in 1 .. Len(Provider.steps) : Provider.steps[i] = step
HasHome == Takes("document")
Batches == Provider.omits # {}

Named == IF Batches THEN Refs ELSE LoneRefs
Active == IF Batches THEN Callers ELSE LoneCallers

\* Values without fields, and values that always are documents.
Plain == {"doppler", "unleash", "posthog", "split", "flipt"}
Records == {"k8s", "dynamodb", "onepassword", "firestore", "mongodb", "vault", "sops"}

Holdings ==
    {"ok", "absent"}
        \cup (IF scheme \in Plain THEN {} ELSE {"noField"})
        \cup (IF scheme \in Plain \cup Records THEN {} ELSE {"notDoc"})
        \cup (IF Takes("shape") THEN {"otherType"} ELSE {})
        \cup (IF HasHome \/ "denied" \notin DOMAIN Provider.kinds THEN {} ELSE {"denied"})
        \cup (IF scheme \in {"aws-sm", "aws-ps"} THEN {"alias"} ELSE {})

\* A twin is named, in another spelling, by another ref too.
Backends ==
    {f \in [Named -> Holdings \cup IF Batches THEN {"twin"} ELSE {}] :
        \A r \in Named : f[r] = "twin" => \E q \in Named : f[q] = "ok"}

\* The kind that says what there is.  That a Firebase project is missing says
\* nothing of its parameters.
Truth(r) ==
    CASE ~home -> IF scheme = "firebase-rc" THEN "unknown" ELSE "notFound"
      [] home /\ item[r] \in {"ok", "otherType", "alias", "twin"} -> "value"
      [] home /\ item[r] \in {"absent", "noField"} -> "notFound"
      [] home /\ item[r] = "notDoc" -> "invalid"
      [] home /\ item[r] = "denied" -> "permissionDenied"

\* Everything that was true, of each ref, since the call began.
Witness(c) == [r \in Named |-> call[c].due[r] \cup {Truth(r)'}]

Change ==
    /\ moves < MaxMoves /\ moves' = moves + 1
    /\ \/ \E f \in Backends : item' = f /\ home' = home
       \/ HasHome /\ home' = ~home /\ item' = item
    /\ UNCHANGED <<scheme, closed, client, failed, open>>
    /\ call' = [c \in Active |->
                   IF call[c].at > 0 THEN [call[c] EXCEPT !.due = Witness(c)] ELSE call[c]]

-----------------------------------------------------------------------------
\* A call.

Begin(c) ==
    /\ call[c].at = 0
    /\ \E refs \in {{r} : r \in Named} \cup (IF Batches THEN {Named} ELSE {}),
          bad \in {"none", "ctx", "ref"} :
          /\ bad = "ref" => Takes("ref")
          /\ call' = [call EXCEPT ![c] =
                [at |-> 1, refs |-> refs, bad |-> bad, late |-> closed, asked |-> FALSE,
                 held |-> "none", lost |-> FALSE, due |-> [r \in Named |-> {Truth(r)}],
                 met |-> [r \in Named |-> {}], got |-> [r \in Named |-> "none"], whole |-> FALSE]]
    /\ UNCHANGED <<scheme, item, home, moves, closed, client, failed, open>>

At(c, step) == call[c].at > 0 /\ Provider.steps[call[c].at] = step
Last(c) == call[c].at = Len(Provider.steps)

Requests == {"auth", "hint", "fallback", "replica", "document", "shape", "value"}
Asking(c) == \E step \in Requests : At(c, step)

\* The call returns; a client of its own is released.  Of what was true and of
\* what went wrong, only what bears on its verdict matters from here on.
Leave(c, k) ==
    /\ call' = [call EXCEPT ![c] =
          [k EXCEPT !.at = 0, !.refs = {}, !.bad = "none", !.held = "none", !.lost = FALSE,
                    !.due = [r \in Named |-> @[r] \cap {k.got[r]}],
                    !.met = [r \in Named |-> {m \in @[r] : <<scheme, m, k.got[r]>> \in Misread}]]]
    /\ open' = IF k.held = "brief" THEN open - 1 ELSE open

\* A request was sent; what it met, and what that makes true, is noted.
Asked(c, causes, reasons) ==
    [call[c] EXCEPT !.asked = TRUE, !.due = [r \in Named |-> @[r] \cup reasons],
                    !.met = [r \in Named |-> @[r] \cup causes]]

\* The call fails with a kind.
FailAs(c, k, kind) ==
    Leave(c, [k EXCEPT !.got = [r \in Named |-> IF r \in k.refs THEN kind ELSE "none"],
                       !.whole = Cardinality(k.refs) > 1])

\* Without a request, for a reason of the provider's own.
Fail(c, kind, reasons) ==
    FailAs(c, [call[c] EXCEPT !.due = [r \in Named |-> @[r] \cup reasons]], kind)

Advance(c) == call' = [call EXCEPT ![c].at = @ + 1] /\ UNCHANGED open

CheckInput(c) ==
    /\ \/ /\ At(c, "ctx")
          /\ IF call[c].bad = "ctx" THEN Fail(c, "cancelled", {"cancelled"}) ELSE Advance(c)
       \/ /\ At(c, "ref")
          /\ IF call[c].bad = "ref" THEN Fail(c, Provider.badRef, {"invalid"}) ELSE Advance(c)
    /\ UNCHANGED <<scheme, item, home, moves, closed, client, failed>>

CheckClosed(c) ==
    /\ At(c, "closed")
    /\ IF closed THEN Fail(c, "unavailable", {"unavailable"}) ELSE Advance(c)
    /\ UNCHANGED <<scheme, item, home, moves, closed, client, failed>>

\* Under the provider's lock, the build included.
Hold(c, what) == call' = [call EXCEPT ![c].at = @ + 1, ![c].held = what]

Owned == Provider.client.close = "release"

\* A client is built for a closed provider too.
RefusesNever == FALSE

Refuses == Provider.client.keeps /\ closed

TakeClient(c) ==
    /\ At(c, "client")
    /\ \/ /\ Refuses
          /\ Fail(c, "unavailable", {"unavailable"})
          /\ UNCHANGED <<client, failed>>
       \/ /\ ~Refuses /\ client # "none" /\ Hold(c, client)
          /\ UNCHANGED <<client, failed, open>>
       \/ /\ ~Refuses /\ client = "none" /\ ~failed
          /\ open' = IF Owned THEN open + 1 ELSE open
          /\ IF Provider.client.keeps
             THEN \E built \in {"own"} \cup (IF Provider.client.bare THEN {"bare"} ELSE {}) :
                     client' = built /\ Hold(c, built)
             ELSE client' = "none" /\ Hold(c, IF Owned THEN "brief" ELSE "none")
          /\ UNCHANGED failed
       \/ /\ ~Refuses /\ client = "none" /\ Provider.client.build # "none"
          /\ failed' = (failed \/ Provider.client.sticky)
          /\ Fail(c, Provider.client.build, {"invalid"})
          /\ UNCHANGED client
    /\ UNCHANGED <<scheme, item, home, moves, closed>>

-----------------------------------------------------------------------------
\* Its requests.

\* The classifier's kind; core names a deadline nobody classified.
Kind(f) ==
    IF f \in DOMAIN Provider.kinds /\ Provider.kinds[f] # "unknown" THEN Provider.kinds[f]
    ELSE IF f = "deadline" THEN "unavailable" ELSE "unknown"

\* A body that does not decode makes an unclassified failure of a batch.
Faults(c) ==
    (DOMAIN Provider.kinds \ {"absent"}) \ IF Cardinality(call[c].refs) > 1 THEN {"foreign"} ELSE {}

Go(c, k) == call' = [call EXCEPT ![c] = [k EXCEPT !.at = @ + 1]] /\ UNCHANGED open

\* With the context done no request is sent.
Cancelled(c) ==
    /\ Asking(c) /\ call[c].bad = "ctx"
    /\ Fail(c, "cancelled", {"cancelled"})
    /\ UNCHANGED <<scheme, item, home, moves, closed, client, failed>>

\* A response of the identity endpoint is classified by its status like any other.
Exchange(c) ==
    /\ At(c, "auth") /\ call[c].bad # "ctx"
    /\ \/ Advance(c)   \* with a cached token
       \/ Go(c, Asked(c, {}, {}))
       \/ \E f \in Common \ {"absent"} : FailAs(c, Asked(c, {f}, {Meaning[f]}), HTTPKinds[f])
       \/ FailAs(c, Asked(c, {"identity"}, {"unauthenticated"}), HTTPKinds["absent"])
    /\ UNCHANGED <<scheme, item, home, moves, closed, client, failed>>

LookUp(c) ==
    /\ At(c, "hint") /\ call[c].bad # "ctx"
    /\ \/ Go(c, Asked(c, {}, {}))
       \/ \E f \in Faults(c) : Go(c, [Asked(c, {"lookup"}, {Meaning[f]}) EXCEPT !.lost = TRUE])
    /\ UNCHANGED <<scheme, item, home, moves, closed, client, failed>>

Fallback(c) ==
    /\ At(c, "fallback") /\ call[c].bad # "ctx"
    /\ IF call[c].lost THEN FailAs(c, Asked(c, {}, {}), Kind("absent")) ELSE Advance(c)
    /\ UNCHANGED <<scheme, item, home, moves, closed, client, failed>>

\* What the answer says of one ref, and whether a batch leaves it out.
Verdict(c, r) ==
    CASE call[c].lost -> "notFound"
      [] ~call[c].lost /\ ~home -> Kind("absent")
      [] ~call[c].lost /\ home /\ item[r] = "denied" -> Kind("denied")
      [] ~call[c].lost /\ home /\ item[r] # "denied" -> Truth(r)

Skips(c, r) ==
    /\ Cardinality(call[c].refs) > 1
    /\ IF home THEN item[r] \in Provider.omits ELSE "gone" \in Provider.omits

\* Whether a value is of the type it is asked for as.  The first type asked for
\* is the one of "ok"; a third or fourth may be none of them.
Fits(c, r) ==
    LET first == Provider.steps[call[c].at - 1] # "shape"
    IN  CASE ~Takes("shape") \/ item[r] \in {"absent", "denied"} -> {TRUE}
          [] Takes("shape") /\ item[r] \in {"ok", "noField", "notDoc"} -> {first}
          [] Takes("shape") /\ item[r] = "otherType" ->
                IF first THEN {FALSE} ELSE IF scheme = "flipt" THEN {TRUE} ELSE BOOLEAN

Answers(c) ==
    At(c, "replica") \/ At(c, "shape") \/ (Last(c) /\ (At(c, "document") \/ At(c, "value")))

Answer(c) ==
    /\ Answers(c) /\ call[c].bad # "ctx" /\ call[c].held # "bare"
    /\ \A r \in call[c].refs : TRUE \in Fits(c, r)
    /\ \/ \E r \in call[c].refs :
             /\ ~Skips(c, r) /\ Verdict(c, r) # "value"
             /\ FailAs(c, Asked(c, {}, {}), Verdict(c, r))
       \/ /\ \A r \in call[c].refs : Skips(c, r) \/ Verdict(c, r) = "value"
          /\ Leave(c, [Asked(c, {}, {}) EXCEPT
                !.got = [r \in Named |-> IF r \notin call[c].refs THEN "none"
                                        ELSE IF Skips(c, r) THEN "notFound" ELSE "value"],
                !.met = [r \in Named |-> @[r] \cup IF Skips(c, r) THEN {item[r]} ELSE {}]])
    /\ UNCHANGED <<scheme, item, home, moves, closed, client, failed>>

\* It is of another type: the next one is tried, or there is none.
Retype(c) ==
    /\ At(c, "shape") \/ (Takes("shape") /\ Last(c))
    /\ call[c].bad # "ctx" /\ \E r \in call[c].refs : FALSE \in Fits(c, r)
    /\ IF Last(c) THEN FailAs(c, Asked(c, {}, {"invalid"}), Kind("invalid"))
                  ELSE Go(c, Asked(c, {}, {}))
    /\ UNCHANGED <<scheme, item, home, moves, closed, client, failed>>

\* Nothing was ever fetched, so no key is known.
Unfetched(c) ==
    /\ At(c, "value") /\ call[c].held = "bare" /\ call[c].bad # "ctx"
    /\ FailAs(c, Asked(c, {"unfetched"}, {"unavailable"}), "notFound")
    /\ UNCHANGED <<scheme, item, home, moves, closed, client, failed>>

\* The client's own polling catches up.
Loads ==
    /\ client = "bare" /\ client' = "own"
    /\ call' = [c \in Active |-> IF call[c].held = "bare" THEN [call[c] EXCEPT !.held = "own"] ELSE call[c]]
    /\ UNCHANGED <<scheme, item, home, moves, closed, failed, open>>

\* A request before the last one: the container or the value has to be there.
Proceed(c) ==
    /\ ~Last(c) /\ (At(c, "document") \/ At(c, "value")) /\ call[c].bad # "ctx"
    /\ IF ~home \/ (At(c, "value") /\ \E r \in call[c].refs : item[r] = "absent")
       THEN FailAs(c, Asked(c, {}, {}), Kind("absent"))
       ELSE Go(c, Asked(c, {}, {}))
    /\ UNCHANGED <<scheme, item, home, moves, closed, client, failed>>

\* Another replica may answer what this one could not.
Authoritative == {"notFound", "permissionDenied", "unauthenticated", "invalid", "rateLimited"}

\* Flipt takes every invalid request for one of the wrong type.
GoesOn(c, f) ==
    \/ At(c, "replica") /\ Kind(f) \notin Authoritative
    \/ At(c, "shape") /\ scheme = "flipt" /\ f = "invalid"

RequestFails(c) ==
    /\ \E step \in {"fallback", "replica", "document", "shape", "value"} : At(c, step)
    /\ call[c].bad # "ctx"
    /\ \E f \in Faults(c) :
          LET k == Asked(c, {f}, {Meaning[f]})
          IN  IF GoesOn(c, f) THEN Go(c, k) ELSE FailAs(c, k, Kind(f))
    /\ UNCHANGED <<scheme, item, home, moves, closed, client, failed>>

\* The client was released while the call held it.
ClientGone(c) ==
    /\ At(c, "value") /\ call[c].held = "own" /\ closed /\ Owned
    /\ call[c].bad # "ctx"
    /\ \E kind \in IF scheme = "split" THEN {"notFound"} ELSE {"unknown", "unavailable"} :
          FailAs(c, Asked(c, {"released"}, {}), kind)
    /\ UNCHANGED <<scheme, item, home, moves, closed, client, failed>>

Close ==
    /\ Provider.client.close # "never" /\ ~closed /\ closed' = TRUE
    /\ IF Owned /\ client \in {"own", "bare"}
       THEN client' = "none" /\ open' = open - 1
       ELSE UNCHANGED <<client, open>>
    /\ call' = [c \in Active |->
                   IF call[c].at > 0
                   THEN [call[c] EXCEPT !.due = [r \in Named |-> @[r] \cup {"unavailable"}]]
                   ELSE call[c]]
    /\ UNCHANGED <<scheme, item, home, moves, failed>>

-----------------------------------------------------------------------------

Idle ==
    [at |-> 0, refs |-> {}, bad |-> "none", late |-> FALSE, asked |-> FALSE, held |-> "none",
     lost |-> FALSE, due |-> [r \in Named |-> {}], met |-> [r \in Named |-> {}],
     got |-> [r \in Named |-> "none"], whole |-> FALSE]

Init ==
    /\ scheme \in Served /\ home = TRUE /\ item \in Backends
    /\ moves = 0 /\ closed = FALSE /\ failed = FALSE /\ open = 0
    /\ client \in {"none"} \cup (IF Provider.client.lends THEN {"lent"} ELSE {})
    /\ call = [c \in Active |-> Idle]

Next ==
    \/ Change
    \/ Close
    \/ Loads
    \/ \E c \in Active :
          \/ Begin(c) \/ CheckInput(c) \/ CheckClosed(c) \/ TakeClient(c) \/ Cancelled(c)
          \/ Exchange(c) \/ LookUp(c) \/ Fallback(c) \/ Answer(c) \/ Proceed(c)
          \/ Retype(c) \/ Unfetched(c) \/ RequestFails(c) \/ ClientGone(c)

Spec == Init /\ [][Next]_vars

-----------------------------------------------------------------------------
\* What a call returns is what was so at some moment of it: a value, an absence,
\* or what went wrong with one of its requests; or it has no kind, or it is one of
\* the misreadings the run names.  A batch that fails as a whole owes its kind to
\* one of its refs, and never fails with an absence, which would cost the other
\* refs their values.
Excused(c, r) == \E m \in call[c].met[r] : <<scheme, m, call[c].got[r]>> \in Misread

VerdictIsDeserved ==
    \A c \in Active, r \in Named :
        /\ call[c].at = 0 /\ call[c].got[r] \notin {"none", "unknown"} =>
               \E q \in IF call[c].whole THEN Named ELSE {r} :
                  call[c].got[r] \in call[c].due[q] \/ Excused(c, q)
        /\ scheme \in Sparing /\ call[c].whole => call[c].got[r] # "notFound"

\* Close is final.  A call made after it returned sends no request, and says that
\* the provider is unavailable unless it refuses its input; and a closed provider
\* holds no client it built but the ones calls in progress release themselves.
CloseIsFinal ==
    /\ \A c \in Active :
          call[c].late =>
              /\ ~call[c].asked
              /\ \A r \in Named :
                    call[c].got[r] \in {"none", "unavailable", "cancelled", Provider.badRef}
    /\ closed => open = Cardinality({c \in Active : call[c].held = "brief"})
=============================================================================
