--------------------------- MODULE MCNativeWatch ---------------------------
EXTENDS NativeWatch

All == {"etcd", "launchdarkly", "k8s", "firestore", "firebase-rtdb", "mongodb", "mongodb?key",
        "postgres", "redis", "sops", "sqlite", "file", "consul", "nacos"}

\* The watches that start from a baseline or from the backend's own state.
Baselined == All \ {"etcd", "launchdarkly"}

Restarting == {"k8s", "consul", "nacos"}

\* go-redis subscribes again behind the loop's back; launchdarkly's events end when its
\* client is closed.
Telling == All \ {"redis", "launchdarkly"}
=============================================================================
