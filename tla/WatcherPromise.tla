---------------------------- MODULE WatcherPromise ----------------------------
(* What a Watcher promises the application, without its goroutines: snapshots  *)
(* are applied one after the other, Get returns one of them, OnChange is told  *)
(* of some of them, a pin holds Get still, and Close is the end of it all.     *)
EXTENDS Naturals

VARIABLES
    applied,    \* the newest snapshot
    get,        \* the snapshot Get returns
    frozen,     \* the snapshot Get is pinned at, or 0
    told,       \* the snapshot OnChange was last called with, or 0
    over        \* Close has returned

vars == <<applied, get, frozen, told, over>>

Init == applied = 1 /\ get = 1 /\ frozen = 0 /\ told = 0 /\ over = FALSE

\* An update is accepted.
Apply == applied' = applied + 1 /\ UNCHANGED <<get, frozen, told>>

\* Get moves only to the newest snapshot, and never while pinned.
Serve == frozen = 0 /\ get' = applied /\ UNCHANGED <<applied, frozen, told>>

\* Pin and PinCurrent: any snapshot there is.
Freeze ==
    /\ \E v \in 1 .. applied : frozen' = v /\ get' = v
    /\ UNCHANGED <<applied, told>>

Unfreeze == frozen # 0 /\ frozen' = 0 /\ get' = applied /\ UNCHANGED <<applied, told>>

\* OnChange hears of snapshots in their order, some left out, and, unpinned, of none
\* that Get does not have yet.
Tell ==
    /\ \E v \in 1 .. applied :
          /\ v >= told
          /\ frozen = 0 => v <= get
          /\ told' = v
    /\ UNCHANGED <<applied, get, frozen>>

\* Once Close has returned nothing moves and nobody is called.
Next ==
    /\ ~over
    /\ \/ (Apply \/ Serve \/ Freeze \/ Unfreeze \/ Tell) /\ UNCHANGED over
       \/ over' = TRUE /\ UNCHANGED <<applied, get, frozen, told>>

Spec == Init /\ [][Next]_vars
=============================================================================
