------------------------------ MODULE MCWatcher ------------------------------
(* Watcher with one application goroutine beside the callbacks: it pins, unpins *)
(* and refreshes, the OnChange handler pins what it finds, and the hooks try to *)
(* unpin.                                                                       *)
EXTENDS Watcher

MCIssues ==
    [g \in Goroutines |->
        IF g = Handler THEN {"pinCurrent"}
        ELSE IF g = Hook THEN {"unpin"}
        ELSE {"pinAt", "unpin", "refresh"}]
=============================================================================
