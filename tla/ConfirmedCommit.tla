--------------------------- MODULE ConfirmedCommit ---------------------------
(***************************************************************************)
(* What the commit operations promise: a running configuration, the one    *)
(* that has been confirmed, and the one the next boot will load.  While a  *)
(* confirmed commit is pending the running configuration may change again; *)
(* it is then confirmed as it is, which also makes it the one to boot, or  *)
(* taken back as a whole.  Outside of a confirmed commit, what is running  *)
(* is what is confirmed.                                                   *)
(***************************************************************************)
CONSTANTS Config, Mirror  \* Mirror: every confirmed change is also saved

VARIABLES running, confirmed, saved, pending

vars == <<running, confirmed, saved, pending>>

Init ==
    /\ running \in Config
    /\ confirmed = running /\ saved = running
    /\ pending = FALSE

Commit ==
    /\ ~pending
    /\ running' \in Config
    /\ confirmed' = running'
    /\ saved' = IF Mirror THEN running' ELSE saved
    /\ pending' = FALSE

(* Start a confirmed commit, or add to the one that is pending             *)
Try ==
    /\ running' \in Config
    /\ pending' = TRUE
    /\ UNCHANGED <<confirmed, saved>>

(* What is running is kept and saved; the confirming commit may add to it  *)
Confirm ==
    /\ pending
    /\ running' \in Config
    /\ confirmed' = running'
    /\ saved' = IF Mirror THEN running' ELSE running
    /\ pending' = FALSE

Cancel ==
    /\ pending
    /\ running' = confirmed
    /\ pending' = FALSE
    /\ UNCHANGED <<confirmed, saved>>

Save ==
    /\ ~Mirror
    /\ saved' \in Config
    /\ UNCHANGED <<running, confirmed, pending>>

Boot ==
    /\ running' = saved
    /\ confirmed' = saved
    /\ pending' = FALSE
    /\ UNCHANGED saved

Next == Commit \/ Try \/ Confirm \/ Cancel \/ Save \/ Boot

Spec == Init /\ [][Next]_vars
=============================================================================
