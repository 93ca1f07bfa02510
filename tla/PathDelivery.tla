----------------------------- MODULE PathDelivery -----------------------------
(***************************************************************************)
(* What the navigation bridge promises to the local planner, without the   *)
(* protocol that keeps the promise: there is at most one target, targets   *)
(* are numbered in the order they arrive, and the only path ever handed    *)
(* over is a path to the target that is current at that moment.            *)
(***************************************************************************)
EXTENDS Naturals

CONSTANTS
    Goals,      \* poses a user may ask for
    MaxGoals    \* bound on the number of targets of one behaviour

VARIABLES
    target,     \* the number and the pose of the newest target
    pursued,    \* whether that target is still to be reached
    delivery    \* the last path handed over: its target and its stamp

Target == [seq : 0..MaxGoals, goal : Goals]

NoTarget(g) == [seq |-> 0, goal |-> g]

Init ==
    /\ \E g \in Goals : target = NoTarget(g)
    /\ pursued = FALSE
    /\ delivery = [to |-> target, stamp |-> 0]

NewTarget ==
    /\ target.seq < MaxGoals
    /\ \E g \in Goals : target' = [seq |-> target.seq + 1, goal |-> g]
    /\ pursued' = TRUE
    /\ UNCHANGED delivery

Deliver ==
    /\ pursued
    /\ delivery' = [to |-> target, stamp |-> 1 - delivery.stamp]
    /\ UNCHANGED <<target, pursued>>

Arrive ==
    /\ pursued
    /\ pursued' = FALSE
    /\ UNCHANGED <<target, delivery>>

Next == NewTarget \/ Deliver \/ Arrive

Spec == Init /\ [][Next]_<<target, pursued, delivery>>
===============================================================================
