----------------------------- MODULE FrameQueue -----------------------------
(***************************************************************************)
(* What the queues of the Livox driver promise to the thread that          *)
(* publishes the point clouds: for each lidar a queue of bounded length,   *)
(* from which frames come out once each and in the order they went in.     *)
(* Which frames go in is not promised: nothing makes Store happen.         *)
(***************************************************************************)
EXTENDS Naturals, Sequences

CONSTANTS Lidars, QueueSize, Frame

VARIABLES
    queue,   \* [Lidars -> sequence of the frames stored and not yet popped]
    popped   \* [Lidars -> the frame popped last]

Init ==
    /\ queue = [l \in Lidars |-> <<>>]
    /\ popped \in [Lidars -> Frame]

Store(l, f) ==
    /\ Len(queue[l]) < QueueSize
    /\ queue' = [queue EXCEPT ![l] = Append(@, f)]
    /\ UNCHANGED popped

Pop(l) ==
    /\ queue[l] # <<>>
    /\ popped' = [popped EXCEPT ![l] = Head(queue[l])]
    /\ queue' = [queue EXCEPT ![l] = Tail(@)]

Next == \E l \in Lidars : Pop(l) \/ \E f \in Frame : Store(l, f)

Spec == Init /\ [][Next]_<<queue, popped>>
=============================================================================
