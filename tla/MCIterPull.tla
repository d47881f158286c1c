----------------------------- MODULE MCIterPull -----------------------------
EXTENDS MCChan, IterPull

\* The two channels of the menus, and three more unbuffered ones for Pull.
PullCap == TwoCap @@ (3 :> 0) @@ (4 :> 0) @@ (5 :> 0)

\* Bound: channel operations of each of the two goroutines of Pull.
MaxOps == 14

\* All that iter.Pull does with its channels; IterPull says when.
PullOps ==
    {Receive(1), Send(1), Receive(3), Send(3), Poll(4), CloseOf(3), CloseOf(4), CloseOf(5),
     Receive(5)}
Pulls == [g \in Goroutines |-> IF g = g3 THEN <<>> ELSE [i \in 1 .. MaxOps |-> PullOps]]
PullMenus == {LiveMenu, Pulls}
=============================================================================
