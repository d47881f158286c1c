---------------------------- MODULE MCNativeSync ----------------------------
EXTENDS NativeSync, TLC

CONSTANTS g1, g2, g3

Once == <<"lock", "unlock">>

\* Three users of a mutex, two of which come back.
Locks == (g1 :> Once \o Once) @@ (g2 :> Once) @@ (g3 :> <<"try", "unlock">> \o Once)

\* Two tokens are released; everybody acquires, and two give their token back.
Tokens ==
    (g1 :> <<"acquire", "release">>) @@ (g2 :> <<"acquire", "release">>)
    @@ (g3 :> <<"release", "release", "acquire">>)

\* Two goroutines wait for a condition that the third makes true.
Waits == <<"lock", "await", "unlock">>
Broadcasts == (g1 :> Waits) @@ (g2 :> Waits) @@ (g3 :> <<"lock", "set", "broadcast", "unlock">>)
Signals == (g1 :> Waits) @@ (g2 :> Waits) @@ (g3 :> <<"lock", "set", "signal", "unlock", "signal">>)

SmallPrograms == {Locks, Tokens, Broadcasts, Signals}
=============================================================================
