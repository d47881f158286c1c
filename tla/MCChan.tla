------------------------------- MODULE MCChan -------------------------------
EXTENDS ChanRefinement, TLC

CONSTANTS g1, g2, g3

send(c) == [ch |-> c, send |-> TRUE]
recv(c) == [ch |-> c, send |-> FALSE]
Plain(k) == [kind |-> "plain", cases |-> <<k>>]
Try(ks) == [kind |-> "try", cases |-> ks]
Select(ks) == [kind |-> "select", cases |-> ks]
Close(c) == [kind |-> "close", cases |-> <<recv(c)>>]

\* An unbuffered channel and one of capacity 1.
TwoCap == (1 :> 0) @@ (2 :> 1)

\* The buffered channel: senders, a closer and a receiver that polls.
BufferedMenu ==
    (g1 :> <<{Plain(send(2))}, {Plain(send(2)), Close(2)}, {Close(2)}>>)
    @@ (g2 :> <<{Plain(send(2)), Plain(recv(2))}, {Plain(recv(2)), Try(<<send(2)>>)}>>)
    @@ (g3 :> <<{Plain(recv(2))}, {Plain(recv(2)), Try(<<recv(2)>>)}, {Try(<<recv(2)>>)}>>)

\* Both channels: selects that name them in both orders,
\* with a nil case, against plain operations and a close.
SelectMenu ==
    (g1 :> <<{Select(<<recv(2), recv(1)>>), Select(<<send(1), send(2)>>),
              Select(<<send(1), recv(1)>>)}, {Plain(recv(1)), Select(<<>>)}>>)
    @@ (g2 :> <<{Select(<<recv(NilChan), send(1), recv(2)>>)}, {Close(2)}>>)
    @@ (g3 :> <<{Plain(send(2)), Try(<<recv(1), recv(2)>>)}, {Plain(recv(2)), Plain(send(NilChan))}>>)

\* One select twice on the same channel, two closers, and senders that are closed on.
CloseMenu ==
    (g1 :> <<{Select(<<send(1), send(1)>>), Select(<<recv(2), recv(1), recv(2)>>)},
             {Plain(send(1)), Try(<<send(1)>>)}, {Close(1)}>>)
    @@ (g2 :> <<{Plain(send(1)), Plain(recv(1))}, {Close(1)}, {Close(1), Try(<<recv(1)>>)}>>)
    @@ (g3 :> <<{Plain(recv(1)), Select(<<send(2), recv(1)>>)}, {Try(<<recv(1)>>)}>>)

\* Selects in both orders against plain operations and a close, each goroutine
\* running one operation.
LiveMenu ==
    (g1 :> <<{Select(<<recv(2), recv(1)>>), Select(<<send(1), send(2)>>)}>>)
    @@ (g2 :> <<{Select(<<send(1), recv(2)>>), Close(2)}>>)
    @@ (g3 :> <<{Plain(send(2)), Plain(recv(1))}>>)

SafeMenus == {BufferedMenu, SelectMenu, CloseMenu}
=============================================================================
