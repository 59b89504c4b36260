----------------------------- MODULE MCEchoNet -----------------------------
\* A small instance of the echo-to-stdout programs: every server, four shapes
\* of the first client (two programs, each kind of input, both ways to end),
\* and a select client that types one line at a terminal.
EXTENDS EchoNet, TLC

CONSTANTS c1, c2
MCServers == {"epoll", "select", "uring"}
MCShapes ==
  (c1 :> {[kind |-> "epoll", stdin |-> "tty", bye |-> "eof"],
          [kind |-> "epoll", stdin |-> "pipe", bye |-> "exit"],
          [kind |-> "uring", stdin |-> "tty", bye |-> "exit"],
          [kind |-> "uring", stdin |-> "pipe", bye |-> "eof"]}) @@
  (c2 :> {[kind |-> "select", stdin |-> "tty", bye |-> "eof"]})
MCLines == (c1 :> 2) @@ (c2 :> 1)
=============================================================================
