-------------------------- MODULE ManagementSession --------------------------
(***************************************************************************)
(* What a test may rely on when it opens management clients one after the   *)
(* other: each is a session with a daemon connection of its own, as if the  *)
(* client were connected to the daemon's socket.  There are no pipes, no     *)
(* proxies and no link here; DaemonProxy implements this.                   *)
(***************************************************************************)
EXTENDS Naturals, Sequences

CONSTANT MaxSessions  \* bound on the clients a test opens

VARIABLES
  cur,     \* number of the current session, 0 before the first
  status,  \* "unused", "open", "closed" (by the test) or "down" (it was told)
  nreq,    \* requests the client has made
  since,   \* value of stops when the session was opened
  got,     \* what the client has received
  heard,   \* what the daemon has received on the session's connection
  coming,  \* frames of the daemon the client has not received yet
  up,      \* the daemon runs
  stops    \* how often it has stopped, reboots included

vars == <<cur, status, nreq, since, got, heard, coming, up, stops>>

Msg(s, n) == [s |-> s, n |-> n]

Init ==
  /\ cur = 0 /\ status = "unused" /\ nreq = 0 /\ since = 0
  /\ got = <<>> /\ heard = <<>> /\ coming = 0
  /\ up = TRUE /\ stops = 0

\* A new session starts with nothing of the last one.
Open ==
  /\ status # "open" /\ cur < MaxSessions
  /\ cur' = cur + 1 /\ status' = "open" /\ since' = stops
  /\ nreq' = 0 /\ got' = <<>> /\ heard' = <<>> /\ coming' = 0
  /\ UNCHANGED <<up, stops>>

Request ==
  /\ status = "open" /\ nreq' = nreq + 1
  /\ UNCHANGED <<cur, status, since, got, heard, coming, up, stops>>

Drop ==
  /\ status = "open" /\ status' = "closed"
  /\ UNCHANGED <<cur, nreq, since, got, heard, coming, up, stops>>

\* The daemon is gone, or was since the session was opened.
Disturbed == ~up \/ since # stops

\* The client is told, for that reason only.
Tell ==
  /\ status = "open" /\ Disturbed /\ status' = "down"
  /\ UNCHANGED <<cur, nreq, since, got, heard, coming, up, stops>>

\* Requests reach the daemon in order, none left out.
Hear ==
  /\ up /\ Len(heard) < nreq
  /\ heard' = Append(heard, Msg(cur, Len(heard) + 1))
  /\ UNCHANGED <<cur, status, nreq, since, got, coming, up, stops>>

DaemonSends ==
  /\ heard # <<>> /\ coming' = coming + 1
  /\ UNCHANGED <<cur, status, nreq, since, got, heard, up, stops>>

\* The client receives what the daemon sent to it, in order, none left out.
Receive ==
  /\ status = "open" /\ coming > 0
  /\ coming' = coming - 1
  /\ got' = Append(got, Msg(cur, Len(got) + 1))
  /\ UNCHANGED <<cur, status, nreq, since, heard, up, stops>>

\* A connection ends, and frames are lost, when the client has gone or for a
\* stop of the daemon; never under a client that goes on.
Lose ==
  /\ status # "open" \/ Disturbed
  /\ heard' \in {heard, <<>>} /\ coming' \in 0..coming
  /\ UNCHANGED <<cur, status, nreq, since, got, up, stops>>

\* The daemon or the guest stops; reboot() tells the client in the same step.
Stop ==
  /\ stops' = stops + 1
  /\ up' \in {up, FALSE}
  /\ status' \in IF status = "open" THEN {"open", "down"} ELSE {status}
  /\ UNCHANGED <<cur, nreq, since, got, heard, coming>>

\* The daemon is back; a restarted guest has no connections.
Start ==
  /\ up' = TRUE
  /\ \/ UNCHANGED <<heard, coming>>
     \/ since # stops /\ heard' = <<>> /\ coming' \in 0..coming
     \/ status # "open" /\ heard' = <<>> /\ coming' \in 0..coming
  /\ UNCHANGED <<cur, status, nreq, since, got, stops>>

Next ==
  \/ Open \/ Request \/ Drop \/ Tell \/ Hear \/ DaemonSends \/ Receive
  \/ Lose \/ Stop \/ Start

Spec == Init /\ [][Next]_vars
=============================================================================
