--------------------------- MODULE DatabaseService ---------------------------
(***************************************************************************)
(* What Database promises to TcpServer across the two IPC queues: requests *)
(* are taken in order, kept in order and answered in order, one response   *)
(* for each; a response that does not fit is dropped, and nothing else is. *)
(*                                                                         *)
(* This is the abstract specification.  DatabaseThreads, the threads of    *)
(* Database, implements it, and so does the environment that TcpServer     *)
(* assumes.                                                                *)
(***************************************************************************)
EXTENDS Integers, Sequences

CONSTANTS Requests,   \* requests TcpServer may submit
          Capacity    \* capacity of each IPC queue

VARIABLES toDb,       \* IPC queue of requests
          held,       \* requests Database has taken and not answered
          toTcp       \* IPC queue of responses, each named by its request

dvars == <<toDb, held, toTcp>>

Init == toDb = <<>> /\ held = <<>> /\ toTcp = <<>>

\* TcpServer submits a request.
Submit(r) ==
  /\ Len(toDb) < Capacity
  /\ toDb' = Append(toDb, r)
  /\ UNCHANGED <<held, toTcp>>

\* Database takes the oldest request.
Read ==
  /\ toDb # <<>>
  /\ held' = Append(held, Head(toDb))
  /\ toDb' = Tail(toDb)
  /\ UNCHANGED toTcp

\* Database answers the oldest request it has taken.
Answer ==
  /\ held # <<>>
  /\ held' = Tail(held)
  /\ \/ Len(toTcp) < Capacity /\ toTcp' = Append(toTcp, Head(held))
     \/ Len(toTcp) = Capacity /\ UNCHANGED toTcp
  /\ UNCHANGED toDb

\* TcpServer collects the oldest response.
Collect ==
  /\ toTcp # <<>>
  /\ toTcp' = Tail(toTcp)
  /\ UNCHANGED <<toDb, held>>

Next == (\E r \in Requests : Submit(r)) \/ Read \/ Answer \/ Collect

Spec == Init /\ [][Next]_dvars

=============================================================================
