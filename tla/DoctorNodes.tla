----------------------------- MODULE DoctorNodes -----------------------------
(***************************************************************************)
(* Doctor WebSocket nodes (infra/doctor_nodes.py, routers/doctor_ws.py):   *)
(* one handler coroutine per socket, an in-memory session and an outbound  *)
(* queue per engine, and the job.assign messages that travel through them. *)
(*                                                                         *)
(* A handler starts when its socket is accepted and ends, in its finally   *)
(* block, some time after its peer is gone; until then nobody knows that   *)
(* the peer is gone, and the peer may already have opened another socket.  *)
(* Of a dispatch job only what the pushes depend on is kept; DispatchQueue *)
(* has the rest.                                                           *)
(***************************************************************************)
EXTENDS Naturals, FiniteSets, Sequences, SequencesExt

CONSTANTS Engines, Sockets, Jobs,
          Eligible,    \* Eligible[j]: engines that job j's target names
          None

ASSUME DoctorNames ==
    /\ None \notin Sockets \cup Engines
    /\ Eligible \in [Jobs -> SUBSET Engines]
    /\ IsFiniteSet(Jobs)

VARIABLES
    sessions,  \* _sessions: engines with a session
    outbound,  \* _outbound[e]: the socket whose queue is registered, or None
    handler,   \* handler[s]: "unused", "welcome", "loop" or "done"
    owner,     \* owner[s]: the engine of the socket's token
    peer,      \* peer[s]: the Doctor's end is still there
    queue,     \* queue[s]: job.assign messages in the handler's queue
    job,       \* job[j]: "absent", "live" or "ended"
    lease,     \* lease[j]: the engine that has leased job j, or None
    late,      \* leased jobs whose lease has run out
    got,       \* got[e]: jobs whose job.assign has reached the Doctor
    redo       \* history: jobs whose lease was taken back

vars == <<sessions, outbound, handler, owner, peer, queue, job, lease, late, got,
          redo>>

sockets == <<handler, owner, peer>>

jobs == <<job, lease, late, redo>>

Init ==
    /\ sessions = {}
    /\ outbound = [e \in Engines |-> None]
    /\ handler = [s \in Sockets |-> "unused"]
    /\ owner = [s \in Sockets |-> None]
    /\ peer = [s \in Sockets |-> FALSE]
    /\ queue = [s \in Sockets |-> <<>>]
    /\ job = [j \in Jobs |-> "absent"]
    /\ lease = [j \in Jobs |-> None]
    /\ late = {}
    /\ got = [e \in Engines |-> {}]
    /\ redo = {}

Running(s) == handler[s] \in {"welcome", "loop"}

-----------------------------------------------------------------------------
(* A connection.                                                           *)

\* Accepted: register_outbound and connect_session replace whatever an earlier
\* socket of the engine had registered.
Accept(s, e) ==
    /\ handler[s] = "unused"
    /\ handler' = [handler EXCEPT ![s] = "welcome"]
    /\ owner' = [owner EXCEPT ![s] = e]
    /\ peer' = [peer EXCEPT ![s] = TRUE]
    /\ outbound' = [outbound EXCEPT ![e] = s]
    /\ sessions' = sessions \cup {e}
    /\ UNCHANGED <<queue, jobs, got>>

\* The welcome is sent before anything is taken from the queue.
Welcome(s) ==
    /\ handler[s] = "welcome"
    /\ peer[s]
    /\ handler' = [handler EXCEPT ![s] = "loop"]
    /\ UNCHANGED <<sessions, outbound, owner, peer, queue, jobs, got>>

\* mutant: only the registered queue is read
SendNextRegistered(s) ==
    /\ handler[s] = "loop"
    /\ queue[s] # <<>>
    /\ outbound[owner[s]] = s
    /\ queue' = [queue EXCEPT ![s] = Tail(@)]
    /\ got' = [got EXCEPT ![owner[s]] = @ \cup {Head(queue[s])}]
    /\ UNCHANGED <<sessions, outbound, sockets, jobs>>

\* The loop takes the next message and sends it; a send to a peer that is gone
\* may go through as well, and the message is lost.
SendNext(s) ==
    /\ handler[s] = "loop"
    /\ queue[s] # <<>>
    /\ queue' = [queue EXCEPT ![s] = Tail(@)]
    /\ got' = IF peer[s] THEN [got EXCEPT ![owner[s]] = @ \cup {Head(queue[s])}]
                         ELSE got
    /\ UNCHANGED <<sessions, outbound, sockets, jobs>>

PeerGone(s) ==
    /\ Running(s)
    /\ peer[s]
    /\ peer' = [peer EXCEPT ![s] = FALSE]
    /\ UNCHANGED <<sessions, outbound, handler, owner, queue, jobs, got>>

\* mutant: the session stays behind
FinishKeepsSession(s) ==
    /\ Running(s)
    /\ ~peer[s]
    /\ handler' = [handler EXCEPT ![s] = "done"]
    /\ outbound' = [outbound EXCEPT ![owner[s]] = IF @ = s THEN None ELSE @]
    /\ queue' = [queue EXCEPT ![s] = <<>>]
    /\ UNCHANGED <<sessions, owner, peer, jobs, got>>

\* The send or receive fails and the finally block runs: unregister_outbound
\* drops the queue only if it is this handler's own, but disconnect_session then
\* drops the engine's session and queue, whosever they are.  The messages left
\* in the handler's own queue are lost.
Finish(s) ==
    /\ Running(s)
    /\ ~peer[s]
    /\ handler' = [handler EXCEPT ![s] = "done"]
    /\ sessions' = sessions \ {owner[s]}
    /\ outbound' = [outbound EXCEPT ![owner[s]] = None]
    /\ queue' = [queue EXCEPT ![s] = <<>>]
    /\ UNCHANGED <<owner, peer, jobs, got>>

-----------------------------------------------------------------------------
(* Jobs.                                                                   *)

\* mutant: the status goes into the wrong column
SweptStatus == [j \in Jobs |-> IF j \in late THEN "queued" ELSE lease[j]]

\* The leases a new lease starts from: _requeue_stale has taken the late ones
\* back.
swept == [j \in Jobs |-> IF j \in late THEN None ELSE lease[j]]

Sweep ==
    /\ late' = {}
    /\ redo' = redo \cup late

\* offer_job_to_doctor for a new job: a live Doctor that it names gets a lease
\* and the message; with none, the job waits and nothing is swept.
OfferJob(j) ==
    LET live == Eligible[j] \cap sessions
    IN  /\ job[j] = "absent"
        /\ job' = [job EXCEPT ![j] = "live"]
        /\ \/ /\ live = {}
              /\ UNCHANGED <<queue, lease, late, redo>>
           \/ \E e \in live :
              /\ lease' = [swept EXCEPT ![j] = e]
              /\ queue' = [queue EXCEPT ![outbound[e]] = Append(@, j)]
              /\ Sweep
        /\ UNCHANGED <<sessions, outbound, sockets, got>>

\* mutant: the drain takes leased jobs as well
DrainableAgain(e) == {j \in Jobs : job[j] = "live" /\ e \in Eligible[j]}

Drainable(e) ==
    {j \in Jobs : job[j] = "live" /\ swept[j] = None /\ e \in Eligible[j]}

\* hello from the peer of socket s: touch_session, then the drain, which leases
\* the queued jobs one by one and pushes them into the engine's registered
\* queue.  Without a session both do nothing, and hello is acked all the same.
Hello(s) ==
    LET e == owner[s]
    IN  /\ handler[s] = "loop"
        /\ peer[s]
        /\ e \in sessions
        /\ \E order \in SetToSeqs(Drainable(e)) :
           queue' = [queue EXCEPT ![outbound[e]] = @ \o order]
        /\ lease' = [j \in Jobs |-> IF j \in Drainable(e) THEN e ELSE swept[j]]
        /\ Sweep
        /\ UNCHANGED <<sessions, outbound, sockets, job, got>>

\* job.complete over any socket of the engine, accepted from the lease holder
\* or when there is none.  The Doctor may not hear of it and keep the job.
Complete(s, j) ==
    LET e == owner[s]
    IN  /\ handler[s] = "loop"
        /\ peer[s]
        /\ j \in got[e]
        /\ job[j] = "live"
        /\ lease[j] \in {None, e}
        /\ job' = [job EXCEPT ![j] = "ended"]
        /\ late' = late \ {j}
        /\ got' \in {got, [got EXCEPT ![e] = @ \ {j}]}
        /\ UNCHANGED <<sessions, outbound, sockets, queue, lease, redo>>

\* Bound: the lease of a job runs out once.
LeaseRunsOut(j) ==
    /\ job[j] = "live"
    /\ lease[j] # None
    /\ j \notin redo
    /\ late' = late \cup {j}
    /\ UNCHANGED <<sessions, outbound, sockets, queue, job, lease, got, redo>>

\* Some other engine's poll, or the hosted worker's, sweeps.
OtherPoll ==
    /\ late # {}
    /\ lease' = swept
    /\ Sweep
    /\ UNCHANGED <<sessions, outbound, sockets, queue, job, got>>

\* The Doctor crashes with what it was working on.
ForgetJob(e, j) ==
    /\ j \in got[e]
    /\ got' = [got EXCEPT ![e] = @ \ {j}]
    /\ UNCHANGED <<sessions, outbound, sockets, queue, jobs>>

Next ==
    \/ \E s \in Sockets, e \in Engines : Accept(s, e)
    \/ \E s \in Sockets : Welcome(s)
    \/ \E s \in Sockets : SendNext(s)
    \/ \E s \in Sockets : PeerGone(s)
    \/ \E s \in Sockets : Finish(s)
    \/ \E j \in Jobs : OfferJob(j)
    \/ \E s \in Sockets : Hello(s)
    \/ \E s \in Sockets, j \in Jobs : Complete(s, j)
    \/ \E j \in Jobs : LeaseRunsOut(j)
    \/ OtherPoll
    \/ \E e \in Engines, j \in Jobs : ForgetJob(e, j)

Spec == Init /\ [][Next]_vars

\* The event loop schedules every handler that can run; a peer that is gone is
\* noticed (uvicorn's WebSocket ping).  The peers promise nothing.
Fairness ==
    \A s \in Sockets : /\ WF_vars(Welcome(s))
                       /\ WF_vars(SendNext(s))
                       /\ WF_vars(Finish(s))

FairSpec == Spec /\ Fairness

-----------------------------------------------------------------------------
(* Properties.                                                             *)

TypeOK ==
    /\ sessions \subseteq Engines
    /\ outbound \in [Engines -> Sockets \cup {None}]
    /\ handler \in [Sockets -> {"unused", "welcome", "loop", "done"}]
    /\ owner \in [Sockets -> Engines \cup {None}]
    /\ peer \in [Sockets -> BOOLEAN]
    /\ queue \in [Sockets -> Seq(Jobs)]
    /\ job \in [Jobs -> {"absent", "live", "ended"}]
    /\ lease \in [Jobs -> Engines \cup {None}]
    /\ late \subseteq Jobs
    /\ got \in [Engines -> SUBSET Jobs]
    /\ redo \subseteq Jobs

\* An engine is taken for live exactly while a queue is registered for it, and
\* the registered queue has a reader: a handler of that engine that still runs.
\* So a job is never leased for a push that nobody will try to send, and the
\* push_failed branches of offer and drain are never taken.
PushHasReader ==
    \A e \in Engines :
        /\ e \in sessions <=> outbound[e] # None
        /\ e \in sessions => Running(outbound[e]) /\ owner[outbound[e]] = e

\* However often a Doctor reconnects, says hello on an old and a new socket and
\* is offered jobs in between, a job whose lease was not taken back is pushed
\* once, to an engine that its target names: it is in one queue, or with one
\* Doctor, never in two places.
PushedOnce ==
    /\ \A j \in Jobs \ redo :
          LET places(s) == {i \in 1..Len(queue[s]) : queue[s][i] = j}
              pushes    == UNION {{s} \X places(s) : s \in Sockets}
              holders   == {e \in Engines : j \in got[e]}
          IN  Cardinality(pushes) + Cardinality(holders) <= 1
    /\ \A s \in Sockets : \A j \in Range(queue[s]) : owner[s] \in Eligible[j]

Peered(e) == \E s \in Sockets : Running(s) /\ owner[s] = e /\ peer[s]

\* No ghosts: an engine whose Doctors are all gone goes offline, unless it
\* connects again.
NoGhosts == \A e \in Engines : ~Peered(e) ~> (e \notin sessions \/ Peered(e))

\* A pushed message moves on: it reaches the Doctor or dies with the socket; it
\* does not wait for ever behind a connection that lives.
PushMovesOn ==
    \A s \in Sockets, j \in Jobs :
        j \in Range(queue[s]) ~> (j \notin Range(queue[s]) \/ j \in redo)

\* "Connected Doctor nodes mark their engine online for Fleet and receive
\* job.assign pushes" (doctor_nodes.py:3).
ConnectedIsOnline ==
    \A s \in Sockets : handler[s] = "loop" /\ peer[s] => owner[s] \in sessions
=============================================================================
