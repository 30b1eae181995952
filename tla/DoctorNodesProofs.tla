-------------------------- MODULE DoctorNodesProofs --------------------------
(***************************************************************************)
(* For any engines, sockets and jobs: the types, that a push always finds  *)
(* a queue with a reader, and that a job is pushed once.  PushHasReader    *)
(* needs only the types of the four variables it reads: jobs and queues do *)
(* not matter.  PushedOnce rests on it, since a message goes into the      *)
(* registered queue, and on what a push tells about its job's lease.       *)
(***************************************************************************)
EXTENDS DoctorNodes, FiniteSetTheorems, SequenceTheorems, TLAPS

SocketTypes ==
    /\ sessions \subseteq Engines
    /\ outbound \in [Engines -> Sockets \cup {None}]
    /\ handler \in [Sockets -> {"unused", "welcome", "loop", "done"}]
    /\ owner \in [Sockets -> Engines \cup {None}]

PInv == SocketTypes /\ PushHasReader

LEMMA PInvInit == Init => PInv
BY DoctorNames DEF Init, PInv, SocketTypes, PushHasReader

\* A handler that starts or ends, and the two maps it rewrites.
LEMMA PInvSockets ==
    ASSUME PInv, NEW s \in Sockets, NEW e \in Engines,
           Accept(s, e) \/ Welcome(s) \/ Finish(s)
    PROVE  PInv'
<1>1. CASE Accept(s, e)
  <2>1. /\ \A i \in Sockets : handler'[i] = IF i = s THEN "welcome" ELSE handler[i]
        /\ \A i \in Sockets : owner'[i] = IF i = s THEN e ELSE owner[i]
        /\ \A x \in Engines : outbound'[x] = IF x = e THEN s ELSE outbound[x]
        /\ sessions' = sessions \cup {e}
    BY <1>1 DEF Accept, PInv, SocketTypes
  <2>2. SocketTypes'
    BY <1>1 DEF Accept, PInv, SocketTypes
  <2>3. \A x \in Engines : x \in sessions => outbound[x] # s /\ outbound[x] \in Sockets
    BY <1>1 DEF Accept, PInv, SocketTypes, PushHasReader, Running
  <2>4. PushHasReader'
    BY <2>1, <2>3, DoctorNames DEF PInv, PushHasReader, Running
  <2>5. QED
    BY <2>2, <2>4 DEF PInv
<1>2. CASE Welcome(s)
  BY <1>2 DEF Welcome, PInv, SocketTypes, PushHasReader, Running
<1>3. CASE Finish(s)
  <2> DEFINE x == owner[s]
  <2>1. /\ \A i \in Sockets : handler'[i] = IF i = s THEN "done" ELSE handler[i]
        /\ \A y \in Engines : outbound'[y] = IF y = x THEN None ELSE outbound[y]
        /\ sessions' = sessions \ {x}
        /\ owner' = owner
    BY <1>3 DEF Finish, PInv, SocketTypes
  <2>2. SocketTypes'
    BY <1>3 DEF Finish, PInv, SocketTypes
  <2>3. \A y \in Engines : y # x /\ y \in sessions => outbound[y] # s
    BY DEF PInv, PushHasReader
  <2>4. \A y \in Engines : y \in sessions => outbound[y] \in Sockets
    BY DEF PInv, SocketTypes, PushHasReader
  <2>5. PushHasReader'
    BY <2>1, <2>3, <2>4 DEF PInv, PushHasReader, Running
  <2>6. QED
    BY <2>2, <2>5 DEF PInv
<1>4. QED
  BY <1>1, <1>2, <1>3

LEMMA PInvNext == PInv /\ [Next]_vars => PInv'
<1> SUFFICES ASSUME PInv, [Next]_vars
             PROVE  PInv'
  OBVIOUS
<1>1. CASE UNCHANGED <<sessions, outbound, handler, owner>>
  BY <1>1 DEF PInv, SocketTypes, PushHasReader, Running
<1>2. ASSUME NEW s \in Sockets, NEW e \in Engines, Accept(s, e)
      PROVE  PInv'
  BY <1>2, PInvSockets
<1>3. ASSUME NEW s \in Sockets, Welcome(s)
      PROVE  PInv'
  BY <1>3 DEF Welcome, PInv, SocketTypes, PushHasReader, Running
<1>4. ASSUME NEW s \in Sockets, Finish(s)
      PROVE  PInv'
  <2>1. CASE Engines = {}
    BY <1>4, <2>1 DEF Finish, PInv, SocketTypes, PushHasReader
  <2>2. CASE Engines # {}
    BY <1>4, <2>2, PInvSockets
  <2>3. QED
    BY <2>1, <2>2
<1>5. QED
  BY <1>1, <1>2, <1>3, <1>4
     DEF Next, vars, SendNext, PeerGone, OfferJob, Hello, Complete,
         LeaseRunsOut, OtherPoll, ForgetJob, sockets

-----------------------------------------------------------------------------
(* The other types.                                                        *)

JobTypes ==
    /\ peer \in [Sockets -> BOOLEAN]
    /\ queue \in [Sockets -> Seq(Jobs)]
    /\ job \in [Jobs -> {"absent", "live", "ended"}]
    /\ lease \in [Jobs -> Engines \cup {None}]
    /\ late \subseteq Jobs
    /\ got \in [Engines -> SUBSET Jobs]
    /\ redo \subseteq Jobs

\* Position i of socket s's queue holds job j.
Sent(s, i, j) == i \in 1..Len(queue[s]) /\ queue[s][i] = j

Pushed(j) ==
    \/ \E s \in Sockets : \E i \in Nat : Sent(s, i, j)
    \/ \E e \in Engines : j \in got[e]

\* Only a running handler has messages, all of them for its engine.
QueuesOK ==
    \A s \in Sockets :
        /\ ~Running(s) => queue[s] = <<>>
        /\ \A j \in Jobs, i \in Nat : Sent(s, i, j) => owner[s] \in Eligible[j]

\* A push in sight means that the job has been leased and never taken back, and
\* that no other push is in sight.
JobOK(j) ==
    /\ Pushed(j) => lease[j] # None /\ job[j] # "absent"
    /\ \A s, t \in Sockets, i, k \in Nat : Sent(s, i, j) /\ Sent(t, k, j) => s = t /\ i = k
    /\ \A s \in Sockets, i \in Nat, e \in Engines : Sent(s, i, j) => j \notin got[e]
    /\ \A e, f \in Engines : j \in got[e] /\ j \in got[f] => e = f

QInv == JobTypes /\ QueuesOK /\ \A j \in Jobs \ redo : JobOK(j)

LEMMA QInvInit == Init => QInv
<1> SUFFICES ASSUME Init PROVE QInv
  OBVIOUS
<1>1. JobTypes
  BY DEF Init, JobTypes
<1>2. \A s \in Sockets, i \in Nat, j \in Jobs : ~Sent(s, i, j)
  BY DEF Init, Sent
<1>3. QED
  BY <1>1, <1>2 DEF Init, QInv, QueuesOK, JobOK, Pushed

\* Messages and jobs in hand only vanish.
LEMMA PushesStay ==
    ASSUME QInv, JobTypes', redo \subseteq redo',
           \A s \in Sockets, i \in Nat, j \in Jobs : Sent(s, i, j)' => Sent(s, i, j),
           \A e \in Engines : got'[e] \subseteq got[e],
           \A s \in Sockets : ~Running(s)' => queue'[s] = <<>>,
           \A s \in Sockets : owner'[s] = owner[s] \/ queue[s] = <<>>,
           \A j \in Jobs \ redo' : Pushed(j) => lease'[j] = lease[j] /\ (job'[j] = job[j] \/ job'[j] # "absent")
    PROVE  QInv'
<1>1. \A s \in Sockets, i \in Nat, j \in Jobs : Sent(s, i, j) => queue[s] # <<>>
  BY DEF Sent, QInv, JobTypes
<1>2. QueuesOK'
  BY <1>1 DEF QInv, QueuesOK
<1>3. ASSUME NEW j \in Jobs \ redo'
      PROVE  JobOK(j)'
  <2>1. JobOK(j)
    BY <1>3 DEF QInv
  <2>2. Pushed(j)' => Pushed(j)
    BY DEF Pushed
  <2>3. Pushed(j)' => lease'[j] # None /\ job'[j] # "absent"
    BY <1>3, <2>1, <2>2 DEF JobOK
  <2>4. \A s, t \in Sockets, i, k \in Nat : (Sent(s, i, j) /\ Sent(t, k, j))' => s = t /\ i = k
    BY <2>1 DEF JobOK
  <2>5. /\ \A s \in Sockets, i \in Nat, e \in Engines : Sent(s, i, j)' => j \notin got'[e]
        /\ \A e, f \in Engines : j \in got'[e] /\ j \in got'[f] => e = f
    BY <2>1 DEF JobOK
  <2>6. QED
    BY <2>3, <2>4, <2>5 DEF JobOK
<1>4. QED
  BY <1>2, <1>3 DEF QInv

\* The head of a queue reaches its Doctor, or is lost.
LEMMA PushArrives ==
    ASSUME QInv, NEW s \in Sockets, SendNext(s)
    PROVE  QInv'
<1> DEFINE e == owner[s]
           m == Head(queue[s])
<1>0. /\ queue \in [Sockets -> Seq(Jobs)] /\ got \in [Engines -> SUBSET Jobs]
      /\ queue[s] \in Seq(Jobs) /\ queue[s] # <<>>
  BY DEF SendNext, QInv, JobTypes
<1>1. /\ m \in Jobs /\ Tail(queue[s]) \in Seq(Jobs)
      /\ Len(Tail(queue[s])) = Len(queue[s]) - 1
      /\ \A i \in 1..Len(Tail(queue[s])) : Tail(queue[s])[i] = queue[s][i + 1]
      /\ m = queue[s][1] /\ Len(queue[s]) \in Nat /\ Len(queue[s]) >= 1
  BY <1>0, HeadTailProperties, EmptySeq
<1>2. /\ queue'[s] = Tail(queue[s])
      /\ \A t \in Sockets \ {s} : queue'[t] = queue[t]
      /\ \A f \in Engines : got'[f] = got[f] \/ (f = e /\ got'[f] = got[f] \cup {m})
      /\ got' \in [Engines -> SUBSET Jobs]
      /\ UNCHANGED <<handler, owner, peer, job, lease, late, redo>>
  BY <1>0, <1>1 DEF SendNext, sockets, jobs
<1>3. JobTypes'
  BY <1>0, <1>1, <1>2 DEF SendNext, QInv, JobTypes
<1>4. Sent(s, 1, m)
  BY <1>1 DEF Sent
<1>5. /\ \A i \in Nat, j \in Jobs : Sent(s, i, j)' => i + 1 \in Nat /\ i + 1 # 1 /\ Sent(s, i + 1, j)
      /\ \A t \in Sockets \ {s}, i \in Nat, j \in Jobs : Sent(t, i, j)' => Sent(t, i, j)
  <2>1. ASSUME NEW i \in Nat, NEW j \in Jobs, Sent(s, i, j)'
        PROVE  i + 1 \in Nat /\ i + 1 # 1 /\ Sent(s, i + 1, j)
    BY <1>1, <1>2, <2>1 DEF Sent
  <2>2. QED
    BY <1>2, <2>1 DEF Sent
<1>6. QueuesOK'
  <2>1. \A t \in Sockets : ~Running(t)' => queue'[t] = <<>>
    BY <1>2 DEF SendNext, QInv, QueuesOK, Running
  <2>2. \A t \in Sockets, j \in Jobs, i \in Nat : Sent(t, i, j)' => owner'[t] \in Eligible[j]
    BY <1>2, <1>5 DEF QInv, QueuesOK
  <2>3. QED
    BY <2>1, <2>2 DEF QueuesOK
<1>7. ASSUME NEW j \in Jobs \ redo'
      PROVE  JobOK(j)'
  <2>1. JobOK(j)
    BY <1>2, <1>7 DEF QInv
  <2>2. \A t \in Sockets, i \in Nat : Sent(t, i, j)' =>
            \E k \in Nat : Sent(t, k, j) /\ (t = s => k = i + 1) /\ (t # s => k = i)
    BY <1>5
  <2>3. \A t, u \in Sockets, i, k \in Nat : (Sent(t, i, j) /\ Sent(u, k, j))' => t = u /\ i = k
    <3>1. \A i, k \in Nat : i + 1 = k + 1 => i = k
      OBVIOUS
    <3>2. QED
      BY <2>1, <2>2, <3>1 DEF JobOK
  <2>4. Pushed(j)' => lease'[j] # None /\ job'[j] # "absent"
    <3>1. Pushed(j)' => Pushed(j)
      BY <1>2, <1>4, <2>2 DEF Pushed
    <3>2. QED
      BY <1>2, <2>1, <3>1 DEF JobOK
  <2>5. CASE j # m
    BY <1>2, <2>1, <2>2, <2>3, <2>4, <2>5 DEF JobOK
  <2>6. CASE j = m
    <3>1. \A f \in Engines : j \notin got[f]
      BY <1>4, <2>1, <2>6 DEF JobOK
    <3>2. \A t \in Sockets, i \in Nat : ~Sent(t, i, j)'
      <4>1. ASSUME NEW t \in Sockets, NEW i \in Nat, Sent(t, i, j)'
            PROVE  FALSE
        <5>1. PICK k \in Nat : Sent(t, k, j) /\ (t = s => k = i + 1) /\ (t # s => k = i)
          BY <2>2, <4>1
        <5>2. t = s /\ k = 1
          BY <1>4, <2>1, <2>6, <5>1 DEF JobOK
        <5>3. i \in 1..Len(queue'[t])
          BY <4>1 DEF Sent
        <5>4. QED
          BY <5>1, <5>2, <5>3
      <4>2. QED
        BY <4>1
    <3>3. QED
      BY <1>2, <2>4, <3>1, <3>2 DEF JobOK
  <2>7. QED
    BY <2>5, <2>6
<1>8. QED
  BY <1>3, <1>6, <1>7 DEF QInv

\* Jobs that are nowhere go into the registered queue of an engine that may have them.
LEMMA PushesEnter ==
    ASSUME QInv, PInv, NEW e \in sessions, NEW order \in Seq(Jobs),
           queue' = [queue EXCEPT ![outbound[e]] = @ \o order],
           \A i, k \in 1..Len(order) : order[i] = order[k] => i = k,
           \A i \in 1..Len(order) :
               /\ e \in Eligible[order[i]]
               /\ order[i] \in redo' \/ ~Pushed(order[i])
               /\ lease'[order[i]] = e /\ job'[order[i]] # "absent",
           JobTypes', redo \subseteq redo', UNCHANGED <<handler, owner, got>>,
           \A j \in Jobs \ redo' : Pushed(j) => lease'[j] = lease[j] /\ job'[j] = job[j]
    PROVE  QInv'
<1>a. PICK b \in Sockets : b = outbound[e]
  BY DEF PInv, PushHasReader, SocketTypes
<1>0. e \in Engines /\ Running(b) /\ owner[b] = e /\ e # None
  BY <1>a, DoctorNames DEF PInv, PushHasReader, SocketTypes
<1>b. PICK n \in Nat : n = Len(queue[b])
  BY DEF QInv, JobTypes
<1>1. /\ queue \in [Sockets -> Seq(Jobs)] /\ queue[b] \in Seq(Jobs)
      /\ Len(order) \in Nat
  BY DEF QInv, JobTypes
<1>2. /\ queue'[b] = queue[b] \o order
      /\ \A t \in Sockets \ {b} : queue'[t] = queue[t]
  BY <1>a, <1>1
<1>3. /\ Len(queue'[b]) = n + Len(order)
      /\ \A i \in 1..n : queue'[b][i] = queue[b][i]
      /\ \A i \in 1..Len(order) : queue'[b][n + i] = order[i]
  <2>1. /\ Len(queue[b] \o order) = Len(queue[b]) + Len(order)
        /\ \A i \in 1..Len(queue[b]) + Len(order) :
              (queue[b] \o order)[i] = IF i <= Len(queue[b]) THEN queue[b][i] ELSE order[i - Len(queue[b])]
    BY <1>1, ConcatProperties
  <2>2. \A i \in 1..Len(order) : n + i \in 1..n + Len(order) /\ ~(n + i <= n) /\ (n + i) - n = i
    BY <1>1
  <2>3. \A i \in 1..n : i \in 1..n + Len(order) /\ i <= n
    BY <1>1
  <2>4. /\ Len(queue'[b]) = n + Len(order)
        /\ \A i \in 1..n + Len(order) :
              queue'[b][i] = IF i <= n THEN queue[b][i] ELSE order[i - n]
    BY <1>b, <1>2, <2>1, ZenonT(40)
  <2>5. ASSUME NEW i \in 1..Len(order)
        PROVE  queue'[b][n + i] = order[i]
    <3>1. queue'[b][n + i] = order[(n + i) - n]
      BY <2>2, <2>4
    <3>2. QED
      BY <2>2, <3>1
  <2>6. QED
    BY <2>3, <2>4, <2>5
<1>4. /\ \A t \in Sockets \ {b}, i \in Nat, j \in Jobs : Sent(t, i, j)' => Sent(t, i, j)
      /\ \A i \in Nat, j \in Jobs : Sent(b, i, j)' =>
            \/ Sent(b, i, j)
            \/ \E k \in 1..Len(order) : order[k] = j /\ i = n + k
  <2>1. ASSUME NEW i \in Nat, NEW j \in Jobs, Sent(b, i, j)', i > n
        PROVE  \E k \in 1..Len(order) : order[k] = j /\ i = n + k
    <3>1. i - n \in 1..Len(order) /\ i = n + (i - n)
      BY <1>1, <1>3, <2>1 DEF Sent
    <3>2. order[i - n] = j
      BY <1>3, <2>1, <3>1 DEF Sent
    <3>3. QED
      BY <3>1, <3>2
  <2>2. ASSUME NEW i \in Nat, NEW j \in Jobs, Sent(b, i, j)', ~(i > n)
        PROVE  Sent(b, i, j)
    BY <1>b, <1>1, <1>3, <2>2 DEF Sent
  <2>3. QED
    BY <1>2, <2>1, <2>2 DEF Sent
<1>5. QueuesOK'
  <2>1. \A t \in Sockets : ~Running(t)' => queue'[t] = <<>>
    BY <1>0, <1>2 DEF QInv, QueuesOK, Running
  <2>2. \A t \in Sockets, j \in Jobs, i \in Nat : Sent(t, i, j)' => owner'[t] \in Eligible[j]
    BY <1>0, <1>4 DEF QInv, QueuesOK
  <2>3. QED
    BY <2>1, <2>2 DEF QueuesOK
<1>6. ASSUME NEW j \in Jobs \ redo'
      PROVE  JobOK(j)'
  <2>1. JobOK(j)
    BY <1>6 DEF QInv
  <2>2. CASE Pushed(j)
    <3>1. \A k \in 1..Len(order) : order[k] # j
      BY <1>6, <2>2
    <3>2. \A t \in Sockets, i \in Nat : Sent(t, i, j)' => Sent(t, i, j)
      BY <1>4, <3>1
    <3>3. lease'[j] # None /\ job'[j] # "absent"
      BY <1>6, <2>1, <2>2 DEF JobOK
    <3>4. QED
      BY <2>1, <3>2, <3>3 DEF JobOK
  <2>3. CASE ~Pushed(j)
    <3>1. \A t \in Sockets, i \in Nat : Sent(t, i, j)' =>
              t = b /\ \E k \in 1..Len(order) : order[k] = j /\ i = n + k
      BY <1>4, <2>3 DEF Pushed
    <3>2. \A f \in Engines : j \notin got'[f]
      BY <2>3 DEF Pushed
    <3>3. Pushed(j)' => lease'[j] # None /\ job'[j] # "absent"
      BY <1>0, <3>1, <3>2 DEF Pushed
    <3>4. \A s, t \in Sockets, i, k \in Nat : (Sent(s, i, j) /\ Sent(t, k, j))' => s = t /\ i = k
      BY <3>1
    <3>5. QED
      BY <3>2, <3>3, <3>4 DEF JobOK
  <2>4. QED
    BY <2>2, <2>3
<1>7. QED
  BY <1>5, <1>6 DEF QInv

LEMMA QInvOffer ==
    ASSUME QInv, PInv, NEW j \in Jobs, OfferJob(j)
    PROVE  QInv'
<1>0. /\ queue \in [Sockets -> Seq(Jobs)] /\ job \in [Jobs -> {"absent", "live", "ended"}]
      /\ lease \in [Jobs -> Engines \cup {None}]
  BY DEF QInv, JobTypes
<1>1. CASE UNCHANGED <<queue, lease, late, redo>>
  <2>1. job' = [job EXCEPT ![j] = "live"] /\ UNCHANGED <<handler, owner, peer, got, redo, queue, lease, late>>
    BY <1>1 DEF OfferJob, sockets
  <2>2. JobTypes'
    BY <2>1 DEF QInv, JobTypes
  <2>3. \A x \in Jobs : job'[x] = job[x] \/ job'[x] # "absent"
    BY <1>0, <2>1
  <2>4. \A s \in Sockets : ~Running(s)' => queue'[s] = <<>>
    BY <2>1 DEF QInv, QueuesOK, Running
  <2>5. QED
    BY <2>1, <2>2, <2>3, <2>4, PushesStay DEF Sent
<1>2. ASSUME NEW e \in Eligible[j] \cap sessions,
             lease' = [swept EXCEPT ![j] = e],
             queue' = [queue EXCEPT ![outbound[e]] = Append(@, j)],
             Sweep
      PROVE  QInv'
  <2>1. /\ job[j] = "absent" /\ job' = [job EXCEPT ![j] = "live"]
        /\ UNCHANGED <<sessions, outbound, handler, owner, peer, got>>
    BY DEF OfferJob, sockets
  <2>2. e \in Engines /\ outbound[e] \in Sockets
    BY <1>2 DEF PInv, PushHasReader, SocketTypes
  <2>3. PICK order \in Seq(Jobs) : order = <<j>>
    <3>1. <<j>> \in Seq(Jobs)
      OBVIOUS
    <3>2. QED
      BY <3>1
  <2>3a. Len(order) = 1 /\ order[1] = j
    BY <2>3
  <2>3b. queue' = [queue EXCEPT ![outbound[e]] = @ \o order]
    <3>1. Append(queue[outbound[e]], j) = queue[outbound[e]] \o order
      <4>1. queue[outbound[e]] \in Seq(Jobs)
        BY <1>0, <2>2
      <4>2. QED
        BY <2>3, <4>1, AppendIsConcat
    <3>2. QED
      BY <1>2, <3>1
  <2>4. JobTypes'
    <3>1. queue' \in [Sockets -> Seq(Jobs)]
      BY <1>0, <1>2, <2>2
    <3>2. lease' \in [Jobs -> Engines \cup {None}]
      BY <1>0, <1>2, <2>2 DEF swept
    <3>3. QED
      BY <1>2, <2>1, <3>1, <3>2 DEF QInv, JobTypes, Sweep
  <2>5. j \in redo \/ ~Pushed(j)
    BY <2>1 DEF QInv, JobOK
  <2>6. \A x \in Jobs \ redo' : Pushed(x) => lease'[x] = lease[x] /\ job'[x] = job[x]
    BY <1>0, <1>2, <2>1, <2>5 DEF Sweep, swept
  <2>7. lease'[j] = e /\ job'[j] # "absent" /\ redo \subseteq redo' /\ (j \in redo' \/ ~Pushed(j))
    BY <1>0, <1>2, <2>1, <2>5 DEF Sweep, swept
  <2>8. \A i \in 1..Len(order) : order[i] = j /\ i = 1
    BY <2>3a
  <2>9. \A i, k \in 1..Len(order) : order[i] = order[k] => i = k
    BY <2>8
  <2>10. \A i \in 1..Len(order) : /\ e \in Eligible[order[i]]
                                  /\ order[i] \in redo' \/ ~Pushed(order[i])
                                  /\ lease'[order[i]] = e /\ job'[order[i]] # "absent"
    BY <1>2, <2>7, <2>8
  <2>11. e \in sessions /\ redo \subseteq redo' /\ UNCHANGED <<handler, owner, got>>
    BY <1>2, <2>1, <2>7
  <2>12. QED
    BY <2>3b, <2>4, <2>6, <2>9, <2>10, <2>11, PushesEnter
<1>3. QED
  BY <1>1, <1>2 DEF OfferJob

LEMMA QInvHello ==
    ASSUME QInv, PInv, NEW s \in Sockets, Hello(s)
    PROVE  QInv'
<1>0. /\ queue \in [Sockets -> Seq(Jobs)] /\ job \in [Jobs -> {"absent", "live", "ended"}]
      /\ lease \in [Jobs -> Engines \cup {None}]
  BY DEF QInv, JobTypes
<1>1. PICK e \in sessions : e = owner[s]
  BY DEF Hello
<1>2. PICK D \in SUBSET Jobs : D = Drainable(e)
  BY DEF Drainable
<1>3. PICK order \in SetToSeqs(D) : queue' = [queue EXCEPT ![outbound[e]] = @ \o order]
  BY <1>1, <1>2 DEF Hello
<1>4. /\ lease' = [j \in Jobs |-> IF j \in D THEN e ELSE swept[j]]
      /\ Sweep
      /\ UNCHANGED <<sessions, outbound, handler, owner, peer, job, got>>
  BY <1>1, <1>2 DEF Hello, sockets
<1>5. e \in Engines /\ outbound[e] \in Sockets
  BY DEF PInv, PushHasReader, SocketTypes
<1>6. /\ order \in Seq(Jobs) /\ \A i \in 1..Len(order) : order[i] \in D
      /\ \A i, k \in 1..Len(order) : order[i] = order[k] => i = k
  <2>1. PICK n \in Nat : n = Cardinality(D)
    BY DoctorNames, FS_Subset, FS_CardinalityType
  <2>2. order \in [1..n -> D] /\ \A i, k \in 1..n : i # k => order[i] # order[k]
    BY <2>1 DEF SetToSeqs
  <2>3. order \in Seq(Jobs) /\ Len(order) = n
    BY <2>1, <2>2
  <2>4. QED
    BY <2>2, <2>3
<1>7. JobTypes'
  <2>1. queue' \in [Sockets -> Seq(Jobs)]
    BY <1>0, <1>3, <1>5, <1>6
  <2>2. lease' \in [Jobs -> Engines \cup {None}]
    BY <1>0, <1>4, <1>5 DEF swept
  <2>3. QED
    BY <1>4, <2>1, <2>2 DEF QInv, JobTypes, Sweep
<1>8. \A j \in D : /\ e \in Eligible[j] /\ lease'[j] = e /\ job'[j] # "absent"
                   /\ j \in redo' \/ ~Pushed(j)
  BY <1>0, <1>2, <1>4 DEF Drainable, Sweep, swept, QInv, JobOK
<1>9. \A j \in Jobs \ redo' : Pushed(j) => lease'[j] = lease[j] /\ job'[j] = job[j]
  BY <1>0, <1>4, <1>8 DEF Sweep, swept
<1>10. redo \subseteq redo' /\ UNCHANGED <<handler, owner, got>>
  BY <1>4 DEF Sweep
<1>11. QED
  BY <1>3, <1>6, <1>7, <1>8, <1>9, <1>10, PushesEnter

LEMMA QInvNext == PInv /\ QInv /\ [Next]_vars => QInv'
<1> SUFFICES ASSUME PInv, QInv, [Next]_vars
             PROVE  QInv'
  OBVIOUS
<1>0. /\ queue \in [Sockets -> Seq(Jobs)] /\ job \in [Jobs -> {"absent", "live", "ended"}]
      /\ lease \in [Jobs -> Engines \cup {None}] /\ got \in [Engines -> SUBSET Jobs]
      /\ handler \in [Sockets -> {"unused", "welcome", "loop", "done"}]
      /\ owner \in [Sockets -> Engines \cup {None}] /\ peer \in [Sockets -> BOOLEAN]
      /\ late \subseteq Jobs /\ redo \subseteq Jobs
      /\ \A s \in Sockets : ~Running(s) => queue[s] = <<>>
  BY DEF QInv, QueuesOK, JobTypes, PInv, SocketTypes
<1>1. ASSUME NEW s \in Sockets, NEW e \in Engines, Accept(s, e)
      PROVE  QInv'
  <2>1. /\ UNCHANGED <<queue, job, lease, late, redo, got>> /\ queue[s] = <<>>
        /\ \A t \in Sockets : t # s => owner'[t] = owner[t] /\ handler'[t] = handler[t]
    BY <1>0, <1>1 DEF Accept, jobs, Running
  <2>2. peer' \in [Sockets -> BOOLEAN]
    BY <1>0, <1>1 DEF Accept
  <2>3. JobTypes'
    BY <1>0, <2>1, <2>2 DEF JobTypes
  <2>4. \A t \in Sockets : ~Running(t)' => queue'[t] = <<>>
    BY <1>0, <2>1 DEF Running
  <2>5. QED
    BY <2>1, <2>3, <2>4, PushesStay DEF Sent
<1>2. ASSUME NEW s \in Sockets, Welcome(s) \/ PeerGone(s)
      PROVE  QInv'
  <2>1. /\ UNCHANGED <<queue, job, lease, late, redo, got, owner>>
        /\ peer' \in [Sockets -> BOOLEAN]
        /\ \A t \in Sockets : Running(t) => Running(t)'
    BY <1>0, <1>2 DEF Welcome, PeerGone, jobs, Running
  <2>2. JobTypes'
    BY <1>0, <2>1 DEF JobTypes
  <2>3. QED
    BY <1>0, <2>1, <2>2, PushesStay DEF Sent
<1>3. ASSUME NEW s \in Sockets, Finish(s)
      PROVE  QInv'
  <2>1. /\ UNCHANGED <<job, lease, late, redo, got, owner, peer>>
        /\ queue' = [queue EXCEPT ![s] = <<>>]
        /\ \A t \in Sockets : t # s => handler'[t] = handler[t]
    BY <1>0, <1>3 DEF Finish, jobs
  <2>2. queue' \in [Sockets -> Seq(Jobs)] /\ queue'[s] = <<>> /\ Len(<<>>) = 0
    BY <1>0, <2>1
  <2>3. JobTypes'
    BY <1>0, <2>1, <2>2 DEF JobTypes
  <2>4. \A t \in Sockets, i \in Nat, j \in Jobs : Sent(t, i, j)' => Sent(t, i, j)
    BY <1>0, <2>1, <2>2 DEF Sent
  <2>5. \A t \in Sockets : ~Running(t)' => queue'[t] = <<>>
    BY <1>0, <2>1, <2>2 DEF Running
  <2>6. QED
    BY <2>1, <2>3, <2>4, <2>5, PushesStay
<1>4. CASE \/ \E s \in Sockets, j \in Jobs : Complete(s, j)
           \/ \E j \in Jobs : LeaseRunsOut(j)
           \/ OtherPoll
           \/ \E e \in Engines, j \in Jobs : ForgetJob(e, j)
           \/ UNCHANGED vars
  <2> DEFINE Kept == /\ UNCHANGED <<queue, owner, handler, peer>>
                     /\ job' \in [Jobs -> {"absent", "live", "ended"}]
                     /\ \A j \in Jobs : job'[j] = job[j] \/ job'[j] # "absent"
  <2>1. Kept
    <3>1. ASSUME NEW s \in Sockets, NEW j \in Jobs, Complete(s, j)
          PROVE  Kept
      BY <1>0, <3>1 DEF Complete, sockets
    <3>2. ASSUME NEW j \in Jobs, LeaseRunsOut(j)
          PROVE  Kept
      BY <1>0, <3>2 DEF LeaseRunsOut, sockets
    <3>3. CASE OtherPoll \/ (\E e \in Engines, j \in Jobs : ForgetJob(e, j)) \/ UNCHANGED vars
      BY <1>0, <3>3 DEF OtherPoll, ForgetJob, vars, sockets, jobs
    <3>4. QED
      BY <1>4, <3>1, <3>2, <3>3
  <2>2. got' \in [Engines -> SUBSET Jobs] /\ \A e \in Engines : got'[e] \subseteq got[e]
    <3>1. \/ UNCHANGED got
          \/ \E e, j : got' = [got EXCEPT ![e] = @ \ {j}]
      BY <1>4 DEF Complete, LeaseRunsOut, OtherPoll, ForgetJob, vars
    <3>2. QED
      BY <1>0, <3>1
  <2>3. /\ redo \subseteq redo' /\ redo' \subseteq Jobs /\ late' \subseteq Jobs
        /\ lease' \in [Jobs -> Engines \cup {None}]
        /\ \A j \in Jobs \ redo' : lease'[j] = lease[j]
    BY <1>0, <1>4 DEF Complete, LeaseRunsOut, OtherPoll, ForgetJob, vars, jobs, Sweep, swept
  <2>4. JobTypes'
    BY <1>0, <2>1, <2>2, <2>3 DEF JobTypes
  <2>5. \A t \in Sockets : ~Running(t)' => queue'[t] = <<>>
    BY <1>0, <2>1 DEF Running
  <2>6. QED
    BY <2>1, <2>2, <2>3, <2>4, <2>5, PushesStay DEF Sent
<1>5. QED
  BY <1>1, <1>2, <1>3, <1>4, PushArrives, QInvOffer, QInvHello DEF Next

LEMMA DoctorInv == Spec => [](PInv /\ QInv)
<1>1. PInv /\ QInv /\ [Next]_vars => (PInv /\ QInv)'
  BY PInvNext, QInvNext
<1>2. QED
  BY <1>1, PInvInit, QInvInit, PTL DEF Spec

\* At most one place in a queue or one Doctor has the job.
LEMMA OnePlace ==
    ASSUME QInv, NEW j \in Jobs \ redo
    PROVE  LET places(s) == {i \in 1..Len(queue[s]) : queue[s][i] = j}
               pushes    == UNION {{s} \X places(s) : s \in Sockets}
               holders   == {e \in Engines : j \in got[e]}
           IN  Cardinality(pushes) + Cardinality(holders) <= 1
<1> DEFINE places(s) == {i \in 1..Len(queue[s]) : queue[s][i] = j}
           pushes    == UNION {{s} \X places(s) : s \in Sockets}
           holders   == {e \in Engines : j \in got[e]}
<1>1. JobOK(j)
  BY DEF QInv
<1>2. \A s \in Sockets : Len(queue[s]) \in Nat
  BY DEF QInv, JobTypes
<1>3. \A p \in pushes : \E s \in Sockets, i \in Nat : p = <<s, i>> /\ Sent(s, i, j)
  BY <1>2 DEF Sent
<1>4. \A p, q \in pushes : p = q
  BY <1>1, <1>3 DEF JobOK
<1>5. \A e, f \in holders : e = f
  BY <1>1 DEF JobOK
<1>6. pushes = {} \/ holders = {}
  BY <1>1, <1>3 DEF JobOK
<1>7. Cardinality(pushes) = 0 \/ (Cardinality(pushes) = 1 /\ pushes # {})
  <2>1. CASE pushes = {}
    BY <2>1, FS_EmptySet
  <2>2. CASE pushes # {}
    <3>1. PICK p \in pushes : pushes = {p}
      BY <1>4, <2>2
    <3>2. Cardinality({p}) = 1
      BY FS_Singleton
    <3>3. QED
      BY <3>1, <3>2
  <2>3. QED
    BY <2>1, <2>2
<1>8. Cardinality(holders) = 0 \/ (Cardinality(holders) = 1 /\ holders # {})
  <2>1. CASE holders = {}
    BY <2>1, FS_EmptySet
  <2>2. CASE holders # {}
    <3>1. PICK e \in holders : holders = {e}
      BY <1>5, <2>2
    <3>2. Cardinality({e}) = 1
      BY FS_Singleton
    <3>3. QED
      BY <3>1, <3>2
  <2>3. QED
    BY <2>1, <2>2
<1> HIDE DEF places, pushes, holders
<1>9. Cardinality(pushes) + Cardinality(holders) <= 1
  BY <1>6, <1>7, <1>8
<1>10. QED
  BY <1>9 DEF pushes, holders, places

LEMMA QueuesAreEligible ==
    ASSUME QInv, NEW s \in Sockets, NEW j \in Range(queue[s])
    PROVE  owner[s] \in Eligible[j]
<1>1. queue[s] \in Seq(Jobs)
  BY DEF QInv, JobTypes
<1>2. PICK i \in 1..Len(queue[s]) : queue[s][i] = j
  BY <1>1 DEF Range
<1>3. j \in Jobs /\ i \in Nat
  BY <1>1, <1>2
<1>4. QED
  BY <1>2, <1>3 DEF QInv, QueuesOK, Sent

-----------------------------------------------------------------------------
(* The theorems.                                                           *)

\* Sessions, queues, handlers and jobs keep their shape, for any engines and sockets.
THEOREM TypeCorrect == Spec => []TypeOK
<1>1. PInv /\ QInv => TypeOK
  BY DEF PInv, QInv, SocketTypes, JobTypes, TypeOK
<1>2. QED
  BY <1>1, DoctorInv, PTL

\* A job leased for a push always has a handler that will try to send it,
\* whatever sockets of the engine come and go.
THEOREM PushesHaveReaders == Spec => []PushHasReader
<1>1. PInv => PushHasReader
  BY DEF PInv
<1>2. QED
  BY <1>1, PInvInit, PInvNext, PTL DEF Spec

\* A job is pushed once, to an engine it names, unless its lease was taken back:
\* whatever reconnects, hellos and offers come in between.
THEOREM PushesAreSingle == Spec => []PushedOnce
<1>1. QInv => PushedOnce
  BY OnePlace, QueuesAreEligible DEF PushedOnce
<1>2. QED
  BY <1>1, DoctorInv, PTL
=============================================================================
