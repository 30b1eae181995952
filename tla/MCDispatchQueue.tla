--------------------------- MODULE MCDispatchQueue ---------------------------
(* Instances of DispatchQueue: two engines of one team, one hosted agent.  *)
EXTENDS DispatchQueue, TLC

CONSTANTS e1, e2, a1, t1, t2   \* model values

\* Both engines in one team.
MCOneTeam == [e \in Engines |-> t1]

\* EVOTOWN_DISPATCH_TEAM_PAIRS=t1:t1
MCTeamPairs == {<<t1, t1>>}

ToEngine(e) == [Nobody EXCEPT !.engine = e]
ToTeam(t) == [Nobody EXCEPT !.team = t]
ToAgent(a) == [Nobody EXCEPT !.agent = a]

MCSingle == {[to |-> ToEngine(e1), next |-> Nobody]}

\* A job for one engine, whose follow-up either engine may take, and a job for a
\* hosted agent: every kind of target is there.
MCTargets ==
    {[to |-> ToEngine(e1), next |-> ToTeam(t1)],
     [to |-> ToAgent(a1), next |-> Nobody]}
=============================================================================
