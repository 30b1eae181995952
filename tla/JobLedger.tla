------------------------------ MODULE JobLedger ------------------------------
(***************************************************************************)
(* What the dispatch queue promises, without saying who does the work or   *)
(* how often it is handed out: a ledger in which every job is entered      *)
(* once, is closed once with an outcome that never changes, and whose      *)
(* success enters at most one follow-up, in the same step that closes it.  *)
(***************************************************************************)
EXTENDS Naturals

CONSTANTS MaxJobs

LedgerIds == 1..MaxJobs

Outcomes == {"completed", "failed", "cancelled"}

VARIABLES
    book,   \* book[j]: "absent", "open", or the outcome
    after   \* after[j]: the job whose success entered j, or 0

ledger == <<book, after>>

LedgerInit ==
    /\ book = [j \in LedgerIds |-> "absent"]
    /\ after = [j \in LedgerIds |-> 0]

Enter(k) ==
    /\ book[k] = "absent"
    /\ book' = [book EXCEPT ![k] = "open"]
    /\ UNCHANGED after

Close(j, outcome) ==
    /\ book[j] = "open"
    /\ book' = [book EXCEPT ![j] = outcome]
    /\ UNCHANGED after

CloseAndFollow(j, k) ==
    /\ book[j] = "open"
    /\ after[j] = 0
    /\ book[k] = "absent"
    /\ book' = [book EXCEPT ![j] = "completed", ![k] = "open"]
    /\ after' = [after EXCEPT ![k] = j]

\* Jobs whose executor does not exist any more fail together.
FailAll(S) ==
    /\ \A j \in S : book[j] = "open"
    /\ book' = [j \in LedgerIds |-> IF j \in S THEN "failed" ELSE book[j]]
    /\ UNCHANGED after

LedgerNext ==
    \/ \E k \in LedgerIds : Enter(k)
    \/ \E j \in LedgerIds, outcome \in Outcomes : Close(j, outcome)
    \/ \E j, k \in LedgerIds : CloseAndFollow(j, k)
    \/ \E S \in SUBSET LedgerIds : FailAll(S)

LedgerSpec == LedgerInit /\ [][LedgerNext]_ledger
=============================================================================
