------------------------------- MODULE TaskSupply -------------------------------
(***************************************************************************)
(* Where the tasks of the arena come from (task_dispatcher.py): a pool that  *)
(* starts with written tasks and is refilled by a language model, by the     *)
(* dispatcher's loop when it runs low or when nobody has taken a task for    *)
(* long, and by request.  While a model is asked everything else goes on.    *)
(* What happens to a task on the board is in ArenaTasks.                     *)
(***************************************************************************)
EXTENDS Integers, Sequences, FiniteSets, SequencesExt

CONSTANTS
    Seeds, Easy,    \* texts of SEED_TASKS; those that are easy
    Invented,       \* texts the model may think of
    Alike,          \* pairs of texts that pass for the same
    MinPool, MaxAvailable, Batch, \* _min_pool_size, MAX_AVAILABLE_TASKS, seeds at a time
    NoOffer

VARIABLES
    pile,       \* how often each text is in the pool
    posted,    \* how often each is on the board
    used,       \* seeds that were taken again
    recovering, \* _stuck_recovery_mode
    past,       \* texts in the history of tasks
    turn,       \* where the dispatcher's loop is, the text it offers
    request     \* what the model was told for a request, if one asks it

supplyVars == <<pile, posted, used, recovering, past, turn, request>>

TaskTexts == Seeds \cup Invented

SupplyTypeOK ==
    /\ pile \in [TaskTexts -> Nat] /\ posted \in [TaskTexts -> Nat]
    /\ FoldFunction(+, 0, posted) <= MaxAvailable
    /\ used \subseteq Seeds /\ recovering \in BOOLEAN /\ past \subseteq TaskTexts
    /\ turn \in [at : {"idle", "refilling", "serving", "offering", "recovering"},
                 text : TaskTexts \cup {NoOffer}]
    /\ request \in {NoOffer} \cup SUBSET TaskTexts

TurnAt(where) == [at |-> where, text |-> NoOffer]

Resting == TurnAt("idle")

SupplyInit ==
    /\ pile = [t \in TaskTexts |-> IF t \in Seeds THEN 1 ELSE 0]
    /\ posted = [t \in TaskTexts |-> 0]
    /\ used = {} /\ recovering = FALSE /\ past = {}
    /\ turn = Resting
    /\ request = NoOffer

Size(bag) == FoldFunction(+, 0, bag)

In(bag) == {t \in DOMAIN bag : bag[t] > 0}

Plus(bag, ts) == [t \in TaskTexts |-> bag[t] + Cardinality({i \in DOMAIN ts : ts[i] = t})]

-----------------------------------------------------------------------------
(* Refilling.                                                              *)

\* What the model is told to avoid.
KnownTexts == In(pile) \cup In(posted) \cup past

Similar(t, u) == t = u \/ {t, u} \in Alike

\* mutant: what was known when the model was asked is all that is looked at
KnownBefore(hint) == hint

KnownThen(hint) == KnownTexts

\* One after the other: not like anything known, nor like one taken before.
TakenAlso(known, took, t) ==
    IF \E u \in known \cup ToSet(took) : Similar(t, u) THEN took ELSE Append(took, t)

Filtered(new, hint) ==
    LET took[i \in 0 .. Len(new)] ==
            IF i = 0 THEN <<>> ELSE TakenAlso(KnownThen(hint), took[i - 1], new[i])
    IN took[Len(new)]

\* Up to two answers at a time; none is an error or an answer that cannot be read.
ModelAnswers == UNION {[1 .. n -> Invented] : n \in 0 .. 2}

\* Seeds that were not taken yet, easy ones in a recovery; they are not compared.
SeedFallback(chosen) ==
    LET unused == Seeds \ used
        left == IF unused = {} THEN Seeds ELSE unused
        from == IF recovering /\ left \cap Easy # {} THEN left \cap Easy ELSE left
    IN /\ chosen \subseteq from
       /\ Cardinality(chosen) = IF Cardinality(from) < Batch THEN Cardinality(from) ELSE Batch
       /\ used' = chosen \cup (IF unused = {} THEN {} ELSE used)
       /\ pile' = [t \in TaskTexts |-> pile[t] + IF t \in chosen THEN 1 ELSE 0]

Refilled(new) ==
    /\ IF Filtered(new, KnownTexts) # <<>>
       THEN pile' = Plus(pile, Filtered(new, KnownTexts)) /\ UNCHANGED used
       ELSE \E chosen \in SUBSET Seeds : SeedFallback(chosen)
    /\ recovering' = FALSE

\* A request that finds nothing new leaves the pool.
AskByHand ==
    /\ request = NoOffer
    /\ request' = KnownTexts
    /\ UNCHANGED <<pile, posted, used, recovering, past, turn>>

GenerateTasks(new) ==
    /\ request # NoOffer
    /\ pile' = Plus(pile, Filtered(new, request))
    /\ request' = NoOffer
    /\ UNCHANGED <<posted, used, recovering, past, turn>>

-----------------------------------------------------------------------------
(* The dispatcher's loop.                                                  *)

Tick ==
    /\ turn = Resting
    /\ turn' = TurnAt(IF Size(pile) < MinPool THEN "refilling" ELSE "serving")
    /\ UNCHANGED <<pile, posted, used, recovering, past, request>>

RefillPool(new) ==
    /\ turn.at = "refilling"
    /\ Refilled(new)
    /\ turn' = TurnAt("serving")
    /\ UNCHANGED <<posted, past, request>>

\* Tasks that lay on the board for an hour go; a text of the pool takes a free place.
PickTaskForBoard ==
    /\ turn.at = "serving"
    /\ \E left \in [In(posted) -> 0 .. MaxAvailable], someIdle \in BOOLEAN :
          LET kept == [t \in TaskTexts |-> IF t \in In(posted) THEN left[t] ELSE 0] IN
          /\ \A t \in TaskTexts : kept[t] <= posted[t]
          /\ IF Size(kept) < MaxAvailable /\ someIdle /\ In(pile) # {}
             THEN \E t \in In(pile) :
                     /\ pile' = [pile EXCEPT ![t] = @ - 1]
                     /\ posted' = [kept EXCEPT ![t] = @ + 1]
                     /\ turn' = [at |-> "offering", text |-> t]
             ELSE posted' = kept /\ turn' = Resting /\ UNCHANGED pile
    /\ UNCHANGED <<used, recovering, past, request>>

\* An agent took it: the history has it before the board loses it.
Taken ==
    /\ turn.at = "offering"
    /\ past' = past \cup {turn.text}
    /\ posted' = [posted EXCEPT ![turn.text] = @ - 1]
    /\ turn' = Resting
    /\ UNCHANGED <<pile, used, recovering, request>>

\* Nobody did: it stays on the board, and is not offered again.
NotTaken ==
    /\ turn.at = "offering"
    /\ turn' = Resting
    /\ UNCHANGED <<pile, posted, used, recovering, past, request>>

\* Nobody has for long: the pool is emptied, and filled with easy tasks.
TriggerStuckRecovery ==
    /\ turn.at = "offering"
    /\ pile' = [t \in TaskTexts |-> 0]
    /\ recovering' = TRUE
    /\ turn' = TurnAt("recovering")
    /\ UNCHANGED <<posted, used, past, request>>

Recover(new) ==
    /\ turn.at = "recovering"
    /\ Refilled(new)
    /\ turn' = Resting
    /\ UNCHANGED <<posted, past, request>>

SupplyNext ==
    \/ AskByHand \/ Tick \/ PickTaskForBoard \/ Taken \/ NotTaken \/ TriggerStuckRecovery
    \/ \E new \in ModelAnswers : GenerateTasks(new) \/ RefillPool(new) \/ Recover(new)

-----------------------------------------------------------------------------
SupplySpec == SupplyInit /\ [][SupplyNext]_supplyVars

(* However the answers of the model cross, no invented task and none like it *)
(* is on offer twice, and the recovery ends with the refill it began        *)
(* (task_dispatcher.py:541-660).                                            *)
OfferedOnce ==
    /\ \A t \in Invented \ Seeds : pile[t] + posted[t] <= 1
    /\ \A t, u \in Invented \ Seeds :
          t # u /\ Similar(t, u) => pile[t] + posted[t] = 0 \/ pile[u] + posted[u] = 0
    /\ recovering <=> turn.at = "recovering"
===============================================================================
