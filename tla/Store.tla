-------------------------------- MODULE Store --------------------------------
(***************************************************************************)
(* What the callers of the storage may rely on.  An object (a user, or the *)
(* list of node policies) is settled when the last call that wrote it has  *)
(* returned and ran alone on it.  A settled object keeps its value,        *)
(* whatever happens to the others and through crashes; of an object that   *)
(* is being written, or whose last call raised, nothing is said.           *)
(***************************************************************************)
CONSTANTS
    Objects,
    Values,
    Tasks,
    NoCall   \* the task writes nothing

VARIABLES
    value,    \* per object: what a read returns
    settled,  \* the objects whose value is fixed
    call      \* per task: the object it writes, the value it will leave, and
              \* whether it has been alone on it so far

storeVars == <<value, settled, call>>

StoreCall == [obj : Objects, target : Values, alone : BOOLEAN]

InUse(o) == \E t \in Tasks : call[t] # NoCall /\ call[t].obj = o

StoreInit ==
    /\ value \in [Objects -> Values]
    /\ settled = Objects
    /\ call = [t \in Tasks |-> NoCall]

\* The settled objects keep their value; the others may have any.
Keep ==
    /\ value' \in [Objects -> Values]
    /\ \A o \in settled : value'[o] = value[o]

StoreBegin(t, o, w) ==
    /\ call[t] = NoCall
    /\ call' = [s \in Tasks |->
          IF s = t
          THEN [obj |-> o, target |-> w, alone |-> ~InUse(o)]
          ELSE IF call[s] # NoCall /\ call[s].obj = o
          THEN [call[s] EXCEPT !.alone = FALSE]
          ELSE call[s]]
    /\ settled' = settled \ {o}
    /\ Keep

StoreReturn(t) ==
    /\ call[t] # NoCall
    /\ call' = [call EXCEPT ![t] = NoCall]
    /\ Keep
    /\ IF call[t].alone
       THEN /\ value'[call[t].obj] = call[t].target
            /\ settled' = settled \cup {call[t].obj}
       ELSE UNCHANGED settled

\* A call raises, or is cancelled.
StoreRaise(t) ==
    /\ call[t] # NoCall
    /\ call' = [call EXCEPT ![t] = NoCall]
    /\ Keep
    /\ UNCHANGED settled

StoreWork == Keep /\ UNCHANGED <<settled, call>>

\* The node is started again: what it reads now stays.
StoreCrash ==
    /\ call' = [t \in Tasks |-> NoCall]
    /\ settled' = Objects
    /\ Keep

StoreNext ==
    \/ StoreWork
    \/ \E t \in Tasks : StoreReturn(t) \/ StoreRaise(t)
    \/ StoreCrash
    \/ \E t \in Tasks, o \in Objects, w \in Values : StoreBegin(t, o, w)

StoreSpec == StoreInit /\ [][StoreNext]_storeVars

=============================================================================
