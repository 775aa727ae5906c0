------------------------------ MODULE EntryMap ------------------------------
(***************************************************************************)
(* What the sparse state map promises: one state per block, and each       *)
(* operation takes effect on it at one instant between its call and its    *)
(* return (src/glidefs/src/block/block_map.rs, the public methods of       *)
(* SparseStateMap).                                                        *)
(***************************************************************************)
EXTENDS Naturals

CONSTANTS
    Callers,       \* the threads that use the map
    Entries        \* the blocks

VARIABLES
    state,         \* block -> its state
    call,          \* thread -> the operation it is in, and on which block
    answer         \* thread -> the state its operation found, Pending before

emVars == <<state, call, answer>>

\* SparseBlockState
NOT_PRESENT == 0
CLEAN == 1
DIRTY == 2
SYNCING == 3

BlockStates == {NOT_PRESENT, CLEAN, DIRTY, SYNCING}

Pending == 4

Operations == {"get", "claim", "dirty", "sync", "evict"}

NoCall == <<"none", 0>>

\* the state an operation leaves, given the one it finds
Outcome(op, old) ==
    CASE op = "claim" /\ old = NOT_PRESENT -> CLEAN
      [] op = "dirty" -> DIRTY
      [] op = "sync" /\ old = DIRTY -> SYNCING
      [] op = "evict" /\ old = SYNCING -> NOT_PRESENT
      [] OTHER -> old

EMInit ==
    /\ state = [e \in Entries |-> NOT_PRESENT]
    /\ call = [t \in Callers |-> NoCall]
    /\ answer = [t \in Callers |-> Pending]

Called(t, op, e) ==
    /\ call[t] = NoCall
    /\ call' = [call EXCEPT ![t] = <<op, e>>]
    /\ UNCHANGED <<state, answer>>

Applied(t, op, e) ==
    /\ call[t] = <<op, e>>
    /\ answer[t] = Pending
    /\ state' = [state EXCEPT ![e] = Outcome(op, state[e])]
    /\ answer' = [answer EXCEPT ![t] = state[e]]
    /\ UNCHANGED call

Returned(t) ==
    /\ answer[t] # Pending
    /\ call' = [call EXCEPT ![t] = NoCall]
    /\ answer' = [answer EXCEPT ![t] = Pending]
    /\ UNCHANGED state

EMNext ==
    \E t \in Callers :
        \/ \E op \in Operations, e \in Entries : Called(t, op, e)
        \/ \E op \in Operations, e \in Entries : Applied(t, op, e)
        \/ Returned(t)

EMSpec == EMInit /\ [][EMNext]_emVars
=============================================================================
