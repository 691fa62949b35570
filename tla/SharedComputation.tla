------------------------- MODULE SharedComputation -------------------------
(***************************************************************************)
(* SharedComputationRegistry in front of the compute pool: equal requests  *)
(* share one computation, each can leave it alone, and the last to leave   *)
(* aborts it.  A computation that was aborted still counts until its       *)
(* promise settles, which the scheduler and the socket decide.             *)
(*                                                                         *)
(* A computation is the call with a signal that its factory makes; calls   *)
(* without a signal come from the rest of the program.  Next and Spec are  *)
(* those of registry, client and server together.                          *)
(*                                                                         *)
(* Definitions with a word after "_" are wrong on purpose, as in RunStore. *)
(***************************************************************************)
EXTENDS ComputePool

CONSTANTS
    Keys,          \* what makes requests equal
    Callers,
    MaximumEntries \* maximumEntries

ASSUME SharedComputationAssumption == MaximumEntries \in Nat \ {0}

VARIABLES
    entry,       \* entries
    phase,       \* a computation: absent, in its factory, in the pool
    subscribers, \* subscribers of each computation
    aborted      \* whether its controller is aborted

registryVars == <<entry, phase, subscribers, aborted>>
allVars == <<vars, poolVars, registryVars>>

RegistryTypeOK ==
    /\ entry \in [Keys -> Signalled \cup {NoOp}]
    /\ phase \in [Signalled -> {"absent", "preparing", "scheduled"}]
    /\ subscribers \in [Signalled -> SUBSET Callers]
    /\ aborted \in [Signalled -> BOOLEAN]

Unsettled == {o \in Signalled : phase[o] # "absent"} \* activeComputations counts them

Subscribed == UNION {subscribers[o] : o \in Signalled}

RegistryInit ==
    /\ entry = [k \in Keys |-> NoOp]
    /\ phase = [o \in Signalled |-> "absent"]
    /\ subscribers = [o \in Signalled |-> {}]
    /\ aborted = [o \in Signalled |-> FALSE]

-----------------------------------------------------------------------------
Run_NotCounted(c, k) ==
    /\ c \notin Subscribed
    /\ \/ /\ entry[k] # NoOp
          /\ subscribers' = [subscribers EXCEPT ![entry[k]] = @ \cup {c}]
          /\ UNCHANGED <<entry, phase, aborted>>
       \/ /\ entry[k] = NoOp
          /\ \E o \in Signalled :
               /\ phase[o] = "absent"
               /\ entry' = [entry EXCEPT ![k] = o]
               /\ phase' = [phase EXCEPT ![o] = "preparing"]
               /\ subscribers' = [subscribers EXCEPT ![o] = {c}]
               /\ aborted' = [aborted EXCEPT ![o] = FALSE]
    /\ UNCHANGED <<vars, poolVars>>

(* run: the caller joins the entry of the key, or makes one *)
Run(c, k) ==
    /\ c \notin Subscribed
    /\ \/ /\ entry[k] # NoOp
          /\ subscribers' = [subscribers EXCEPT ![entry[k]] = @ \cup {c}]
          /\ UNCHANGED <<entry, phase, aborted>>
       \/ /\ entry[k] = NoOp
          /\ Cardinality(Unsettled) < MaximumEntries
          /\ \E o \in Signalled :
               /\ phase[o] = "absent"
               /\ entry' = [entry EXCEPT ![k] = o]
               /\ phase' = [phase EXCEPT ![o] = "preparing"]
               /\ subscribers' = [subscribers EXCEPT ![o] = {c}]
               /\ aborted' = [aborted EXCEPT ![o] = FALSE]
    /\ UNCHANGED <<vars, poolVars>>

Forgotten(o) == [k \in Keys |-> IF entry[k] = o THEN NoOp ELSE entry[k]]

Leave_EntryKept(c, o) ==
    /\ c \in subscribers[o]
    /\ subscribers' = [subscribers EXCEPT ![o] = @ \ {c}]
    /\ IF subscribers[o] = {c}
       THEN aborted' = [aborted EXCEPT ![o] = TRUE] /\ Abort(o)
       ELSE UNCHANGED <<vars, poolVars, aborted>>
    /\ UNCHANGED <<entry, phase>>

(* onAbort of a subscriber, and unsubscribe *)
Leave(c, o) ==
    /\ c \in subscribers[o]
    /\ subscribers' = [subscribers EXCEPT ![o] = @ \ {c}]
    /\ IF subscribers[o] = {c}
       THEN /\ entry' = Forgotten(o)
            /\ aborted' = [aborted EXCEPT ![o] = TRUE]
            /\ Abort(o)
       ELSE UNCHANGED <<vars, poolVars, entry, aborted>>
    /\ UNCHANGED phase

(* settle, which runs before the reactions that answer the subscribers *)
Settled(o) ==
    /\ phase' = [phase EXCEPT ![o] = "absent"]
    /\ entry' = Forgotten(o)
    /\ subscribers' = [subscribers EXCEPT ![o] = {}]
    /\ aborted' = [aborted EXCEPT ![o] = FALSE]

(* The factory reaches the pool and its call is queued or started. *)
FactoryCalls(o) ==
    /\ phase[o] = "preparing" /\ ~aborted[o]
    /\ Schedule(o)
    /\ phase' = [phase EXCEPT ![o] = "scheduled"]
    /\ UNCHANGED <<poolVars, entry, subscribers, aborted>>

(* The factory throws: it finds the signal aborted, the scheduler refuses   *)
(* the call, or what it reads before fails.                                 *)
FactoryFails(o) ==
    /\ phase[o] = "preparing"
    /\ Settled(o)
    /\ UNCHANGED <<vars, poolVars>>

(* The promise of the call is settled and with it the entry. *)
ComputationSettles(o) ==
    /\ phase[o] = "scheduled" /\ op[o] = "idle"
    /\ Settled(o)
    /\ UNCHANGED <<vars, poolVars>>

-----------------------------------------------------------------------------
(* The three together *)

(* A call without a signal *)
DirectCall(o) ==
    /\ o \notin Signalled
    /\ Schedule(o)
    /\ UNCHANGED <<poolVars, registryVars>>

QueueTimeout(o) ==
    /\ GiveUp(o)
    /\ UNCHANGED <<poolVars, registryVars>>

CallStep(o) ==
    /\ \/ TakeChannel(o, o \in Signalled /\ aborted[o])
       \/ Send(o) \/ ConnectFails(o) \/ TimeOut(o) \/ Answer(o) \/ CallEnds(o)
    /\ UNCHANGED registryVars

ConnectionStep(s) ==
    /\ ConnectionLost(s) \/ ServerStep(s)
    /\ UNCHANGED registryVars

Shutdown == ClientClose /\ UNCHANGED registryVars

AllInit == Init /\ PoolInit /\ RegistryInit

AllNext ==
    \/ \E c \in Callers :
         \/ \E k \in Keys : Run(c, k)
         \/ \E o \in Signalled : Leave(c, o)
    \/ \E o \in Signalled : FactoryCalls(o) \/ FactoryFails(o) \/ ComputationSettles(o)
    \/ \E o \in Ops : DirectCall(o) \/ QueueTimeout(o) \/ CallStep(o)
    \/ \E s \in Sockets : ConnectionStep(s)
    \/ Shutdown

AllSpec == AllInit /\ [][AllNext]_allVars

-----------------------------------------------------------------------------
(* Properties *)

(* One caller's cancellation never reaches another: a computation that has  *)
(* been aborted has no subscriber, neither one that stayed nor one that     *)
(* joined while it was ending, and no key leads to it.                      *)
CancellationIsPrivate ==
    \A o \in Signalled : aborted[o] =>
        subscribers[o] = {} /\ \A k \in Keys : entry[k] # o

(* The computations that hold their inputs, the aborted ones among them,    *)
(* are never more than the limit.                                           *)
ComputationsBounded == Cardinality(Unsettled) <= MaximumEntries
=============================================================================
