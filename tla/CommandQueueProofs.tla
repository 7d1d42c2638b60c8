------------------------ MODULE CommandQueueProofs ------------------------
(***************************************************************************)
(* Proofs about the command queue for every number of instances, commands *)
(* and every deadline and housekeeping age.                                *)
(*                                                                         *)
(* ExclusiveClaim and SingleTerminalTransition are not inductive on their *)
(* own: a Commit could complete a row that another instance also holds,   *)
(* or that was already completed, unless we know that a held row is      *)
(* still requested and that only rows still requested are claimable.      *)
(* QueueInv adds exactly that:                                             *)
(*   - an instance holds a row iff it is inside process (pc # "receive"); *)
(*   - a held row is "requested" (housekeeping skips locked rows, and      *)
(*     only the holder commits it);                                        *)
(*   - rows beyond nextSeq are still "absent" (Queue never overwrites);    *)
(*   - a row not yet completed has no commit in its history.               *)
(***************************************************************************)
EXTENDS CommandQueue, TLAPS

(* No two instances hold the same command in their open transactions at  *)
(* once (the SKIP LOCKED claim); a conjunct of QueueInv.                 *)
ExclusiveClaim ==
    \A c, d \in Consumers :
        c # d /\ claimed[c] # NoCmd => claimed[c] # claimed[d]


(* An instance holds a row exactly while it is inside process. *)
HeldIffInside ==
    \A c \in Consumers : (pc[c] = "receive") <=> (claimed[c] = NoCmd)

(* A held row is still requested. *)
HeldIsRequested ==
    \A c \in Consumers : claimed[c] # NoCmd => status[claimed[c]] = "requested"

(* Rows not inserted yet are absent. *)
FreshRowsAbsent ==
    \A i \in Ids : i > nextSeq => status[i] = "absent"

(* A row not completed yet was never committed. *)
OpenRowsUncommitted ==
    \A i \in Ids : status[i] \in {"absent", "requested"} => commits[i] = 0

QueueInv ==
    /\ TypeOK
    /\ HeldIffInside
    /\ HeldIsRequested
    /\ FreshRowsAbsent
    /\ OpenRowsUncommitted
    /\ ExclusiveClaim
    /\ SingleTerminalTransition

-----------------------------------------------------------------------------
(* The empty queue with every instance idle satisfies QueueInv. *)
LEMMA InitQueueInv == Init => QueueInv
  <1> SUFFICES ASSUME Init PROVE QueueInv
    OBVIOUS
  <1> USE DEF Init, Ids, NoCmd
  <1>1. TypeOK
    BY BoundsAssumption DEF TypeOK, RowStates, Results
  <1>2. HeldIffInside /\ HeldIsRequested /\ ExclusiveClaim
    BY DEF HeldIffInside, HeldIsRequested, ExclusiveClaim
  <1>3. FreshRowsAbsent /\ OpenRowsUncommitted /\ SingleTerminalTransition
    BY DEF FreshRowsAbsent, OpenRowsUncommitted, SingleTerminalTransition
  <1>4. QED
    BY <1>1, <1>2, <1>3 DEF QueueInv

(* Queue inserts a fresh row, which has no commit in its history. *)
LEMMA QueueStep ==
  ASSUME QueueInv, Queue PROVE QueueInv'
  <1> USE BoundsAssumption DEF Ids, NoCmd
  <1>1. TypeOK'
    <2>1. nextSeq + 1 \in Ids /\ nextSeq' \in 0..MaxCmds
      BY DEF QueueInv, TypeOK, Queue
    <2>2. status' \in [Ids -> RowStates] /\ created' \in [Ids -> 0..MaxTime]
      BY <2>1 DEF QueueInv, TypeOK, Queue, RowStates
    <2>3. UNCHANGED <<now, result, pc, claimed, verdict, aborts, handled,
                      commits>>
      BY DEF Queue
    <2>. QED  BY <2>1, <2>2, <2>3 DEF QueueInv, TypeOK
  <1>2. HeldIffInside'
    BY DEF QueueInv, HeldIffInside, Queue
  <1>3. HeldIsRequested'
    BY DEF QueueInv, TypeOK, HeldIsRequested, Queue
  <1>4. FreshRowsAbsent'
    BY DEF QueueInv, TypeOK, FreshRowsAbsent, Queue
  <1>5. OpenRowsUncommitted'
    BY DEF QueueInv, TypeOK, FreshRowsAbsent, OpenRowsUncommitted, Queue
  <1>6. ExclusiveClaim'
    BY DEF QueueInv, ExclusiveClaim, Queue
  <1>7. SingleTerminalTransition'
    BY DEF QueueInv, SingleTerminalTransition, Queue
  <1>8. QED
    BY <1>1, <1>2, <1>3, <1>4, <1>5, <1>6, <1>7 DEF QueueInv

(* Claim takes a requested row that no other transaction holds. *)
LEMMA ClaimStep ==
  ASSUME QueueInv, NEW c \in Consumers, Claim(c) PROVE QueueInv'
  <1> USE BoundsAssumption DEF Ids, NoCmd
  <1>1. TypeOK'
    <2>1. PICK i \in Ids :
            /\ claimed' = [claimed EXCEPT ![c] = i]
            /\ \/ verdict' = [verdict EXCEPT ![c] = "timedout"]
                  /\ pc' = [pc EXCEPT ![c] = "commit"]
               \/ verdict' = [verdict EXCEPT ![c] = "none"]
                  /\ pc' = [pc EXCEPT ![c] = "handle"]
      BY DEF Claim
    <2>2. claimed' \in [Consumers -> Ids \cup {NoCmd}]
      BY <2>1 DEF QueueInv, TypeOK
    <2>3. pc' \in [Consumers -> {"receive", "handle", "commit"}]
          /\ verdict' \in [Consumers -> {"none", "success", "timedout"}]
      BY <2>1 DEF QueueInv, TypeOK
    <2>4. QED
      BY <2>2, <2>3 DEF QueueInv, TypeOK, Claim
  <1>2. HeldIffInside'
    <2>1. PICK i \in Ids :
            /\ claimed' = [claimed EXCEPT ![c] = i]
            /\ pc' \in {[pc EXCEPT ![c] = "commit"], [pc EXCEPT ![c] = "handle"]}
      BY DEF Claim
    <2>2. pc'[c] # "receive" /\ claimed'[c] # NoCmd
      BY <2>1 DEF QueueInv, TypeOK
    <2>3. \A d \in Consumers \ {c} : pc'[d] = pc[d] /\ claimed'[d] = claimed[d]
      BY <2>1 DEF QueueInv, TypeOK
    <2>4. QED
      BY <2>2, <2>3 DEF QueueInv, HeldIffInside
  <1>3. HeldIsRequested'
    BY DEF QueueInv, TypeOK, HeldIsRequested, Locked, Claim
  <1>4. FreshRowsAbsent'
    BY DEF QueueInv, TypeOK, FreshRowsAbsent, Claim
  <1>5. OpenRowsUncommitted'
    BY DEF QueueInv, TypeOK, OpenRowsUncommitted, Claim
  <1>6. ExclusiveClaim'
    <2>1. PICK i \in Ids :
            /\ i \notin Locked
            /\ claimed' = [claimed EXCEPT ![c] = i]
      BY DEF Claim
    <2>2. \A d \in Consumers : d # c => claimed[d] # i
      BY <2>1 DEF Locked
    <2>3. QED
      BY <2>1, <2>2 DEF QueueInv, TypeOK, ExclusiveClaim
  <1>7. SingleTerminalTransition'
    BY DEF QueueInv, TypeOK, SingleTerminalTransition, Claim
  <1>8. QED
    BY <1>1, <1>2, <1>3, <1>4, <1>5, <1>6, <1>7 DEF QueueInv

(* Running the handler touches only the handler history. *)
LEMMA HandleStep ==
  ASSUME QueueInv, NEW c \in Consumers, Handle(c) PROVE QueueInv'
  <1> USE BoundsAssumption DEF Ids, NoCmd
  <1>0. claimed[c] \in Ids
    BY DEF QueueInv, TypeOK, HeldIffInside, Handle
  <1>1. TypeOK'
    <2>1. handled' \in [Ids -> Nat]
      BY <1>0 DEF QueueInv, TypeOK, Handle
    <2>2. QED
      BY <2>1 DEF QueueInv, TypeOK, Handle
  <1>2. HeldIffInside'
    BY DEF QueueInv, HeldIffInside, Handle
  <1>3. HeldIsRequested'
    BY DEF QueueInv, HeldIsRequested, Handle
  <1>4. FreshRowsAbsent'
    BY DEF QueueInv, FreshRowsAbsent, Handle
  <1>5. OpenRowsUncommitted'
    BY DEF QueueInv, OpenRowsUncommitted, Handle
  <1>6. ExclusiveClaim'
    BY DEF QueueInv, ExclusiveClaim, Handle
  <1>7. SingleTerminalTransition'
    BY DEF QueueInv, SingleTerminalTransition, Handle
  <1>8. QED
    BY <1>1, <1>2, <1>3, <1>4, <1>5, <1>6, <1>7 DEF QueueInv

(* Commit completes the held row, still requested and uncommitted. *)
LEMMA CommitStep ==
  ASSUME QueueInv, NEW c \in Consumers, Commit(c) PROVE QueueInv'
  <1> USE BoundsAssumption DEF Ids, NoCmd
  <1>0. claimed[c] \in Ids
    BY DEF QueueInv, TypeOK, HeldIffInside, Commit
  <1>9. commits' = [commits EXCEPT ![claimed[c]] = commits[claimed[c]] + 1]
    BY DEF Commit
  <1>1. TypeOK'
    <2>1. status' \in [Ids -> RowStates] /\ result' \in [Ids -> Results]
      BY <1>0 DEF QueueInv, TypeOK, RowStates, Results, Commit
    <2>2. commits' \in [Ids -> Nat]
      <3>1. commits \in [Ids -> Nat]
        BY DEF QueueInv, TypeOK
      <3>2. commits[claimed[c]] + 1 \in Nat
        BY <1>0, <3>1
      <3>3. QED
        BY <1>0, <1>9, <3>1, <3>2
    <2>3. QED
      BY <2>1, <2>2 DEF QueueInv, TypeOK, Commit
  <1>2. HeldIffInside'
    BY DEF QueueInv, TypeOK, HeldIffInside, Commit
  <1>3. HeldIsRequested'
    BY <1>0 DEF QueueInv, TypeOK, HeldIsRequested, ExclusiveClaim, Commit
  <1>4. FreshRowsAbsent'
    BY DEF QueueInv, TypeOK, HeldIffInside, HeldIsRequested, FreshRowsAbsent, Commit
  <1>5. OpenRowsUncommitted'
    BY DEF QueueInv, TypeOK, HeldIffInside, OpenRowsUncommitted, Commit
  <1>6. ExclusiveClaim'
    BY DEF QueueInv, TypeOK, ExclusiveClaim, Commit
  <1>7. SingleTerminalTransition'
    <2>1. commits[claimed[c]] = 0
      BY <1>0 DEF QueueInv, HeldIsRequested, OpenRowsUncommitted
    <2>2. QED
      BY <1>0, <1>9, <2>1 DEF QueueInv, TypeOK, SingleTerminalTransition
  <1>8. QED
    BY <1>1, <1>2, <1>3, <1>4, <1>5, <1>6, <1>7 DEF QueueInv

(* A rollback releases the row unchanged. *)
LEMMA AbortStep ==
  ASSUME QueueInv, NEW c \in Consumers, Abort(c) PROVE QueueInv'
  <1> USE BoundsAssumption DEF Ids, NoCmd
  <1>1. TypeOK'
    <2>1. aborts' \in 0..MaxAborts
      BY DEF QueueInv, TypeOK, Abort
    <2>2. QED
      BY <2>1 DEF QueueInv, TypeOK, Abort
  <1>2. HeldIffInside'
    BY DEF QueueInv, TypeOK, HeldIffInside, Abort
  <1>3. HeldIsRequested'
    BY DEF QueueInv, TypeOK, HeldIsRequested, Abort
  <1>4. FreshRowsAbsent'
    BY DEF QueueInv, FreshRowsAbsent, Abort
  <1>5. OpenRowsUncommitted'
    BY DEF QueueInv, OpenRowsUncommitted, Abort
  <1>6. ExclusiveClaim'
    BY DEF QueueInv, TypeOK, ExclusiveClaim, Abort
  <1>7. SingleTerminalTransition'
    BY DEF QueueInv, SingleTerminalTransition, Abort
  <1>8. QED
    BY <1>1, <1>2, <1>3, <1>4, <1>5, <1>6, <1>7 DEF QueueInv

(* Housekeeping deletes only rows no transaction holds. *)
LEMMA DeleteExpiredStep ==
  ASSUME QueueInv, DeleteExpired PROVE QueueInv'
  <1> USE BoundsAssumption DEF Ids, NoCmd
  <1>1. TypeOK'
    BY DEF QueueInv, TypeOK, RowStates, DeleteExpired
  <1>2. HeldIffInside'
    BY DEF QueueInv, HeldIffInside, DeleteExpired
  <1>3. HeldIsRequested'
    BY DEF QueueInv, TypeOK, HeldIsRequested, Locked, DeleteExpired
  <1>4. FreshRowsAbsent'
    BY DEF QueueInv, TypeOK, FreshRowsAbsent, DeleteExpired
  <1>5. OpenRowsUncommitted'
    BY DEF QueueInv, TypeOK, OpenRowsUncommitted, DeleteExpired
  <1>6. ExclusiveClaim'
    BY DEF QueueInv, ExclusiveClaim, DeleteExpired
  <1>7. SingleTerminalTransition'
    BY DEF QueueInv, SingleTerminalTransition, DeleteExpired
  <1>8. QED
    BY <1>1, <1>2, <1>3, <1>4, <1>5, <1>6, <1>7 DEF QueueInv

(* The clock moving changes no row or transaction. *)
LEMMA TickStep ==
  ASSUME QueueInv, Tick PROVE QueueInv'
  <1> USE BoundsAssumption DEF Ids, NoCmd
  <1>1. TypeOK'
    <2>1. now' \in 0..MaxTime
      BY DEF QueueInv, TypeOK, Tick
    <2>2. QED
      BY <2>1 DEF QueueInv, TypeOK, Tick
  <1>2. HeldIffInside'
    BY DEF QueueInv, HeldIffInside, Tick
  <1>3. HeldIsRequested'
    BY DEF QueueInv, HeldIsRequested, Tick
  <1>4. FreshRowsAbsent'
    BY DEF QueueInv, FreshRowsAbsent, Tick
  <1>5. OpenRowsUncommitted'
    BY DEF QueueInv, OpenRowsUncommitted, Tick
  <1>6. ExclusiveClaim'
    BY DEF QueueInv, ExclusiveClaim, Tick
  <1>7. SingleTerminalTransition'
    BY DEF QueueInv, SingleTerminalTransition, Tick
  <1>8. QED
    BY <1>1, <1>2, <1>3, <1>4, <1>5, <1>6, <1>7 DEF QueueInv

(* Every step of the queue preserves QueueInv. *)
LEMMA NextQueueInv == QueueInv /\ [Next]_vars => QueueInv'
  <1> SUFFICES ASSUME QueueInv, [Next]_vars PROVE QueueInv'
    OBVIOUS
  <1>1. CASE Queue
    BY <1>1, QueueStep
  <1>2. ASSUME NEW c \in Consumers, Claim(c) PROVE QueueInv'
    BY <1>2, ClaimStep
  <1>3. ASSUME NEW c \in Consumers, Handle(c) PROVE QueueInv'
    BY <1>3, HandleStep
  <1>4. ASSUME NEW c \in Consumers, Commit(c) PROVE QueueInv'
    BY <1>4, CommitStep
  <1>5. ASSUME NEW c \in Consumers, Abort(c) PROVE QueueInv'
    BY <1>5, AbortStep
  <1>6. CASE DeleteExpired
    BY <1>6, DeleteExpiredStep
  <1>7. CASE Tick
    BY <1>7, TickStep
  <1>8. CASE UNCHANGED vars
    BY <1>8 DEF vars, QueueInv, TypeOK, HeldIffInside, HeldIsRequested,
                FreshRowsAbsent, OpenRowsUncommitted, ExclusiveClaim,
                SingleTerminalTransition
  <1>9. QED
    BY <1>1, <1>2, <1>3, <1>4, <1>5, <1>6, <1>7, <1>8 DEF Next

(* QueueInv holds in every reachable state of the queue. *)
THEOREM QueueInvariant == Spec => []QueueInv
  BY InitQueueInv, NextQueueInv, PTL DEF Spec

(* Type correctness of the queue's state for every configuration. *)
THEOREM TypeCorrect == Spec => []TypeOK
  <1>1. QueueInv => TypeOK
    BY DEF QueueInv
  <1>2. QED
    BY QueueInvariant, <1>1, PTL

(* Spec property 4: every command's terminal state is committed at most   *)
(* once, by one instance, whatever the deadline and housekeeping ages.     *)
THEOREM TerminalOnce == Spec => []SingleTerminalTransition
  <1>1. QueueInv => SingleTerminalTransition
    BY DEF QueueInv
  <1>2. QED
    BY QueueInvariant, <1>1, PTL


-----------------------------------------------------------------------------
(***************************************************************************)
(* Refinement of QueueContract.  The mapping is the identity on the rows'  *)
(* state and result.  Queue is Enqueue of the next seq (FreshRowsAbsent    *)
(* says that row is absent), Commit is Complete of the held row            *)
(* (HeldIsRequested says it is still requested), DeleteExpired is Expire   *)
(* of the rows it deletes, and Claim, Handle, Abort and Tick leave state   *)
(* and result alone.                                                       *)
(***************************************************************************)
LEMMA InitContract == Init => Contract!Init
  BY DEF Init, Contract!Init

(* Queue inserts the absent row nextSeq + 1. *)
LEMMA QueueIsEnqueue ==
  ASSUME QueueInv, Queue
  PROVE  Contract!Enqueue(nextSeq + 1)
  <1>1. nextSeq + 1 \in Ids /\ status[nextSeq + 1] = "absent"
    BY BoundsAssumption DEF QueueInv, TypeOK, FreshRowsAbsent, Queue, Ids
  <1>. QED  BY <1>1 DEF Queue, Contract!Enqueue

(* Commit completes the row its instance holds, which is still requested, *)
(* with success or, past the deadline, error/timedout.                     *)
LEMMA CommitIsComplete ==
  ASSUME QueueInv, NEW c \in Consumers, Commit(c)
  PROVE  Contract!Complete(claimed[c])
  <1> DEFINE i == claimed[c]
  <1>1. i \in Ids /\ status[i] = "requested"
    BY DEF Commit, QueueInv, TypeOK, HeldIffInside, HeldIsRequested, NoCmd,
           Ids
  <1>2. CASE verdict[c] = "timedout"
    <2>1. <<"error", "timedout">> \in Contract!Outcomes
      BY DEF Contract!Outcomes
    <2>. QED  BY <1>1, <1>2, <2>1 DEF Commit, Contract!Complete
  <1>3. CASE verdict[c] # "timedout"
    <2>1. <<"success", "some result">> \in Contract!Outcomes
      BY DEF Contract!Outcomes
    <2>. QED  BY <1>1, <1>3, <2>1 DEF Commit, Contract!Complete
  <1>. QED  BY <1>2, <1>3

(* DeleteExpired deletes the expired, unlocked, present rows: an Expire of *)
(* that set, which its guard makes non-empty.                              *)
LEMMA DeleteIsExpire ==
  ASSUME QueueInv, DeleteExpired
  PROVE  \E S \in SUBSET Ids : Contract!Expire(S)
  <1> DEFINE S == {i \in Ids : status[i] \notin {"absent", "deleted"}
                               /\ Expired(i) /\ i \notin Locked}
  <1>1. S \in SUBSET Ids /\ S # {}
    BY DEF DeleteExpired
  <1>2. status' = [i \in Ids |-> IF i \in S THEN "deleted" ELSE status[i]]
    BY DEF DeleteExpired
  <1>. QED  BY <1>1, <1>2 DEF DeleteExpired, Contract!Expire

(* Inside process, nothing the contract sees changes. *)
LEMMA InvisibleSteps ==
  ASSUME \/ \E c \in Consumers : Claim(c) \/ Handle(c) \/ Abort(c)
         \/ Tick
  PROVE  UNCHANGED <<status, result>>
  BY DEF Claim, Handle, Abort, Tick

LEMMA StepRefines ==
  QueueInv /\ [Next]_vars => [Contract!Next]_<<status, result>>
  <1> SUFFICES ASSUME QueueInv, [Next]_vars
               PROVE  [Contract!Next]_<<status, result>>
    OBVIOUS
  <1>1. CASE Queue
    <2>1. nextSeq + 1 \in Ids
      BY <1>1, BoundsAssumption DEF QueueInv, TypeOK, Queue, Ids
    <2>. QED  BY <1>1, <2>1, QueueIsEnqueue DEF Contract!Next
  <1>2. CASE \E c \in Consumers : Commit(c)
    <2>1. PICK c \in Consumers : Commit(c)
      BY <1>2
    <2>2. claimed[c] \in Ids
      BY <2>1 DEF Commit, QueueInv, TypeOK, HeldIffInside, NoCmd, Ids
    <2>. QED  BY <2>1, <2>2, CommitIsComplete DEF Contract!Next
  <1>3. CASE DeleteExpired
    BY <1>3, DeleteIsExpire DEF Contract!Next
  <1>4. CASE \/ \E c \in Consumers : Claim(c) \/ Handle(c) \/ Abort(c)
             \/ Tick
    BY <1>4, InvisibleSteps
  <1>5. CASE UNCHANGED vars
    BY <1>5 DEF vars
  <1>. QED  BY <1>1, <1>2, <1>3, <1>4, <1>5 DEF Next

(* The queue keeps its contract for every number of instances and          *)
(* commands and every deadline and housekeeping age: each commit completes *)
(* a row that is still requested, no row returns to requested, and a       *)
(* deleted row is never written again.                                     *)
THEOREM Refinement == Spec => ImplementsContract
  <1>1. Spec => []QueueInv
    BY QueueInvariant
  <1>. QED
    BY <1>1, InitContract, StepRefines, PTL
       DEF Spec, ImplementsContract, Contract!Spec
=============================================================================
