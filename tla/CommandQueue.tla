---------------------------- MODULE CommandQueue ----------------------------
(***************************************************************************)
(* The table-backed command queue of pkg/store/command_queue.go.          *)
(*                                                                         *)
(* Producers insert rows with Queue; every b3scale instance runs one       *)
(* consumer (Controller.Start calling Receive forever) and one             *)
(* housekeeping loop (CommandQueue.Start).  A consumer claims the          *)
(* requested row with the smallest seq under FOR UPDATE SKIP LOCKED,       *)
(* runs the handler inside that transaction and writes the terminal        *)
(* state in the same transaction.  Time is a discrete clock; one tick      *)
(* stands for a fixed number of seconds chosen by the MC module.         *)
(*                                                                         *)
(* The LISTEN/NOTIFY wake-up is left out: Receive always polls after its   *)
(* 10 s wait, whether or not a notification arrived, so notifications     *)
(* change only how soon a consumer polls, which the interleaving already  *)
(* leaves open.                                                            *)
(***************************************************************************)
EXTENDS Naturals

CONSTANTS
    Consumers,      \* the b3scale instances, each running one Receive loop
    MaxCmds,        \* bound on the number of commands ever queued
    MaxTime,        \* bound on the clock
    DeadlineAge,    \* Queue: deadline = now + 120 s, in ticks
    ExpireAge,      \* deleteExpired: now - created_at > 1 minute, in ticks
    MaxAborts       \* bound on transactions ending without commit

ASSUME ConsumersAssumption == Consumers # {}
ASSUME BoundsAssumption ==
    /\ MaxCmds \in Nat \ {0}
    /\ MaxTime \in Nat
    /\ DeadlineAge \in Nat
    /\ ExpireAge \in Nat
    /\ MaxAborts \in Nat

VARIABLES
    now,        \* the clock
    nextSeq,    \* number of rows ever inserted; the seq of the next row - 1
    status,     \* row state: "absent" (not inserted yet), "requested",
                \* "success", "error" or "deleted" (removed by housekeeping)
    created,    \* created_at of each row
    result,     \* the result column of each row
    pc,         \* where each consumer is: "receive", "handle" or "commit"
    claimed,    \* the row a consumer's open transaction holds, or NoCmd
    verdict,    \* the state/result a consumer will write: "none",
                \* "success" or "timedout"
    aborts,     \* transactions ended by rollback so far
    handled,    \* history: how often the handler ran for each row
    commits     \* history: how often a terminal state was committed per row

vars == <<now, nextSeq, status, created, result, pc, claimed, verdict,
          aborts, handled, commits>>

Ids == 1..MaxCmds
NoCmd == 0
RowStates == {"absent", "requested", "success", "error", "deleted"}
Terminal == {"success", "error"}
Results == {"none", "some result", "timedout"}

TypeOK ==
    /\ now \in 0..MaxTime
    /\ nextSeq \in 0..MaxCmds
    /\ status \in [Ids -> RowStates]
    /\ created \in [Ids -> 0..MaxTime]
    /\ result \in [Ids -> Results]
    /\ pc \in [Consumers -> {"receive", "handle", "commit"}]
    /\ claimed \in [Consumers -> Ids \cup {NoCmd}]
    /\ verdict \in [Consumers -> {"none", "success", "timedout"}]
    /\ aborts \in 0..MaxAborts
    /\ handled \in [Ids -> Nat]
    /\ commits \in [Ids -> Nat]

-----------------------------------------------------------------------------
(* Rows locked FOR UPDATE by some open transaction. *)
Locked == {claimed[c] : c \in Consumers} \ {NoCmd}

(* deadline.Before(now): the deadline is created_at + 120 s. *)
PastDeadline(i) == created[i] + DeadlineAge < now

(* now() - created_at > interval '1 minute' *)
Expired(i) == now - created[i] > ExpireAge

(***************************************************************************)
(* Mutants: plausible bugs in the operations below, each one used to show  *)
(* that a property of MC_CommandQueue.cfg notices it.                      *)
(***************************************************************************)
(* Queue with an off-by-one in the bound on inserted rows. *)
QueueOffByOne ==
    /\ nextSeq <= MaxCmds
    /\ LET i == nextSeq + 1 IN
         /\ status' = [status EXCEPT ![i] = "requested"]
         /\ created' = [created EXCEPT ![i] = now]
    /\ nextSeq' = nextSeq + 1
    /\ UNCHANGED <<now, result, pc, claimed, verdict, aborts, handled,
                   commits>>

(* The claim SELECT without FOR UPDATE SKIP LOCKED: the smallest requested *)
(* row is taken whether or not another transaction holds it.              *)
ClaimWithoutSkipLocked(c) ==
    /\ pc[c] = "receive"
    /\ \E i \in Ids :
         /\ status[i] = "requested"
         /\ \A j \in Ids : j < i => status[j] # "requested"
         /\ claimed' = [claimed EXCEPT ![c] = i]
         /\ IF PastDeadline(i)
              THEN /\ verdict' = [verdict EXCEPT ![c] = "timedout"]
                   /\ pc' = [pc EXCEPT ![c] = "commit"]
              ELSE /\ verdict' = [verdict EXCEPT ![c] = "none"]
                   /\ pc' = [pc EXCEPT ![c] = "handle"]
    /\ UNCHANGED <<now, nextSeq, status, created, result, aborts, handled,
                   commits>>

(* A timed-out row is skipped by returning before the UPDATE: the deferred *)
(* rollback releases it still requested.                                   *)
ClaimRollsBackTimedOut(c) ==
    /\ pc[c] = "receive"
    /\ \E i \in Ids :
         /\ status[i] = "requested"
         /\ i \notin Locked
         /\ \A j \in Ids : j < i /\ status[j] = "requested" => j \in Locked
         /\ IF PastDeadline(i)
              THEN UNCHANGED <<claimed, verdict, pc>>
              ELSE /\ claimed' = [claimed EXCEPT ![c] = i]
                   /\ verdict' = [verdict EXCEPT ![c] = "none"]
                   /\ pc' = [pc EXCEPT ![c] = "handle"]
    /\ UNCHANGED <<now, nextSeq, status, created, result, aborts, handled,
                   commits>>

-----------------------------------------------------------------------------
Init ==
    /\ now = 0
    /\ nextSeq = 0
    /\ status = [i \in Ids |-> "absent"]
    /\ created = [i \in Ids |-> 0]
    /\ result = [i \in Ids |-> "none"]
    /\ pc = [c \in Consumers |-> "receive"]
    /\ claimed = [c \in Consumers |-> NoCmd]
    /\ verdict = [c \in Consumers |-> "none"]
    /\ aborts = 0
    /\ handled = [i \in Ids |-> 0]
    /\ commits = [i \in Ids |-> 0]

(* Queue: INSERT a row (state defaults to 'requested', seq to the next      *)
(* value, created_at to now()) and NOTIFY.                                  *)
Queue ==
    /\ nextSeq < MaxCmds
    /\ LET i == nextSeq + 1 IN
         /\ status' = [status EXCEPT ![i] = "requested"]
         /\ created' = [created EXCEPT ![i] = now]
    /\ nextSeq' = nextSeq + 1
    /\ UNCHANGED <<now, result, pc, claimed, verdict, aborts, handled,
                   commits>>

(* process, up to the handler: Begin, SELECT the requested row with the     *)
(* smallest seq FOR UPDATE SKIP LOCKED, and check its deadline.  When no    *)
(* row qualifies process returns false and Receive loops: a stutter.        *)
Claim(c) ==
    /\ pc[c] = "receive"
    /\ \E i \in Ids :
         /\ status[i] = "requested"
         /\ i \notin Locked
         /\ \A j \in Ids : j < i /\ status[j] = "requested" => j \in Locked
         /\ claimed' = [claimed EXCEPT ![c] = i]
         /\ IF PastDeadline(i)
              THEN /\ verdict' = [verdict EXCEPT ![c] = "timedout"]
                   /\ pc' = [pc EXCEPT ![c] = "commit"]
              ELSE /\ verdict' = [verdict EXCEPT ![c] = "none"]
                   /\ pc' = [pc EXCEPT ![c] = "handle"]
    /\ UNCHANGED <<now, nextSeq, status, created, result, aborts, handled,
                   commits>>

(* handler(cmd): Controller.handleCommand always returns "some result" and *)
(* no error, so state stays "success".                                     *)
Handle(c) ==
    /\ pc[c] = "handle"
    /\ handled' = [handled EXCEPT ![claimed[c]] = @ + 1]
    /\ verdict' = [verdict EXCEPT ![c] = "success"]
    /\ pc' = [pc EXCEPT ![c] = "commit"]
    /\ UNCHANGED <<now, nextSeq, status, created, result, claimed, aborts,
                   commits>>

(* UPDATE commands SET state, result ... and tx.Commit; process returns     *)
(* true and Receive returns nil; Controller.Start calls Receive again.      *)
Commit(c) ==
    /\ pc[c] = "commit"
    /\ LET i == claimed[c] IN
         /\ status' = [status EXCEPT ![i] =
                         IF verdict[c] = "timedout" THEN "error" ELSE "success"]
         /\ result' = [result EXCEPT ![i] =
                         IF verdict[c] = "timedout" THEN "timedout"
                                                    ELSE "some result"]
         /\ commits' = [commits EXCEPT ![i] = @ + 1]
    /\ claimed' = [claimed EXCEPT ![c] = NoCmd]
    /\ verdict' = [verdict EXCEPT ![c] = "none"]
    /\ pc' = [pc EXCEPT ![c] = "receive"]
    /\ UNCHANGED <<now, nextSeq, created, aborts, handled>>

(* json.Marshal, the UPDATE or tx.Commit fails, or the connection is lost:  *)
(* process returns the error, the deferred tx.Rollback releases the row,    *)
(* and Controller.Start logs, sleeps and calls Receive again.               *)
Abort(c) ==
    /\ pc[c] \in {"handle", "commit"}
    /\ aborts < MaxAborts
    /\ aborts' = aborts + 1
    /\ claimed' = [claimed EXCEPT ![c] = NoCmd]
    /\ verdict' = [verdict EXCEPT ![c] = "none"]
    /\ pc' = [pc EXCEPT ![c] = "receive"]
    /\ UNCHANGED <<now, nextSeq, status, created, result, handled, commits>>

(* Mutant of DeleteExpired: the DELETE does not wait for rows locked by  *)
(* an open transaction.                                                    *)
DeleteExpiredIgnoresLocks ==
    /\ \E i \in Ids : status[i] # "absent" /\ status[i] # "deleted"
                      /\ Expired(i)
    /\ status' = [i \in Ids |->
                    IF status[i] \notin {"absent", "deleted"} /\ Expired(i)
                    THEN "deleted" ELSE status[i]]
    /\ UNCHANGED <<now, nextSeq, created, result, pc, claimed, verdict,
                   aborts, handled, commits>>

(* deleteExpired: DELETE every row older than a minute, whatever its state. *)
(* Rows locked by an open transaction make the DELETE wait; they are left   *)
(* to the next round of the loop.                                           *)
DeleteExpired ==
    /\ \E i \in Ids : status[i] # "absent" /\ status[i] # "deleted"
                      /\ Expired(i) /\ i \notin Locked
    /\ status' = [i \in Ids |->
                    IF status[i] \notin {"absent", "deleted"}
                       /\ Expired(i) /\ i \notin Locked
                    THEN "deleted" ELSE status[i]]
    /\ UNCHANGED <<now, nextSeq, created, result, pc, claimed, verdict,
                   aborts, handled, commits>>

Tick ==
    /\ now < MaxTime
    /\ now' = now + 1
    /\ UNCHANGED <<nextSeq, status, created, result, pc, claimed, verdict,
                   aborts, handled, commits>>

Next ==
    \/ Queue
    \/ \E c \in Consumers : Claim(c) \/ Handle(c) \/ Commit(c) \/ Abort(c)
    \/ DeleteExpired
    \/ Tick

(* Each instance's Receive loop runs forever and polls at least every      *)
(* 10 s, so a consumer that can take its next step eventually does.        *)
Fairness ==
    \A c \in Consumers : WF_vars(Claim(c)) /\ WF_vars(Handle(c))
                         /\ WF_vars(Commit(c))

Spec == Init /\ [][Next]_vars /\ Fairness

-----------------------------------------------------------------------------
(* Spec property 4: each command's terminal transition (the commit of      *)
(* state success/error in process) is observed exactly once, by one         *)
(* consumer: no row is ever committed twice.                               *)
SingleTerminalTransition ==
    \A i \in Ids : commits[i] <= 1

(* Spec section 4.3: "at-most-once delivery is guaranteed by the FOR UPDATE *)
(* SKIP LOCKED claim": the handler is invoked at most once per command.     *)
AtMostOnceHandling ==
    \A i \in Ids : handled[i] <= 1

(* Every queued command is eventually completed or removed: the Receive    *)
(* loops of the instances drain the queue.                                 *)
EveryCommandSettles ==
    \A i \in Ids : status[i] = "requested" ~> status[i] # "requested"


-----------------------------------------------------------------------------
Contract == INSTANCE QueueContract WITH state <- status

(* The queue keeps its contract: every behaviour of the producers, the     *)
(* instances' Receive loops (claims, handlers, commits and rollbacks) and  *)
(* housekeeping is a behaviour of QueueContract, read through the rows'    *)
(* state and result.  Each commit completes a row that is still requested, *)
(* no row goes back to requested, and a deleted row is never written.      *)
ImplementsContract == Contract!Spec
=============================================================================
