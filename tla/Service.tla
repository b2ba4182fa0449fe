------------------------------- MODULE Service -------------------------------
(***************************************************************************)
(* The goroutines of a node's agreement service that get a vote out: the   *)
(* main and demux loops (agreement/service.go, demux.go), the persistence  *)
(* loop (persistence.go) and the pseudonode's vote tasks (pseudonode.go).  *)
(*                                                                         *)
(* The main and demux loops hand over to each other on unbuffered channels *)
(* and never run together: they are one loop, which executes the action    *)
(* act or, when there is none, waits in demux.next.  A list of actions has *)
(* at most one that matters here.  The player is reduced to its round and  *)
(* the number of attest actions it has issued in it; what it attests to is *)
(* arbitrary.  Proposals, which no write precedes, are left out.           *)
(***************************************************************************)
EXTENDS Integers, Sequences

CONSTANTS
    Values,      \* what a vote may be for
    Backlog,     \* pseudonodeVerificationBacklog
    Unselected,  \* the steps in which the node may turn out to have no vote
    Failing,     \* the steps whose write the crash database may refuse
    MaxRound,    \* bound: the last round of the ledger
    MaxStep,     \* bound: attest actions per round
    MaxCrashes   \* bound: how often the process dies

ASSUME BoundsAssumption ==
    MaxRound \in Nat \ {0} /\ MaxStep \in Nat /\ MaxCrashes \in Nat /\ Backlog \in Nat
ASSUME ZeroAssumption == "none" \notin Values

VARIABLES
    status,    \* the player: its round, and its attest actions in it
    act,       \* the action the demux loop has to execute
    persist,   \* persistStatus and persistActions
    tasks,     \* incomingTasks of the pseudonode; the first one executes
    queue,     \* demux.queue: channels of checkpoint events and of votes
    pending,   \* asyncPersistenceLoop.pending, a channel of capacity 1
    writing,   \* the request the persistence loop has taken
    events,    \* checkpoint events not yet received
    disk,      \* the row of the crash database
    sent,      \* the votes that have left the node
    ledger,    \* the last block of the ledger
    durable,   \* the last block of the ledger that is on disk
    running,   \* the demux loop has not returned
    quit,      \* Shutdown has been called
    crashes    \* how often the process has died

loops == <<status, act, persist, queue>>
storage == <<pending, writing, events, disk>>
chain == <<ledger, durable>>
life == <<running, quit, crashes>>
vars == <<loops, tasks, storage, sent, chain, life>>

\* An attest action, and the state of the player that has just issued it.
Attestation == [Round : 1..MaxRound, Step : 1..MaxStep, Value : Values]

\* The zero values of persistStatus and persistActions; also no row at all.
zero == [Round |-> 0, Step |-> 0, Value |-> "none"]
State == Attestation \cup {zero}

noop == [T |-> "none", Att |-> zero, Err |-> FALSE]
Do(t, a, e) == [T |-> t, Att |-> a, Err |-> e]
Action == [T : {"none", "attest", "enqueue", "ensure", "checkpoint", "relay"},
           Att : State, Err : BOOLEAN]

Requests == [State : State, For : Attestation]
\* A task and whether its persistStateDone is closed.
Tasks == [Att : Attestation, St : {"queued", "waiting", "sending"}, Done : BOOLEAN]
Queued(a) == [Att |-> a, St |-> "queued", Done |-> FALSE]
Channels == [Kind : {"checkpoint", "votes"}, Att : Attestation]

Init ==
    /\ status = [Round |-> 1, Step |-> 0]
    /\ act = noop
    /\ persist = zero
    /\ tasks = <<>> /\ queue = <<>>
    /\ pending = {} /\ writing = {} /\ events = {}
    /\ disk = zero
    /\ sent = {}
    /\ ledger = 0 /\ durable = 0
    /\ running = TRUE /\ quit = FALSE /\ crashes = 0

-----------------------------------------------------------------------------
(* demux.next: the loop waits for an event and the player handles it.      *)

Waiting == running /\ act = noop

\* Fault: the variables are not set.
HandleAttestForgotten(v) ==
    LET a == [Round |-> status.Round, Step |-> status.Step + 1, Value |-> v] IN
    /\ Waiting
    /\ status.Step < MaxStep
    /\ status' = [status EXCEPT !.Step = @ + 1]
    /\ act' = Do("attest", a, FALSE)
    /\ UNCHANGED <<persist, queue, tasks, storage, sent, chain, life>>

\* A timeout, threshold or block makes the player vote; the main loop keeps
\* what is to be persisted (persistent, in mainLoop).
HandleAttest(v) ==
    LET a == [Round |-> status.Round, Step |-> status.Step + 1, Value |-> v] IN
    /\ Waiting
    /\ status.Step < MaxStep
    /\ status' = [status EXCEPT !.Step = @ + 1]
    /\ act' = Do("attest", a, FALSE)
    /\ persist' = a
    /\ UNCHANGED <<queue, tasks, storage, sent, chain, life>>

\* A certificate and its block end the round.
HandleCertificate ==
    /\ Waiting
    /\ status.Round < MaxRound
    /\ status' = [Round |-> status.Round + 1, Step |-> 0]
    /\ act' = Do("ensure", zero, FALSE)
    /\ UNCHANGED <<persist, queue, tasks, storage, sent, chain, life>>

\* roundInterruptionEvent: somebody else has written the block of the round.
HandleInterruption ==
    /\ Waiting
    /\ durable >= status.Round
    /\ ledger < MaxRound
    /\ status' = [Round |-> ledger + 1, Step |-> 0]
    /\ UNCHANGED <<act, persist, queue, tasks, storage, sent, chain, life>>

\* The channels of demux.queue, in order: a checkpoint event ...
TakeCheckpoint ==
    /\ Waiting
    /\ queue # <<>>
    /\ Head(queue).Kind = "checkpoint"
    /\ \E e \in events :
          /\ e.For = Head(queue).Att
          /\ act' = Do("checkpoint", e.For, e.Err)
          /\ events' = events \ {e}
    /\ queue' = Tail(queue)
    /\ UNCHANGED <<status, persist, tasks, pending, writing, disk, sent, chain, life>>

\* ... a vote, which the player relays unless its round is over ...
TakeVote ==
    /\ Waiting
    /\ queue # <<>>
    /\ tasks # <<>>
    /\ Head(queue) = [Kind |-> "votes", Att |-> Head(tasks).Att]
    /\ Head(tasks).St = "sending"
    /\ act' = IF Head(tasks).Att.Round = status.Round
              THEN Do("relay", Head(tasks).Att, FALSE) ELSE noop
    /\ tasks' = Tail(tasks)
    /\ queue' = Tail(queue)
    /\ UNCHANGED <<status, persist, storage, sent, chain, life>>

\* ... or the channel of a task that has ended without a vote.
SkipClosed ==
    /\ Waiting
    /\ queue # <<>>
    /\ Head(queue).Kind = "votes"
    /\ \A i \in 1..Len(tasks) : tasks[i].Att # Head(queue).Att
    /\ queue' = Tail(queue)
    /\ UNCHANGED <<status, act, persist, tasks, storage, sent, chain, life>>

-----------------------------------------------------------------------------
(* Service.do: the loop executes the action.                               *)

\* Fault: the backlog is not bounded.
DoAttestUnbounded ==
    /\ act.T = "attest"
    /\ \/ act' = noop /\ UNCHANGED tasks
       \/ /\ tasks' = Append(tasks, Queued(act.Att))
          /\ act' = [act EXCEPT !.T = "enqueue"]
    /\ UNCHANGED <<status, persist, queue, storage, sent, chain, life>>

\* MakeVotes: no participation keys, or a full backlog, and the vote is
\* dropped; otherwise a task that will wait for the write.
DoAttest ==
    /\ act.T = "attest"
    /\ \/ act' = noop /\ UNCHANGED tasks
       \/ /\ Len(tasks) <= Backlog
          /\ tasks' = Append(tasks, Queued(act.Att))
          /\ act' = [act EXCEPT !.T = "enqueue"]
    /\ UNCHANGED <<status, persist, queue, storage, sent, chain, life>>

\* persistState, which waits for room in the channel; then both channels are
\* put into the queue.
DoEnqueue ==
    /\ act.T = "enqueue"
    /\ pending = {}
    /\ pending' = {[State |-> persist, For |-> act.Att]}
    /\ queue' = queue \o << [Kind |-> "checkpoint", Att |-> act.Att],
                            [Kind |-> "votes", Att |-> act.Att] >>
    /\ act' = noop
    /\ UNCHANGED <<status, persist, tasks, writing, events, disk, sent, chain, life>>

\* EnsureBlock returns once the ledger has the block.
DoEnsure ==
    /\ act.T = "ensure"
    /\ ledger' = IF ledger < status.Round - 1 THEN status.Round - 1 ELSE ledger
    /\ act' = noop
    /\ UNCHANGED <<status, persist, queue, tasks, storage, sent, durable, life>>

\* A task that waits for its persistStateDone, and the tasks once that of a
\* has been closed; nobody may be left to notice.
Receiving(a) == [Att |-> a, St |-> "waiting", Done |-> FALSE]
Closed(a) == [i \in DOMAIN tasks |->
                 IF tasks[i].Att = a THEN [tasks[i] EXCEPT !.Done = TRUE] ELSE tasks[i]]

\* Fault: the channel is closed whether the write failed or not.
DoCheckpointBlind ==
    /\ act.T = "checkpoint"
    /\ tasks' = Closed(act.Att)
    /\ act' = noop
    /\ UNCHANGED <<status, persist, queue, storage, sent, chain, life>>

\* Fault: success is sent to the task, too.
DoCheckpointSend ==
    /\ act.T = "checkpoint"
    /\ tasks # <<>>
    /\ Head(tasks) = Receiving(act.Att)
    /\ tasks' = IF act.Err THEN Tail(tasks) ELSE [tasks EXCEPT ![1].St = "sending"]
    /\ act' = noop
    /\ UNCHANGED <<status, persist, queue, storage, sent, chain, life>>

\* checkpointAction.do: a failure is sent to the task on an unbuffered
\* channel, so the loop waits until the task receives it.
DoCheckpoint ==
    /\ act.T = "checkpoint"
    /\ \/ /\ ~act.Err
          /\ tasks' = Closed(act.Att)
       \/ /\ act.Err
          /\ tasks # <<>>
          /\ Head(tasks) = Receiving(act.Att)
          /\ tasks' = Tail(tasks)
    /\ act' = noop
    /\ UNCHANGED <<status, persist, queue, storage, sent, chain, life>>

DoRelay ==
    /\ act.T = "relay"
    /\ sent' = sent \cup {act.Att}
    /\ act' = noop
    /\ UNCHANGED <<status, persist, queue, tasks, storage, chain, life>>

-----------------------------------------------------------------------------
(* asyncPersistenceLoop.loop.                                              *)

WriterTake ==
    /\ writing = {}
    /\ pending # {}
    /\ writing' = pending
    /\ pending' = {}
    /\ UNCHANGED <<loops, tasks, events, disk, sent, chain, life>>

\* Fault: the write does not wait for the ledger.
LedgerReadyAlways(r) == TRUE

\* ledger.Wait(s.round.SubSaturate(1)).
LedgerReady(r) == durable >= r - 1

\* Fault: the channel of the event has no buffer.
WriterWriteUnbuffered ==
    \E s \in writing :
        /\ LedgerReady(s.State.Round)
        /\ Waiting
        /\ writing' = {}
        /\ disk' = s.State
        /\ events' = events \cup {[For |-> s.For, Err |-> FALSE]}
        /\ UNCHANGED <<loops, tasks, pending, sent, chain, life>>

WriterWrite ==
    \E s \in writing :
        /\ LedgerReady(s.State.Round)
        /\ writing' = {}
        /\ \/ /\ disk' = s.State
              /\ events' = events \cup {[For |-> s.For, Err |-> FALSE]}
           \/ /\ s.For.Step \in Failing
              /\ events' = events \cup {[For |-> s.For, Err |-> TRUE]}
              /\ UNCHANGED disk
        /\ UNCHANGED <<loops, tasks, pending, sent, chain, life>>

-----------------------------------------------------------------------------
(* pseudonodeVotesTask.execute, one task at a time (verifierLoop).         *)

\* Makes the votes and has them verified; without any the task ends here.
TaskMake ==
    /\ tasks # <<>>
    /\ Head(tasks).St = "queued"
    /\ \/ tasks' = [tasks EXCEPT ![1].St = "waiting"]
       \/ Head(tasks).Att.Step \in Unselected /\ tasks' = Tail(tasks)
    /\ UNCHANGED <<loops, storage, sent, chain, life>>

TaskRelease ==
    /\ tasks # <<>>
    /\ Head(tasks).St = "waiting"
    /\ Head(tasks).Done
    /\ tasks' = [tasks EXCEPT ![1].St = "sending"]
    /\ UNCHANGED <<loops, storage, sent, chain, life>>

\* The task's context is cancelled: Shutdown does so before the loop returns.
TaskCancel ==
    /\ tasks # <<>>
    /\ quit
    /\ tasks' = Tail(tasks)
    /\ UNCHANGED <<loops, storage, sent, chain, life>>

-----------------------------------------------------------------------------
(* The ledger, the end of the process and its start.                       *)

\* Catchup writes a block.
Catchup ==
    /\ ledger < MaxRound
    /\ ledger' = ledger + 1
    /\ UNCHANGED <<loops, tasks, storage, sent, durable, life>>

SyncBlocks ==
    /\ durable < ledger
    /\ durable' = durable + 1
    /\ UNCHANGED <<loops, tasks, storage, sent, ledger, life>>

Shutdown ==
    /\ ~quit
    /\ quit' = TRUE
    /\ UNCHANGED <<loops, tasks, storage, sent, chain, running, crashes>>

\* demux.next returns false; the pseudonode's tasks see quit and return.
Exit ==
    /\ Waiting
    /\ quit
    /\ running' = FALSE
    /\ tasks' = <<>>
    /\ UNCHANGED <<loops, storage, sent, chain, quit, crashes>>

\* The process dies, or has ended, and mainLoop restores what it finds.
Restart ==
    LET fresh == disk.Round < durable + 1 IN
    /\ crashes < MaxCrashes
    /\ durable < MaxRound
    /\ crashes' = crashes + 1
    /\ status' = IF fresh THEN [Round |-> durable + 1, Step |-> 0]
                 ELSE [Round |-> disk.Round, Step |-> disk.Step]
    /\ act' = IF fresh THEN noop ELSE Do("attest", disk, FALSE)
    /\ persist' = zero
    /\ tasks' = <<>> /\ queue' = <<>>
    /\ pending' = {} /\ writing' = {} /\ events' = {}
    /\ ledger' = durable
    /\ running' = TRUE /\ quit' = FALSE
    /\ UNCHANGED <<disk, sent, durable>>

Next ==
    \/ \E v \in Values : HandleAttest(v)
    \/ HandleCertificate \/ HandleInterruption
    \/ TakeCheckpoint \/ TakeVote \/ SkipClosed
    \/ DoAttest \/ DoEnqueue \/ DoEnsure \/ DoCheckpoint \/ DoRelay
    \/ WriterTake \/ WriterWrite
    \/ TaskMake \/ TaskRelease \/ TaskCancel
    \/ Catchup \/ SyncBlocks
    \/ Shutdown \/ Exit \/ Restart

Spec == Init /\ [][Next]_vars

(* Goroutines run, blocks are written, and demux.next looks at its queue   *)
(* and at quit in every call, before or beside any other event.            *)
Fairness ==
    /\ WF_vars(DoAttest \/ DoEnqueue \/ DoEnsure \/ DoCheckpoint \/ DoRelay)
    /\ WF_vars(WriterTake \/ WriterWrite)
    /\ WF_vars(TaskMake \/ TaskRelease)
    /\ WF_vars(SyncBlocks)
    /\ SF_vars(TakeCheckpoint \/ TakeVote \/ SkipClosed)
    /\ SF_vars(Exit)

FairSpec == Spec /\ Fairness
-----------------------------------------------------------------------------
(* Properties.                                                             *)

(* Type invariant: what the channels, queues and rows of the service hold. *)
TypeOK ==
    /\ status \in [Round : 1..MaxRound, Step : 0..MaxStep]
    /\ act \in Action /\ persist \in State
    /\ tasks \in Seq(Tasks) /\ Len(tasks) <= Backlog + 1
    /\ queue \in Seq(Channels)
    /\ pending \subseteq Requests /\ writing \subseteq Requests
    /\ events \subseteq [For : Attestation, Err : BOOLEAN]
    /\ disk \in State /\ sent \subseteq Attestation
    /\ ledger \in 0..MaxRound /\ durable \in 0..ledger
    /\ running \in BOOLEAN /\ quit \in BOOLEAN /\ crashes \in 0..MaxCrashes

Behind(a, st) ==
    a.Round < st.Round \/ (a.Round = st.Round /\ a.Step <= st.Step)

(* No vote leaves the node that its player, if it has to be restored, will *)
(* not know of: the write runs beside the loop and the player moves on     *)
(* meanwhile, but the vote waits (pseudonode.go:443).                      *)
PlayerKnowsVotes == \A a \in sent : Behind(a, status)

(* The restored player is never ahead of the ledger: a state of a round is *)
(* on disk only after the block of the round before (persistence.go:289).  *)
DiskWithinLedger == disk.Round <= durable + 1

(* Votes leave in the order the player cast them, and never two for one    *)
(* attest action, with writes, verification and the loop each at their own *)
(* pace and across a restart, whatever the restored player votes for next. *)
VotesInOrder ==
    [][\A a \in sent' \ sent, b \in sent : ~Behind(a, b)]_vars

(* While the service is not shut down the loop finishes every action it    *)
(* starts: nothing it waits for inside one (room for a write, a task that  *)
(* takes its error) waits for the loop in turn (actions.go, do).           *)
ActionEnds == act # noop ~> act = noop \/ quit

(* Shutdown returns, whatever the loops are doing when it is called, unless *)
(* a write has failed whose error the loop still has to pass on.            *)
ShutdownReturns == quit ~> ~running \/ ~quit \/ act.Err

(* "This method returns after all resources have been cleaned up": the      *)
(* comment on Shutdown (service.go:152), with writes that fail.             *)
ShutdownAlwaysReturns == quit ~> ~running \/ ~quit
=============================================================================
