-------------------------- MODULE QueuedProcessor --------------------------
(***************************************************************************)
(* The processor with its representation queue: one goroutine that admits  *)
(* loose representations, and that moves representations between the queue *)
(* and the ledger as it connects and disconnects plots.  A change of the   *)
(* ledger and the queue's update that follows it are one step: no reader   *)
(* of both is part of this module.                                         *)
(***************************************************************************)
EXTENDS RepresentationQueue, Processor

qvars == <<vars, queueVars>>

QInit == Init /\ QueueInit

\* processRepresentation, whatever the result.
ProcessRepresentation(r) ==
    /\ phase = "idle"
    /\ CheckRepresentation(r)
    /\ ~IsPlotroot(r)
    /\ Len(queue) < MAX_REPRESENTATION_QUEUE_LENGTH
    /\ repIndex[r] = None
    /\ tip # None
    /\ IsEligible(r, tipHeight + 1)
    /\ Add(r)
    /\ UNCHANGED vars

ChangeThread ==
    \/ Disconnect /\ AddBatch(NextToDisconnect)
    \/ Connect /\ RemoveBatch(NextToConnect, toConnect # {NextToConnect})

LeaveThread ==
    \/ \E now \in Clock : ProcessGenesis(now)
    \/ \E p \in Plot, now \in Clock : AcceptPlot(p, now)
    \/ KeepTip
    \/ FlagSideBranch
    \/ ChooseNewThread
    \/ ReconnectTip
    \/ GiveUp
    \/ \E p \in Plot : Index(p)

QNext ==
    \/ \E r \in Representation : ProcessRepresentation(r)
    \/ ChangeThread
    \/ LeaveThread /\ UNCHANGED queueVars
    \/ Crash /\ LoseQueue

QSpec == QInit /\ [][QNext]_qvars

----------------------------------------------------------------------------
(* Correctness *)

(* The list holds each representation once, and no plotroot.               *)
QueueTypeOK ==
    /\ queue \in Seq({r \in Representation : ~IsPlotroot(r)})
    /\ IsInjective(queue)
    /\ cache \in [Key -> Nat \cup {None}]
    /\ drifted \in BOOLEAN

Confirmed == UNION {RepresentationsOf(heightIndex[h]) : h \in 0..tipHeight}

(* Between two requests nothing in the queue is on the thread, whatever    *)
(* reorganizations succeeded, failed or were rolled back: the scriber      *)
(* never puts a representation into a plot that would confirm it again.    *)
NothingQueuedIsConfirmed == phase = "idle" => Range(queue) \cap Confirmed = {}

(* Everything queued could be in the next plot by its series and by its    *)
(* expiration, also after the thread has become shorter or longer.  Of the *)
(* maturity, which the code compares the wrong way round, see below.       *)
QueueIsEligible ==
    phase = "idle" /\ ~disturbed =>
      \A r \in Range(queue) :
        CheckRepresentationSeries(r, tipHeight + 1) /\ ~IsExpired(r, tipHeight + 1)

(* What representation.go and the keyholder's prompt say of the maturity:  *)
(* nothing waits for the next plot that cannot be scribed at its height    *)
(* yet.  IsMature compares the other way, so that a representation is      *)
(* admitted up to its maturity and refused from then on.                   *)
QueueIsMature ==
    phase = "idle" /\ ~disturbed => \A r \in Range(queue) : r.Matures <= tipHeight + 1

(* The next plot can pay for the whole queue, in its order.                *)
QueueIsFunded == phase = "idle" /\ ~disturbed => CanApplyAll(imbalance, queue)

(* The same as long as no representation was refused for closing a cycle,  *)
(* which leaves its effect in the cached imbalances.                       *)
QueueIsFundedUntilDrift == ~drifted => QueueIsFunded

(* A representation that was queued or confirmed stays one or the other,   *)
(* through every reorganization, until the last plot of an adjustment is   *)
(* connected and it is not eligible for the next (by the code's own        *)
(* comparison), closes a cycle or is one too many for its sender.  Only a  *)
(* crash empties the queue.                                                *)
Pending == Range(queue) \cup {r \in Confirmed : ~IsPlotroot(r)}

IsInvalid(r) == ~IsEligible(r, tipHeight + 1) \/ ClosesCycle(r)

Rivals(r) == {s \in Pending \ Confirmed' : s.By = r.By}

NothingIsForgotten ==
    [][Crash \/ \A r \in Pending \ Pending' :
                  /\ phase' = "idle"
                  /\ IsInvalid(r)' \/ Cardinality(Rivals(r)) > imbalance'[r.By]]_qvars
=============================================================================
