-------------------------------- MODULE PubSub --------------------------------
(***************************************************************************)
(* Delivery between pods (internal/pubsub).  A pod that accepts an event   *)
(* shows it to its own subscribers and puts it in a buffer; a loop         *)
(* publishes the buffer on a Redis channel; every pod that is subscribed   *)
(* then shows what it did not publish itself to its own subscribers.       *)
(* Nothing is kept for a pod that is not subscribed.                       *)
(***************************************************************************)
EXTENDS Integers, Sequences, FiniteSets, SequencesExt

CONSTANTS Pods, Notes,
          PublishBufferSize,
          MaxPubSubFaults   \* bound

ASSUME PubSubAssumption == PublishBufferSize \in Nat \ {0} /\ MaxPubSubFaults \in Nat

VARIABLES
  publishCh,   \* [Pods -> events waiting to be published]
  channel,     \* [Pods -> messages Redis has sent to it], [pod, event]
  subscribed,  \* pods with a subscription
  shown,       \* [Pods -> events broadcast to its subscribers]
  acceptedAt,  \* <<pod, event>> accepted
  lostFor,     \* history: <<pod, event>> dropped on the way, for a known reason
  pubsubFaults

PubSubVars == <<publishCh, channel, subscribed, shown, acceptedAt, lostFor, pubsubFaults>>

PubSubInit ==
  /\ publishCh = [p \in Pods |-> <<>>] /\ channel = [p \in Pods |-> <<>>]
  /\ subscribed = {} /\ shown = [p \in Pods |-> {}]
  /\ acceptedAt = {} /\ lostFor = {} /\ pubsubFaults = 0

Others(p) == Pods \ {p}

\* Slip: one too many.
MutBufferHasRoom(p) == Len(publishCh[p]) <= PublishBufferSize
BufferHasRoom(p) == Len(publishCh[p]) < PublishBufferSize

\* The hook of StoreEvent or OnEphemeralEvent, and Publish: never blocks.
AcceptNote(p, e) ==
  /\ <<p, e>> \notin acceptedAt
  /\ acceptedAt' = acceptedAt \union {<<p, e>>}
  /\ shown' = [shown EXCEPT ![p] = @ \union {e}]
  /\ IF BufferHasRoom(p)
     THEN publishCh' = [publishCh EXCEPT ![p] = Append(@, e)] /\ UNCHANGED lostFor
     ELSE lostFor' = lostFor \union (Others(p) \X {e}) /\ UNCHANGED publishCh
  /\ UNCHANGED <<channel, subscribed, pubsubFaults>>

\* doPublish.
DoPublish(p) ==
  /\ publishCh[p] # <<>>
  /\ publishCh' = [publishCh EXCEPT ![p] = Tail(@)]
  /\ LET e == Head(publishCh[p]) IN
     \/ /\ channel' = [q \in Pods |-> IF q \in subscribed
                                      THEN Append(channel[q], [pod |-> p, event |-> e]) ELSE channel[q]]
        /\ lostFor' = lostFor \union ((Others(p) \ subscribed) \X {e})
        /\ UNCHANGED pubsubFaults
     \/ /\ pubsubFaults < MaxPubSubFaults /\ pubsubFaults' = pubsubFaults + 1
        /\ lostFor' = lostFor \union (Others(p) \X {e})
        /\ UNCHANGED channel
  /\ UNCHANGED <<subscribed, shown, acceptedAt>>

\* subscribeLoop: subscribe, or try again after DefaultRetryInterval.
Subscribe(p) ==
  /\ p \notin subscribed
  /\ subscribed' = subscribed \union {p}
  /\ UNCHANGED <<publishCh, channel, shown, acceptedAt, lostFor, pubsubFaults>>

InFlight(p) == {<<p, m.event>> : m \in Range(channel[p])}

Unsubscribed(p) ==
  /\ p \in subscribed
  /\ pubsubFaults < MaxPubSubFaults /\ pubsubFaults' = pubsubFaults + 1
  /\ subscribed' = subscribed \ {p}
  /\ channel' = [channel EXCEPT ![p] = <<>>]
  /\ lostFor' = lostFor \union InFlight(p)
  /\ UNCHANGED <<publishCh, shown, acceptedAt>>

\* The pod is killed: its buffer is lost with it.
PodRestarts(p) ==
  /\ pubsubFaults < MaxPubSubFaults /\ pubsubFaults' = pubsubFaults + 1
  /\ subscribed' = subscribed \ {p}
  /\ channel' = [channel EXCEPT ![p] = <<>>] /\ publishCh' = [publishCh EXCEPT ![p] = <<>>]
  /\ lostFor' = lostFor \union InFlight(p) \union (Others(p) \X Range(publishCh[p]))
  /\ UNCHANGED <<shown, acceptedAt>>

MutIsEcho(p, m) == <<p, m.event>> \in acceptedAt \/ m.pod \in subscribed
IsEcho(p, m) == m.pod = p
HandleMessage(p) ==
  /\ channel[p] # <<>>
  /\ channel' = [channel EXCEPT ![p] = Tail(@)]
  /\ shown' = IF IsEcho(p, Head(channel[p])) THEN shown
              ELSE [shown EXCEPT ![p] = @ \union {Head(channel[p]).event}]
  /\ UNCHANGED <<publishCh, subscribed, acceptedAt, lostFor, pubsubFaults>>

PubSubNext == \E p \in Pods :
  \/ DoPublish(p) \/ Subscribe(p) \/ Unsubscribed(p) \/ PodRestarts(p) \/ HandleMessage(p)
  \/ \E e \in Notes : AcceptNote(p, e)

\* The two loops of a pod run, and Redis answers.
PubSubFair == \A p \in Pods :
  WF_PubSubVars(DoPublish(p)) /\ WF_PubSubVars(HandleMessage(p)) /\ WF_PubSubVars(Subscribe(p))

PubSubSpec == PubSubInit /\ [][PubSubNext]_PubSubVars /\ PubSubFair

--------------------------------------------------------------------------------
Messages == [pod : Pods, event : Notes]
PubSubTypeOK ==
  /\ \A p \in Pods : publishCh[p] \in Seq(Notes) /\ Len(publishCh[p]) <= PublishBufferSize
  /\ \A p \in Pods : Range(channel[p]) \subseteq Messages
  /\ subscribed \subseteq Pods /\ shown \in [Pods -> SUBSET Notes]
  /\ acceptedAt \subseteq Pods \X Notes /\ lostFor \subseteq Pods \X Notes
  /\ pubsubFaults \in 0..MaxPubSubFaults

\* An event accepted by one pod is shown to the subscribers of every pod, unless
\* the buffer was full, publishing failed, the pod was not subscribed when it was
\* published, or one of the two was lost on the way (pubsub.go:117, 222).
NotesReachEveryPod ==
  \A p \in Pods, q \in Pods, e \in Notes :
    <<p, e>> \in acceptedAt ~> (e \in shown[q] \/ <<q, e>> \in lostFor)
================================================================================
