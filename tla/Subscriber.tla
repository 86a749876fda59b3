------------------------------ MODULE Subscriber ------------------------------
(***************************************************************************)
(* The live subscription to other relays (internal/haven/subscriber.go):   *)
(* one manager for each relay, which connects, subscribes, waits for the   *)
(* end of the subscription and then, after a delay that doubles, connects  *)
(* again; and one handler for each subscription, which stores what comes.  *)
(* The filter has no Since, so a new subscription brings everything that   *)
(* the relay holds once more.                                              *)
(***************************************************************************)
EXTENDS Integers, FiniteSets

CONSTANTS LiveRelays, Posts,
          MaxBackoff,                  \* 60 s
          MaxLinkFaults, MaxStoreFaults \* bounds

ASSUME SubscriberAssumption ==
  MaxBackoff \in Nat \ {0} /\ MaxLinkFaults \in Nat /\ MaxStoreFaults \in Nat

VARIABLES
  holds,     \* [LiveRelays -> posts to the owner there]
  link,      \* relaySubscription: "wait", "connect" or "subscribed"
  backoff,   \* backoffSecs
  wait,      \* seconds until reconnectAt
  sent,      \* sub.Events: posts on their way
  handling,  \* the post that processEvent is storing, or none
  kept,      \* our events
  known,     \* seenEvents
  refused,   \* history: posts our store refused, in this subscription
  linkFaults, storeFaults

SubscriberVars == <<holds, link, backoff, wait, sent, handling, kept, known, refused,
                    linkFaults, storeFaults>>

SubscriberInit ==
  /\ holds = [r \in LiveRelays |-> {}]
  /\ link = [r \in LiveRelays |-> "connect"]
  /\ backoff = [r \in LiveRelays |-> 1] /\ wait = [r \in LiveRelays |-> 0]
  /\ sent = [r \in LiveRelays |-> {}] /\ handling = [r \in LiveRelays |-> {}]
  /\ kept = {} /\ known = {} /\ refused = [r \in LiveRelays |-> {}]
  /\ linkFaults = 0 /\ storeFaults = 0

Post(r, e) ==
  /\ e \notin holds[r]
  /\ holds' = [holds EXCEPT ![r] = @ \union {e}]
  /\ sent' = IF link[r] = "subscribed" THEN [sent EXCEPT ![r] = @ \union {e}] ELSE sent
  /\ UNCHANGED <<link, backoff, wait, handling, kept, known, refused, linkFaults, storeFaults>>

--------------------------------------------------------------------------------
(* manageRelay *)

Connect(r) ==
  /\ link[r] = "connect"
  /\ link' = [link EXCEPT ![r] = "subscribed"]
  /\ backoff' = [backoff EXCEPT ![r] = 1]
  /\ sent' = [sent EXCEPT ![r] = holds[r]]
  /\ refused' = [refused EXCEPT ![r] = {}]
  /\ UNCHANGED <<holds, wait, handling, kept, known, linkFaults, storeFaults>>

Shorter(m, n) == IF m < n THEN m ELSE n
ScheduleReconnect(r) ==
  /\ backoff' = [backoff EXCEPT ![r] = Shorter(2 * @, MaxBackoff)]
  /\ wait' = [wait EXCEPT ![r] = Shorter(2 * backoff[r], MaxBackoff)]
  /\ link' = [link EXCEPT ![r] = "wait"]

ConnectFails(r) ==
  /\ link[r] = "connect" /\ linkFaults < MaxLinkFaults
  /\ linkFaults' = linkFaults + 1
  /\ ScheduleReconnect(r)
  /\ UNCHANGED <<holds, sent, handling, kept, known, refused, storeFaults>>

\* The handler stops with it: what it had not taken from sub.Events is dropped.
SubscriptionEnds(r) ==
  /\ link[r] = "subscribed" /\ linkFaults < MaxLinkFaults
  /\ linkFaults' = linkFaults + 1
  /\ ScheduleReconnect(r)
  /\ sent' = [sent EXCEPT ![r] = {}]
  /\ UNCHANGED <<holds, handling, kept, known, refused, storeFaults>>

Second(r) ==
  /\ link[r] = "wait"
  /\ wait' = [wait EXCEPT ![r] = @ - 1]
  /\ link' = [link EXCEPT ![r] = IF wait[r] = 1 THEN "connect" ELSE "wait"]
  /\ UNCHANGED <<holds, backoff, sent, handling, kept, known, refused, linkFaults, storeFaults>>

--------------------------------------------------------------------------------
(* handleEvents, processEvent *)

Take(r, e) ==
  /\ e \in sent[r] /\ handling[r] = {}
  /\ sent' = [sent EXCEPT ![r] = @ \ {e}]
  /\ handling' = IF e \in known THEN handling ELSE [handling EXCEPT ![r] = {e}]
  /\ UNCHANGED <<holds, link, backoff, wait, kept, known, refused, linkFaults, storeFaults>>

\* Another handler may have stored it meanwhile: storing it again is no error.
Keep(r) ==
  /\ handling[r] # {}
  /\ kept' = kept \union handling[r]
  /\ known' = known \union handling[r]
  /\ handling' = [handling EXCEPT ![r] = {}]
  /\ UNCHANGED <<holds, link, backoff, wait, sent, refused, linkFaults, storeFaults>>

MutKeepFails(r) ==
  /\ handling[r] # {} /\ storeFaults < MaxStoreFaults
  /\ storeFaults' = storeFaults + 1
  /\ refused' = [refused EXCEPT ![r] = @ \union handling[r]]
  /\ known' = known \union handling[r]
  /\ handling' = [handling EXCEPT ![r] = {}]
  /\ UNCHANGED <<holds, link, backoff, wait, sent, kept, linkFaults>>
KeepFails(r) ==
  /\ handling[r] # {} /\ storeFaults < MaxStoreFaults
  /\ storeFaults' = storeFaults + 1
  /\ refused' = [refused EXCEPT ![r] = @ \union handling[r]]
  /\ handling' = [handling EXCEPT ![r] = {}]
  /\ UNCHANGED <<holds, link, backoff, wait, sent, kept, known, linkFaults>>

\* cleanupSeenEvents, after an hour.
ForgetKnown(e) ==
  /\ e \in known
  /\ known' = known \ {e}
  /\ UNCHANGED <<holds, link, backoff, wait, sent, handling, kept, refused, linkFaults, storeFaults>>

SubscriberNext ==
  \/ \E r \in LiveRelays :
       \/ Connect(r) \/ ConnectFails(r) \/ SubscriptionEnds(r) \/ Second(r)
       \/ Keep(r) \/ KeepFails(r)
       \/ \E e \in Posts : Post(r, e) \/ Take(r, e)
  \/ \E e \in Posts : ForgetKnown(e)

\* Time passes, the manager of each relay runs, and a relay that is up answers.
SubscriberFair == \A r \in LiveRelays :
  /\ WF_SubscriberVars(Connect(r)) /\ WF_SubscriberVars(Second(r))
  /\ WF_SubscriberVars(Keep(r))
  /\ \A e \in Posts : WF_SubscriberVars(Take(r, e))

SubscriberSpec == SubscriberInit /\ [][SubscriberNext]_SubscriberVars /\ SubscriberFair

--------------------------------------------------------------------------------
SubscriberTypeOK ==
  /\ holds \in [LiveRelays -> SUBSET Posts] /\ sent \in [LiveRelays -> SUBSET Posts]
  /\ handling \in [LiveRelays -> SUBSET Posts] /\ refused \in [LiveRelays -> SUBSET Posts]
  /\ link \in [LiveRelays -> {"wait", "connect", "subscribed"}]
  /\ backoff \in [LiveRelays -> 1..MaxBackoff] /\ wait \in [LiveRelays -> 0..MaxBackoff]
  /\ \A r \in LiveRelays : link[r] = "wait" => wait[r] > 0
  /\ known \subseteq kept /\ kept \subseteq Posts
  /\ linkFaults \in 0..MaxLinkFaults /\ storeFaults \in 0..MaxStoreFaults

\* A post that a remote relay holds is stored here some time, unless our store
\* refuses it in the subscription that is still on: whatever was on its way when
\* a subscription ended, or was refused before it ended, comes again with the
\* next (subscriber.go:231, 330), two handlers that meet at the same post
\* do not make each other skip it, and a manager never stops trying.
HeldPostsAreStored ==
  \A r \in LiveRelays, e \in Posts : e \in holds[r] ~> (e \in kept \/ e \in refused[r])
================================================================================
