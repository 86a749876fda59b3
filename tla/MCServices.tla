------------------------------ MODULE MCServices ------------------------------
(***************************************************************************)
(* Six components of a pod that neither call one another nor share state,  *)
(* in one run: a behaviour is one of them from its initial states on       *)
(* ("part"), the others stay where they began.  Their fairness is that of  *)
(* their own specifications (AccessFair, LookupFair, SubscriberFair,       *)
(* PubSubFair, SetupFair), asked only of the part that runs.               *)
(***************************************************************************)
EXTENDS AccessCache, RateLimit, TombstoneLookup, Subscriber, PubSub, SchemaSetup

VARIABLE part
Parts == {"access", "limit", "lookup", "subscriber", "pubsub", "setup"}

\* NIP-98 headers at both ends of the time window, of an admin and of another.
MCRequests ==
  {[kind |-> 27235, age |-> age, url |-> TRUE, method |-> TRUE, sig |-> TRUE, admin |-> admin] :
     age \in {-60, 61}, admin \in BOOLEAN}

ServicesVars ==
  <<part, AccessVars, LimitVars, LookupVars, SubscriberVars, PubSubVars, SetupVars>>

\* A part that does not run rests in one of its initial states.
ServicesInit ==
  /\ part \in Parts
  /\ AccessInit /\ LookupInit /\ SubscriberInit /\ PubSubInit
  /\ LimitInit /\ (part # "limit" => distributed)
  /\ SetupInit /\ (part # "setup" => trigger /\ \A id \in SearchRows : vector[id] = "null")

ServicesNext ==
  /\ UNCHANGED part
  /\ \/ /\ part = "access" /\ AccessNext
        /\ UNCHANGED <<LimitVars, LookupVars, SubscriberVars, PubSubVars, SetupVars>>
     \/ /\ part = "limit" /\ LimitNext
        /\ UNCHANGED <<AccessVars, LookupVars, SubscriberVars, PubSubVars, SetupVars>>
     \/ /\ part = "lookup" /\ LookupNext
        /\ UNCHANGED <<AccessVars, LimitVars, SubscriberVars, PubSubVars, SetupVars>>
     \/ /\ part = "subscriber" /\ SubscriberNext
        /\ UNCHANGED <<AccessVars, LimitVars, LookupVars, PubSubVars, SetupVars>>
     \/ /\ part = "pubsub" /\ PubSubNext
        /\ UNCHANGED <<AccessVars, LimitVars, LookupVars, SubscriberVars, SetupVars>>
     \/ /\ part = "setup" /\ SetupNext
        /\ UNCHANGED <<AccessVars, LimitVars, LookupVars, SubscriberVars, PubSubVars>>

ServicesFair ==
  /\ \A r \in AccessReplicas :
       /\ WF_AccessVars(part = "access" /\ Tick(r))
       /\ WF_AccessVars(part = "access" /\ LoadList(r))
       /\ WF_AccessVars(part = "access" /\ StoreSnapshot(r))
       /\ \A c \in AccessCallers : WF_AccessVars(part = "access" /\ TakeMutex(r, c))
  /\ \A e \in Checks : WF_LookupVars(part = "lookup" /\ Deadline(e))
  /\ \A r \in LiveRelays :
       /\ WF_SubscriberVars(part = "subscriber" /\ Connect(r))
       /\ WF_SubscriberVars(part = "subscriber" /\ Second(r))
       /\ WF_SubscriberVars(part = "subscriber" /\ Keep(r))
       /\ \A e \in Posts : WF_SubscriberVars(part = "subscriber" /\ Take(r, e))
  /\ \A p \in Pods :
       /\ WF_PubSubVars(part = "pubsub" /\ DoPublish(p))
       /\ WF_PubSubVars(part = "pubsub" /\ HandleMessage(p))
       /\ WF_PubSubVars(part = "pubsub" /\ Subscribe(p))
  /\ WF_SetupVars(part = "setup" /\ CloseRead)
  /\ \A i \in Instances : WF_SetupVars(part = "setup" /\ SetupStep(i))

ServicesSpec == ServicesInit /\ [][ServicesNext]_ServicesVars /\ ServicesFair

--------------------------------------------------------------------------------
\* Every part keeps its types; publishCh never holds more than its capacity.
TypeOK ==
  /\ part \in Parts
  /\ AccessTypeOK /\ LimitTypeOK /\ LookupTypeOK
  /\ SubscriberTypeOK /\ PubSubTypeOK /\ SetupTypeOK

\* Every replica that starts gets past both locks and ends up serving search for
\* good, however the starts overlap: the waiters of a lock never hold up the
\* index build of its holder (ddllock.go:37).
EveryReplicaServesSearch ==
  \A i \in Instances : <>[](part = "setup" => phase[i] = "active")
================================================================================
