------------------------ MODULE ShuttleRegistryProofs ------------------------
(***************************************************************************)
(* Proofs about the shuttle connection registry, for every set of handles  *)
(* and senders, every channel capacity and every bound.                    *)
(***************************************************************************)
EXTENDS ShuttleRegistry, TLAPS

USE HandlesAssumption, BoundsAssumption

(* A sender inside sendMessage's select holds a connection that            *)
(* sendShuttleCommand found in the map, and has issued its command.        *)
SendersHoldConn ==
    \A s \in Senders :
        spc[s] = "send" => target[s] \in Conns /\ sent[s] \in 1..MaxSends

(* An entry of the map names a connection created under that handle whose *)
(* close function has not finished.                                         *)
EntriesLive ==
    \A h \in Handles :
        shuttles[h] # NoConn =>
            /\ shuttles[h] < nextConn
            /\ conn[shuttles[h]].handle = h
            /\ conn[shuttles[h]].stage \in {"open", "ending", "closing"}

(* The inductive invariant behind OpenSessionRegistered.                   *)
IInv == TypeOK /\ SendersHoldConn /\ EntriesLive /\ OpenSessionRegistered
-----------------------------------------------------------------------------
\* The initial state satisfies the invariant.
LEMMA InitIInv == Init => IInv
BY DEF Init, IInv, TypeOK, SendersHoldConn, EntriesLive, OpenSessionRegistered,
       Conns, NoConn, Stages

\* Every step of the registry, its sessions and its senders keeps IInv.
LEMMA IInvStep == IInv /\ [Next]_vars => IInv'
<1> SUFFICES ASSUME IInv, [Next]_vars PROVE IInv'
  OBVIOUS
<1> USE DEF IInv, TypeOK, Conns, NoConn, Stages
<1>1. ASSUME NEW h \in Handles, Register(h) PROVE IInv'
  <2>1. TypeOK'
    BY <1>1 DEF Register, senderVars
  <2>2. SendersHoldConn'
    BY <1>1 DEF Register, senderVars, SendersHoldConn
  <2>3. EntriesLive'
    BY <1>1 DEF Register, EntriesLive
  <2>4. OpenSessionRegistered'
    BY <1>1 DEF Register, EntriesLive, OpenSessionRegistered
  <2> QED BY <2>1, <2>2, <2>3, <2>4
<1>2. ASSUME NEW c \in Conns, Disconnect(c) PROVE IInv'
  <2>1. TypeOK'
    BY <1>2 DEF Disconnect, senderVars
  <2>2. SendersHoldConn'
    BY <1>2 DEF Disconnect, senderVars, SendersHoldConn
  <2>3. EntriesLive'
    BY <1>2 DEF Disconnect, EntriesLive
  <2>4. OpenSessionRegistered'
    BY <1>2 DEF Disconnect, OpenSessionRegistered
  <2> QED BY <2>1, <2>2, <2>3, <2>4
<1>3. ASSUME NEW c \in Conns, CloseChannel(c) PROVE IInv'
  <2>1. TypeOK'
    BY <1>3 DEF CloseChannel, senderVars
  <2>2. SendersHoldConn'
    BY <1>3 DEF CloseChannel, senderVars, SendersHoldConn
  <2>3. EntriesLive'
    BY <1>3 DEF CloseChannel, EntriesLive
  <2>4. OpenSessionRegistered'
    BY <1>3 DEF CloseChannel, OpenSessionRegistered
  <2> QED BY <2>1, <2>2, <2>3, <2>4
<1>4. ASSUME NEW c \in Conns, Unregister(c) PROVE IInv'
  <2>1. TypeOK'
    BY <1>4 DEF Unregister, senderVars
  <2>2. SendersHoldConn'
    BY <1>4 DEF Unregister, senderVars, SendersHoldConn
  <2>3. EntriesLive'
    BY <1>4 DEF Unregister, EntriesLive
  <2>4. OpenSessionRegistered'
    BY <1>4 DEF Unregister, EntriesLive, OpenSessionRegistered
  <2> QED BY <2>1, <2>2, <2>3, <2>4
<1>5. ASSUME NEW c \in Conns, Deliver(c) PROVE IInv'
  <2>1. TypeOK'
    BY <1>5 DEF Deliver, senderVars
  <2>2. SendersHoldConn'
    BY <1>5 DEF Deliver, senderVars, SendersHoldConn
  <2>3. EntriesLive'
    BY <1>5 DEF Deliver, EntriesLive
  <2>4. OpenSessionRegistered'
    BY <1>5 DEF Deliver, OpenSessionRegistered
  <2> QED BY <2>1, <2>2, <2>3, <2>4
<1>6. ASSUME NEW s \in Senders, Lookup(s) PROVE IInv'
  <2>1. PICK h \in Handles :
          /\ sent' = [sent EXCEPT ![s] = @ + 1]
          /\ IF shuttles[h] = NoConn
             THEN UNCHANGED <<spc, target>>
             ELSE /\ spc' = [spc EXCEPT ![s] = "send"]
                  /\ target' = [target EXCEPT ![s] = shuttles[h]]
    BY <1>6 DEF Lookup
  <2>2. EntriesLive' /\ OpenSessionRegistered'
    BY <1>6 DEF Lookup, EntriesLive, OpenSessionRegistered
  <2>3. CASE shuttles[h] = NoConn
    BY <1>6, <2>1, <2>2, <2>3 DEF Lookup, SendersHoldConn
  <2>4. CASE shuttles[h] # NoConn
    <3>1. spc[s] = "idle" /\ sent[s] \in 0..MaxSends - 1 /\ shuttles[h] \in Conns
      BY <1>6, <2>4 DEF Lookup
    <3>2. spc' = [spc EXCEPT ![s] = "send"] /\ target' = [target EXCEPT ![s] = shuttles[h]]
      BY <2>1, <2>4
    <3>3. TypeOK'
      BY <1>6, <2>1, <3>1, <3>2 DEF Lookup
    <3>4. SendersHoldConn'
      BY <2>1, <3>1, <3>2 DEF SendersHoldConn
    <3> QED BY <2>2, <3>3, <3>4
  <2> QED BY <2>3, <2>4
<1>7. ASSUME NEW s \in Senders, SendQueued(s) PROVE IInv'
  <2>1. target[s] \in Conns /\ sent[s] \in 1..MaxSends
    BY <1>7 DEF SendQueued, SendersHoldConn
  <2> DEFINE c == target[s]
              q == Append(cmds[c], <<s, sent[s]>>)
  <2>2. /\ cmds[c] \in Seq(Commands) /\ Len(cmds[c]) < Cap
        /\ <<s, sent[s]>> \in Commands
    BY <1>7, <2>1 DEF SendQueued, TypeOK, Commands
  <2>3. q \in Seq(Commands) /\ Len(q) <= Cap
    BY <2>2
  <2>4. cmds' = [cmds EXCEPT ![c] = q]
    BY <1>7 DEF SendQueued
  <2>5. TypeOK'
    BY <1>7, <2>1, <2>3, <2>4 DEF SendQueued, TypeOK
  <2> QED
    BY <1>7, <2>5 DEF SendQueued, SendersHoldConn, EntriesLive,
                      OpenSessionRegistered
<1>8. ASSUME NEW s \in Senders, SendClosed(s) PROVE IInv'
  BY <1>8 DEF SendClosed, SendersHoldConn, EntriesLive, OpenSessionRegistered
<1>9. CASE Finished \/ UNCHANGED vars
  BY <1>9 DEF Finished, vars, SendersHoldConn, EntriesLive,
             OpenSessionRegistered
<1> QED
  BY <1>1, <1>2, <1>3, <1>4, <1>5, <1>6, <1>7, <1>8, <1>9 DEF Next, Session, Send

\* IInv holds in every reachable state.
THEOREM IInvInvariant == Spec => []IInv
BY InitIInv, IInvStep, PTL DEF Spec

(* Type correctness of the registry: the map, the channels and the senders' *)
(* locals of sendShuttleCommand keep their types in every reachable state.  *)
THEOREM TypeCorrect == Spec => []TypeOK
BY IInvInvariant, PTL DEF IInv

(* registerShuttleConnection and the close function keep every session     *)
(* whose writer may still run registered under its own handle: a live      *)
(* connection is never replaced or deleted from cm.shuttles.               *)
THEOREM RegistryConsistent == Spec => []OpenSessionRegistered
BY IInvInvariant, PTL DEF IInv
=============================================================================
