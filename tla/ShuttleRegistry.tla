--------------------------- MODULE ShuttleRegistry ---------------------------
(***************************************************************************)
(* The shuttle connection registry of estuary's ContentManager             *)
(* (src/unnamed/part_000, lines 286-348 and 409-436).                      *)
(*                                                                         *)
(* A shuttle's websocket session registers a shuttleConnection under its   *)
(* handle, in a map guarded by shuttlesLk; it gets back the buffered       *)
(* command channel `cmds` and a close function.  Senders look the handle   *)
(* up under the lock, release it, and then select between a free slot of   *)
(* `cmds` and the closed `closing` channel.  The session's writer          *)
(* goroutine drains `cmds` to the websocket until the session's context    *)
(* is cancelled; then the deferred close function closes `closing` and,   *)
(* under the lock, deletes the map entry if it still is its own.           *)
(*                                                                         *)
(* Every critical section of shuttlesLk touches only the map and is one    *)
(* step; the steps outside the lock are steps of their own.                *)
(***************************************************************************)
EXTENDS Integers, Sequences, FiniteSets

CONSTANTS
    Handles,     \* shuttle handles
    Senders,     \* goroutines calling sendShuttleCommand
    MaxConns,    \* number of shuttleConnection values ever created
    Cap,         \* capacity of the cmds channel (32 in the code)
    MaxSends     \* commands each sender issues

ASSUME HandlesAssumption == Handles # {}
ASSUME BoundsAssumption ==
    /\ MaxConns \in Nat \ {0}
    /\ Cap \in Nat \ {0}
    /\ MaxSends \in Nat

VARIABLES
    shuttles,   \* cm.shuttles: handle -> connection, or NoConn
    conn,       \* per connection: its handle and the life stage of its session
    cmds,       \* per connection: the commands in its cmds channel
    nextConn,   \* the next connection to be created
    spc,        \* per sender: "idle" or "send" (in sendMessage's select)
    target,     \* per sender: the connection read under the lock
    sent        \* per sender: commands issued so far

vars == <<shuttles, conn, cmds, nextConn, spc, target, sent>>

Conns == 1..MaxConns
NoConn == 0

(* Stages of a session: "new" (never registered), "open" (writer running), *)
(* "ending" (context cancelled, writer stopped, close function not yet     *)
(* run), "closing" (closing channel closed, entry not yet deleted),        *)
(* "done" (close function returned).                                        *)
Stages == {"new", "open", "ending", "closing", "done"}

Commands == Senders \X (1..MaxSends)

(* The `closing` channel of connection c has been closed. *)
Closed(c) == conn[c].stage \in {"closing", "done"}

(* Types of the registry's state; a command channel never holds more than *)
(* its capacity, which the blocking send of Go channels guarantees.        *)
TypeOK ==
    /\ shuttles \in [Handles -> Conns \cup {NoConn}]
    /\ conn \in [Conns -> [handle : Handles, stage : Stages]]
    /\ cmds \in [Conns -> Seq(Commands)]
    /\ \A c \in Conns : Len(cmds[c]) <= Cap
    /\ nextConn \in 1..MaxConns + 1
    /\ spc \in [Senders -> {"idle", "send"}]
    /\ target \in [Senders -> Conns \cup {NoConn}]
    /\ sent \in [Senders -> 0..MaxSends]

Init ==
    /\ shuttles = [h \in Handles |-> NoConn]
    /\ conn = [c \in Conns |-> [handle |-> CHOOSE h \in Handles : TRUE,
                                  stage |-> "new"]]
    /\ cmds = [c \in Conns |-> <<>>]
    /\ nextConn = 1
    /\ spc = [s \in Senders |-> "idle"]
    /\ target = [s \in Senders |-> NoConn]
    /\ sent = [s \in Senders |-> 0]

senderVars == <<spc, target, sent>>

-----------------------------------------------------------------------------
(* registerShuttleConnection without the duplicate check: a second session *)
(* replaces the first one's entry.                                          *)
RegisterOverwrite(h) ==
    /\ nextConn <= MaxConns
    /\ shuttles' = [shuttles EXCEPT ![h] = nextConn]
    /\ conn' = [conn EXCEPT ![nextConn] = [handle |-> h, stage |-> "open"]]
    /\ nextConn' = nextConn + 1
    /\ UNCHANGED <<cmds, senderVars>>

(* registerShuttleConnection(h): under the lock, refused when an entry for *)
(* h exists (a refusal changes nothing); otherwise a new connection with   *)
(* an empty cmds channel is stored under h and the session starts its     *)
(* writer.                                                                  *)
Register(h) ==
    /\ nextConn <= MaxConns
    /\ shuttles[h] = NoConn
    /\ shuttles' = [shuttles EXCEPT ![h] = nextConn]
    /\ conn' = [conn EXCEPT ![nextConn] = [handle |-> h, stage |-> "open"]]
    /\ nextConn' = nextConn + 1
    /\ UNCHANGED <<cmds, senderVars>>

(* The session's read loop ends (the shuttle disconnects): the deferred   *)
(* cancel stops the writer goroutine.                                       *)
Disconnect(c) ==
    /\ conn[c].stage = "open"
    /\ conn' = [conn EXCEPT ![c].stage = "ending"]
    /\ UNCHANGED <<shuttles, cmds, nextConn, senderVars>>

(* First statement of the close function: close(d.closing), outside the   *)
(* lock.                                                                    *)
CloseChannel(c) ==
    /\ conn[c].stage = "ending"
    /\ conn' = [conn EXCEPT ![c].stage = "closing"]
    /\ UNCHANGED <<shuttles, cmds, nextConn, senderVars>>

(* Rest of the close function, under the lock: delete the entry of the    *)
(* handle only if it is this connection.                                    *)
Unregister(c) ==
    LET h == conn[c].handle IN
    /\ conn[c].stage = "closing"
    /\ shuttles' = IF shuttles[h] = c
                   THEN [shuttles EXCEPT ![h] = NoConn]
                   ELSE shuttles
    /\ conn' = [conn EXCEPT ![c].stage = "done"]
    /\ UNCHANGED <<cmds, nextConn, senderVars>>

(* The writer goroutine takes the oldest command and writes it out.       *)
Deliver(c) ==
    /\ conn[c].stage = "open"
    /\ cmds[c] # <<>>
    /\ cmds' = [cmds EXCEPT ![c] = Tail(@)]
    /\ UNCHANGED <<shuttles, conn, nextConn, senderVars>>

-----------------------------------------------------------------------------
(* sendShuttleCommand(h, cmd), first part: read the entry under the lock.  *)
(* No entry: ErrNoShuttleConnection, the call is over.                     *)
Lookup(s) ==
    /\ spc[s] = "idle"
    /\ sent[s] < MaxSends
    /\ \E h \in Handles :
         /\ sent' = [sent EXCEPT ![s] = @ + 1]
         /\ IF shuttles[h] = NoConn
            THEN UNCHANGED <<spc, target>>
            ELSE /\ spc' = [spc EXCEPT ![s] = "send"]
                 /\ target' = [target EXCEPT ![s] = shuttles[h]]
    /\ UNCHANGED <<shuttles, conn, cmds, nextConn>>

(* The send case taken without regard to the channel's capacity.          *)
SendQueuedUnbounded(s) ==
    LET c == target[s] IN
    /\ spc[s] = "send"
    /\ cmds' = [cmds EXCEPT ![c] = Append(@, <<s, sent[s]>>)]
    /\ spc' = [spc EXCEPT ![s] = "idle"]
    /\ target' = [target EXCEPT ![s] = NoConn]
    /\ UNCHANGED <<shuttles, conn, nextConn, sent>>

(* sendMessage's select, case `dc.cmds <- cmd`: ready when the channel has *)
(* room, whether or not `closing` is closed; returns nil.                 *)
SendQueued(s) ==
    LET c == target[s] IN
    /\ spc[s] = "send"
    /\ Len(cmds[c]) < Cap
    /\ cmds' = [cmds EXCEPT ![c] = Append(@, <<s, sent[s]>>)]
    /\ spc' = [spc EXCEPT ![s] = "idle"]
    /\ target' = [target EXCEPT ![s] = NoConn]
    /\ UNCHANGED <<shuttles, conn, nextConn, sent>>

(* sendMessage without the `<-dc.closing` case.                           *)
SendClosedNever(s) == FALSE

(* sendMessage's select, case `<-dc.closing`: returns                      *)
(* ErrNoShuttleConnection.                                                  *)
SendClosed(s) ==
    /\ spc[s] = "send"
    /\ Closed(target[s])
    /\ spc' = [spc EXCEPT ![s] = "idle"]
    /\ target' = [target EXCEPT ![s] = NoConn]
    /\ UNCHANGED <<shuttles, conn, cmds, nextConn, sent>>

(* The bounds are used up: no connection is left to create and every     *)
(* sender has issued all its commands or sits in sendMessage's select; the *)
(* environment idles.  A sender that stays blocked is caught by            *)
(* SendsReturn.                                                             *)
Finished ==
    /\ nextConn > MaxConns
    /\ \A s \in Senders : sent[s] = MaxSends \/ spc[s] = "send"
    /\ UNCHANGED vars

Session(c) == Disconnect(c) \/ CloseChannel(c) \/ Unregister(c) \/ Deliver(c)
Send(s) == Lookup(s) \/ SendQueued(s) \/ SendClosed(s)

Next ==
    \/ \E h \in Handles : Register(h)
    \/ \E c \in Conns : Session(c)
    \/ \E s \in Senders : Send(s)
    \/ Finished

(* Goroutines are scheduled fairly: a sender's blocked select proceeds     *)
(* once a case stays ready, the writer drains its channel, and the         *)
(* deferred close function runs to its end.  A shuttle may stay connected  *)
(* forever, so Disconnect is not fair.                                      *)
Fairness ==
    /\ \A s \in Senders : WF_vars(SendQueued(s) \/ SendClosed(s))
    /\ \A c \in Conns : WF_vars(Deliver(c))
                        /\ WF_vars(CloseChannel(c))
                        /\ WF_vars(Unregister(c))

Spec == Init /\ [][Next]_vars
FairSpec == Spec /\ Fairness

-----------------------------------------------------------------------------
(* Whenever a session's writer may still run or its close function has not *)
(* closed `closing` yet, the map holds that very connection under its      *)
(* handle: registerShuttleConnection never lets a second session replace  *)
(* a live one, and no close function removes an entry that is not its own. *)
OpenSessionRegistered ==
    \A c \in Conns :
        conn[c].stage \in {"open", "ending"} => shuttles[conn[c].handle] = c

(* Every call of sendShuttleCommand returns: a sender blocked in           *)
(* sendMessage's select on a full channel is released, by the writer or by *)
(* the closing channel of a session that ended.                             *)
SendsReturn == \A s \in Senders : spc[s] = "send" ~> spc[s] = "idle"
=============================================================================
