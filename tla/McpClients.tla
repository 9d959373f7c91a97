----------------------------- MODULE McpClients -----------------------------
(***************************************************************************)
(* One client of MCPManager: the operations an administrator calls, the    *)
(* connection attempts they make outside the manager's lock, the health    *)
(* monitors, and the reconnects the monitors spawn.  An operation is a     *)
(* task.  Critical sections of m.mu are one step, except where code waits  *)
(* for another lock inside: RemoveClient and DisableClient call            *)
(* StopMonitoring with m.mu held, StartMonitoring calls Start with the     *)
(* lock of the HealthMonitorManager held.  A task lends its name to the    *)
(* config it brings, the connection it opens and the monitor it starts.    *)
(***************************************************************************)
EXTENDS Naturals, FiniteSets

CONSTANTS
  Tasks,        \* bound: the operations, reconnects of monitors included
  Boot,         \* the AddClient of connectConfiguredClients
  Ops,          \* the operations an administrator may call
  MaxFailures,  \* MaxConsecutiveFailures
  None

ASSUME TaskAssumption == Boot \in Tasks /\ None \notin Tasks
AllOps == {"add", "remove", "disable", "enable", "reconnect", "update", "reauth", "cleanup"}
ASSUME OpsAssumption == Ops \subseteq AllOps
ASSUME FailuresAssumption == MaxFailures \in Nat \ {0}

VARIABLES
  entry,       \* the client's entry in clientMap
  disabled,    \* the configs with Disabled set
  open,        \* connections not closed
  mu,          \* who waits inside m.mu for another lock
  hmm,         \* who waits inside the HealthMonitorManager's lock
  guard,       \* who is stored in reconnectingClients
  task,        \* the operation each task performs and how far it is
  running,     \* the health monitors started and not stopped
  monitor,     \* where each is with a check or a reconnect, and its failures
  registered,  \* the monitor in HealthMonitorManager.monitors
  wish,        \* history: "off" from a DisableClient that no AddClient or EnableClient
               \* runs along with, until the client is asked for again
  disturbed    \* history: "overlap", an AddClient ran along another attempt;
               \* "revived", a reconnect brought back a removed or disabled client

locks == <<mu, hmm, guard>>
monitors == <<running, monitor, registered>>
history == <<wish, disturbed>>
vars == <<entry, disabled, open, locks, task, monitors, history>>

Entry(state, conn, config) == [state |-> state, conn |-> conn, config |-> config]
Absent == Entry("absent", None, None)
Here == entry.state # "absent"
Disabled == entry.state = "disabled"
Idle == [op |-> "none", at |-> "unused", config |-> None, from |-> None]
Quiet == [at |-> "rest", fails |-> 0]
Over == [op |-> "none", at |-> "done", config |-> None, from |-> None]

Inside == {"connect", "dial", "register"}
Pending(t) == task[t].at \notin {"unused", "done"}
Adding(t) == Pending(t) /\ task[t].op \in {"add", "boot"}
Enabling(t) == Pending(t) /\ task[t].op = "enable"
Resting == \A t \in Tasks : ~Pending(t)

Places == {"unused", "sane", "guard", "lookup", "undo", "retain", "mark", "restore", "edit",
           "watch", "start", "lock", "stop", "done"} \union Inside
Names == Tasks \union {None}
TaskRecords == [op : {"none", "boot", "heal"} \union AllOps, at : Places, config : Names, from : Names]
MonitorRecords == [at : {"rest", "good", "bad", "healing"}, fails : 0 .. MaxFailures]

\* Every variable is well formed, and no lock or guard outlives its task.
TypeOK ==
  /\ entry \in [state : {"absent", "new", "connected", "disconnected", "disabled"},
                conn : Names, config : Names]
  /\ Here => entry.config \in Tasks
  /\ disabled \subseteq Tasks /\ open \subseteq Tasks
  /\ mu \in Names /\ hmm \in Names /\ guard \in Names
  /\ \A t \in Tasks : t \in {mu, hmm, guard} => Pending(t)
  /\ task \in [Tasks -> TaskRecords]
  /\ running \subseteq Tasks
  /\ monitor \in [Tasks -> MonitorRecords]
  /\ registered \in Names
  /\ wish \in {"off", "none"} /\ disturbed \subseteq {"overlap", "revived"}

Init ==
  /\ entry = Entry("new", None, Boot) /\ disabled = {} /\ open = {}
  /\ mu = None /\ hmm = None /\ guard = None
  /\ task = [t \in Tasks |-> IF t = Boot THEN [op |-> "boot", at |-> "connect", config |-> t, from |-> None]
                                         ELSE Idle]
  /\ running = {} /\ monitor = [t \in Tasks |-> Quiet] /\ registered = None
  /\ wish = "none" /\ disturbed = {}

At(t, there) == task[t].at = there
Op(t) == task[t].op
To(t, there) == task' = [task EXCEPT ![t].at = there]
Free == mu = None

-----------------------------------------------------------------------------
\* Variant: as if the guard were not deleted on the way out.
FinishGuarded(t, ok) ==
  /\ task' = [task EXCEPT ![t] = Over]
  /\ monitor' = IF Op(t) # "heal" THEN monitor
                ELSE [monitor EXCEPT ![task[t].from] =
                        [at |-> "rest", fails |-> IF ok THEN 0 ELSE @.fails]]
  /\ UNCHANGED guard

\* The operation returns: the deferred deletion of the guard, and what
\* attemptReconnect does on its way out.
Finish(t, ok) ==
  /\ task' = [task EXCEPT ![t] = Over]
  /\ monitor' = IF Op(t) # "heal" THEN monitor
                ELSE [monitor EXCEPT ![task[t].from] =
                        [at |-> "rest", fails |-> IF ok THEN 0 ELSE @.fails]]
  /\ guard' = IF guard = t THEN None ELSE guard

Go(t, there) == To(t, there) /\ UNCHANGED <<monitor, guard>>

\* A call begins with its first step.
Turn(t, op, there) ==
  task' = [task EXCEPT ![t] = [op |-> op, at |-> there, config |-> task[t].config, from |-> task[t].from]]
Begins(t, op) == At(t, "unused") /\ op \in Ops
Went(t, op, there, config, from) ==
  /\ task' = [task EXCEPT ![t] = [op |-> op, at |-> there, config |-> config, from |-> from]]
  /\ UNCHANGED <<monitor, guard>>

\* AddClient: a placeholder, or a dormant one for a disabled client.
AddClient(t) ==
  /\ Begins(t, "add") /\ Free
  /\ IF Here
     THEN Finish(t, FALSE) /\ UNCHANGED <<entry, disabled>>
     ELSE \/ /\ entry' = Entry("new", None, t)
             /\ Went(t, "add", "connect", t, None) /\ UNCHANGED disabled
          \/ /\ entry' = Entry("disabled", None, t)
             /\ disabled' = disabled \union {t}
             /\ Finish(t, TRUE)
  /\ UNCHANGED <<open, mu, hmm, running, registered, wish>>

\* EnableClient clears the flag before it asks for the guard.
EnableClient(t) ==
  /\ Begins(t, "enable") /\ Free
  /\ IF Disabled
     THEN /\ disabled' = disabled \ {entry.config}
          /\ Went(t, "enable", "guard", entry.config, None)
          /\ wish' = "none"
     ELSE Finish(t, FALSE) /\ UNCHANGED <<disabled, wish>>
  /\ UNCHANGED <<entry, open, mu, hmm, running, registered>>

\* LoadOrStore on reconnectingClients
TakeGuard(t, op, there) ==
  /\ IF guard # None
     THEN Finish(t, FALSE)
     ELSE /\ guard' = t
          /\ Turn(t, op, there) /\ UNCHANGED monitor
  /\ UNCHANGED <<entry, disabled, open, mu, hmm, running, registered, wish>>

Guarded(t) ==
  \/ Begins(t, "disable") /\ TakeGuard(t, "disable", "lock")
  \/ Begins(t, "update") /\ TakeGuard(t, "update", "edit")
  \/ \E op \in {"reconnect", "reauth"} : Begins(t, op) /\ TakeGuard(t, op, "lookup")
  \/ At(t, "guard") /\ TakeGuard(t, Op(t), IF Op(t) = "enable" THEN "connect" ELSE "lookup")

\* ReconnectClient takes the entry's config; UpdateClientConnection takes a copy
\* of it, and remembers the one it came from.
Lookup(t) ==
  /\ At(t, "lookup") /\ Free
  /\ IF ~Here
     THEN Finish(t, FALSE) /\ UNCHANGED disabled
     ELSE IF Op(t) = "reauth"
     THEN /\ disabled' = IF entry.config \in disabled THEN disabled \union {t} ELSE disabled
          /\ Went(t, "reauth", "connect", t, entry.config)
     ELSE Went(t, Op(t), "connect", entry.config, task[t].from) /\ UNCHANGED disabled
  /\ UNCHANGED <<entry, open, mu, hmm, running, registered, wish>>

\* UpdateClient replaces the config, the flag included, and leaves the state alone.
UpdateClient(t) ==
  /\ At(t, "edit") /\ Free
  /\ IF Here
     THEN /\ entry' = Entry(entry.state, entry.conn, t)
          /\ \/ disabled' = disabled \union {t} /\ UNCHANGED wish
             \/ wish' = "none" /\ UNCHANGED disabled
     ELSE UNCHANGED <<entry, disabled, wish>>
  /\ Finish(t, Here)
  /\ UNCHANGED <<open, mu, hmm, running, registered>>

-----------------------------------------------------------------------------
\* connectToMCPClient has failed: what its caller does about it.
Failed(t) ==
  CASE Op(t) \in {"add", "boot"} -> Go(t, "undo")
    [] Op(t) = "enable" -> Go(t, "mark")
    [] Op(t) = "reauth" -> Go(t, "restore")
    [] OTHER -> Finish(t, FALSE)

\* connectToMCPClient, the first lock: the old connection is closed, and the
\* entry is made anew even if there was none.
Connect(t) ==
  /\ At(t, "connect") /\ Free
  /\ IF Disabled /\ task[t].config \in disabled
     THEN Failed(t) /\ UNCHANGED <<entry, open>>
     ELSE /\ open' = open \ {entry.conn}
          /\ entry' = Entry("disconnected", None, task[t].config)
          /\ Go(t, "dial")
  /\ UNCHANGED <<disabled, mu, hmm, running, registered, wish>>

\* The transport, the handshake and list_tools, outside the lock.  A plugin may
\* pretend success without a connection.
Dial(t) ==
  /\ At(t, "dial")
  /\ \/ open' = open \union {t} /\ Go(t, "register")
     \/ Go(t, "register") /\ UNCHANGED open
     \/ Failed(t) /\ UNCHANGED open
  /\ UNCHANGED <<entry, disabled, mu, hmm, running, registered, wish>>

\* Variant: as if the second lock did not look for the entry again.
RegisterBlindly(t) ==
  /\ At(t, "register") /\ Free
  /\ IF Disabled
     THEN open' = open \ {t} /\ Failed(t) /\ UNCHANGED entry
     ELSE /\ entry' = IF Here THEN Entry("connected", IF t \in open THEN t ELSE None, entry.config)
                      ELSE entry
          /\ Go(t, "watch") /\ UNCHANGED open
  /\ UNCHANGED <<disabled, mu, hmm, running, registered, wish>>

\* The second lock.
Register(t) ==
  /\ At(t, "register") /\ Free
  /\ IF ~Here \/ Disabled
     THEN open' = open \ {t} /\ Failed(t) /\ UNCHANGED entry
     ELSE /\ entry' = Entry("connected", IF t \in open THEN t ELSE None, entry.config)
          /\ Go(t, "watch") /\ UNCHANGED open
  /\ UNCHANGED <<disabled, mu, hmm, running, registered, wish>>

\* The error paths of AddClient, connectConfiguredClients, EnableClient and
\* UpdateClientConnection.
Undo(t) ==
  /\ At(t, "undo") /\ Free
  /\ entry' = Absent
  /\ IF Op(t) = "boot" THEN Go(t, "retain") ELSE Finish(t, FALSE)
  /\ UNCHANGED <<disabled, open, mu, hmm, running, registered, wish>>

Retain(t) ==
  /\ At(t, "retain") /\ Free
  /\ entry' = IF Here THEN [entry EXCEPT !.state = "disconnected"]
              ELSE Entry("disconnected", None, task[t].config)
  /\ Go(t, "watch")
  /\ UNCHANGED <<disabled, open, mu, hmm, running, registered, wish>>

\* Variant: as if a failed EnableClient relied on a monitor that still runs.
MarkOnly(t) ==
  /\ At(t, "mark") /\ Free
  /\ entry' = IF Here /\ ~Disabled THEN [entry EXCEPT !.state = "disconnected"] ELSE entry
  /\ Finish(t, FALSE)
  /\ UNCHANGED <<disabled, open, mu, hmm, running, registered, wish>>

Mark(t) ==
  /\ At(t, "mark") /\ Free
  /\ IF Disabled
     THEN Finish(t, FALSE) /\ UNCHANGED entry
     ELSE /\ entry' = IF Here THEN [entry EXCEPT !.state = "disconnected"] ELSE entry
          /\ Go(t, "watch")
  /\ UNCHANGED <<disabled, open, mu, hmm, running, registered, wish>>

Restore(t) ==
  /\ At(t, "restore") /\ Free
  /\ entry' = IF Here THEN [entry EXCEPT !.config = task[t].from] ELSE entry
  /\ Finish(t, FALSE)
  /\ UNCHANGED <<disabled, open, mu, hmm, running, registered, wish>>

-----------------------------------------------------------------------------
\* StartMonitoring, up to Start's read of clientMap ...
StartMonitoring(t) ==
  /\ At(t, "watch")
  /\ hmm = None /\ hmm' = t
  /\ running' = running \ {registered} /\ registered' = t
  /\ To(t, "start")
  /\ UNCHANGED <<entry, disabled, open, mu, guard, monitor, wish>>

\* ... and from it on.
Start(t) ==
  /\ At(t, "start") /\ Free
  /\ hmm' = None
  /\ Finish(t, TRUE)
  /\ running' = IF Here THEN running \union {t} ELSE running
  /\ UNCHANGED <<entry, disabled, open, mu, registered, wish>>

\* Cleanup stops every monitor, then removes the client.
StopAll(t) ==
  /\ Begins(t, "cleanup") /\ hmm = None
  /\ running' = running \ {registered} /\ registered' = None
  /\ Turn(t, "remove", "lock")
  /\ UNCHANGED <<entry, disabled, open, locks, monitor, wish>>

\* RemoveClient, DisableClient and Cleanup take m.mu ...
Lock(t, op) ==
  /\ Free
  /\ IF Here /\ (op = "disable" => ~Disabled)
     THEN /\ mu' = t
          /\ Turn(t, op, "stop")
          /\ UNCHANGED <<monitor, guard>>
     ELSE Finish(t, FALSE) /\ UNCHANGED mu
  /\ UNCHANGED <<entry, disabled, open, hmm, running, registered, wish>>

Locks(t) == (Begins(t, "remove") /\ Lock(t, "remove")) \/ (At(t, "lock") /\ Lock(t, Op(t)))

\* ... and keep it while they stop the monitor and close the connection.
RemoveClient(t) ==
  /\ At(t, "stop") /\ Op(t) = "remove" /\ hmm = None
  /\ open' = open \ {entry.conn} /\ entry' = Absent
  /\ registered' = None /\ mu' = None /\ wish' = "none"
  /\ task' = [task EXCEPT ![t] = Over] /\ running' = running \ {registered}
  /\ UNCHANGED <<disabled, hmm, guard, monitor>>

DisableClient(t) ==
  /\ At(t, "stop") /\ Op(t) = "disable" /\ hmm = None
  /\ open' = open \ {entry.conn}
  /\ entry' = Entry("disabled", None, entry.config)
  /\ disabled' = disabled \union {entry.config}
  /\ registered' = None /\ mu' = None
  /\ wish' = IF \E u \in Tasks : Adding(u) \/ Enabling(u) THEN wish ELSE "off"
  /\ task' = [task EXCEPT ![t] = Over] /\ running' = running \ {registered}
  /\ guard' = None
  /\ UNCHANGED <<hmm, monitor>>

-----------------------------------------------------------------------------
\* performHealthCheck reads the entry and pings its connection; what it has learnt
\* is reported later.  A monitor of a client that is gone or disabled stops itself.
Check(m) ==
  /\ m \in running /\ monitor[m].at = "rest" /\ Free
  /\ IF Here /\ ~Disabled
     THEN /\ \/ /\ entry.conn \in open
                /\ monitor' = [monitor EXCEPT ![m] = [at |-> "good", fails |-> 0]]
             \/ LET fails == monitor[m].fails + 1
                IN  monitor' = [monitor EXCEPT ![m] =
                      IF fails >= MaxFailures THEN [at |-> "bad", fails |-> MaxFailures] ELSE [@ EXCEPT !.fails = fails]]
          /\ UNCHANGED running
     ELSE running' = running \ {m} /\ UNCHANGED monitor
  /\ UNCHANGED <<entry, disabled, open, locks, task, registered, wish>>

\* Variant: as if updateClientState overwrote a disabled state.
StateBlindly(new) == IF Here THEN [entry EXCEPT !.state = new] ELSE entry

\* updateClientState, and what OnConnectionLost does.
State(new) ==
  IF Here /\ ~Disabled THEN [entry EXCEPT !.state = new] ELSE entry

Report(m) ==
  /\ monitor[m].at = "good" /\ Free
  /\ entry' = State("connected")
  /\ monitor' = [monitor EXCEPT ![m].at = "rest"]
  /\ UNCHANGED <<disabled, open, locks, task, running, registered, wish>>

\* After too many failures a goroutine is spawned that reconnects.
ReportFailure(m) ==
  /\ monitor[m].at = "bad" /\ Free
  /\ entry' = State("disconnected")
  /\ monitor' = [monitor EXCEPT ![m].at = "healing"]
  /\ \E t \in Tasks :
       /\ At(t, "unused")
       /\ task' = [task EXCEPT ![t] = [op |-> "heal", at |-> "sane", config |-> None, from |-> m]]
  /\ UNCHANGED <<disabled, open, locks, running, registered, wish>>

\* attemptReconnect looks once more before it calls ReconnectClient.
AttemptReconnect(t) ==
  /\ At(t, "sane") /\ Free
  /\ IF Disabled THEN Finish(t, FALSE) ELSE Go(t, "guard")
  /\ UNCHANGED <<entry, disabled, open, mu, hmm, running, registered, wish>>

\* An SSE connection is lost.
ConnectionLost ==
  /\ Free /\ entry.conn # None
  /\ entry' = State("disconnected")
  /\ UNCHANGED <<disabled, open, locks, task, monitors, wish>>

-----------------------------------------------------------------------------
OperationSteps(t) ==
  \/ AddClient(t) \/ EnableClient(t) \/ Guarded(t) \/ Lookup(t) \/ UpdateClient(t)
  \/ AttemptReconnect(t) \/ StopAll(t) \/ Locks(t) \/ RemoveClient(t) \/ DisableClient(t)
ConnectSteps(t) ==
  \/ Connect(t) \/ Dial(t) \/ Register(t) \/ Undo(t) \/ Retain(t) \/ Mark(t) \/ Restore(t)
  \/ StartMonitoring(t) \/ Start(t)
MonitorSteps(m) == Check(m) \/ Report(m) \/ ReportFailure(m)

\* An AddClient takes no guard, so another attempt may run along with it.  An
\* attempt whose client has been removed before its first lock makes it anew, and
\* so does one that finds it disabled, but no longer marked so in the config.
Overlaps ==
  \E t, u \in Tasks :
    /\ t # u /\ Adding(t) /\ Pending(u)
    /\ task[u].at \in Inside \union {"undo", "retain", "watch", "start"}
Revives ==
  /\ ~Here \/ Disabled
  /\ \E t \in Tasks : At(t, "connect") /\ task'[t].at = "dial" /\ Op(t) # "enable"

Next ==
  /\ \/ \E t \in Tasks : OperationSteps(t) \/ ConnectSteps(t) \/ MonitorSteps(t)
     \/ ConnectionLost
  /\ disturbed' = disturbed \union {d \in {"overlap"} : Overlaps'} \union {d \in {"revived"} : Revives}

Spec == Init /\ [][Next]_vars

-----------------------------------------------------------------------------
\* A client an administrator has disabled stays so, without a connection, until
\* it is enabled, updated or removed, whatever checks and reconnects were under way.
\* (clientmanager.go:1217-1225, 1517-1533, healthmonitor.go:257-263)
DisabledStays == wish = "off" => Disabled /\ entry.conn = None

\* Every open connection is the entry's or that of the attempt that has just
\* opened it; and when every operation has returned, a client that is not
\* disabled has a running monitor to recover it.  An AddClient along another
\* attempt, and a reconnect that revives a removed or disabled client, are exempt.
\* (clientmanager.go:1227-1250, 1554-1569, 871-897)
LookedAfter ==
  disturbed = {} =>
    /\ \A c \in open : c = entry.conn \/ At(c, "register")
    /\ Resting /\ Here /\ ~Disabled => registered \in running

\* Nobody waits inside one lock for the other, while somebody inside the other
\* waits for the first.  (clientmanager.go:1572-1573: the lock is released before
\* StartMonitoring, to prevent deadlock)
NoLockCycle == mu = None \/ hmm = None
=============================================================================
