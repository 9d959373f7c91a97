-------------------------- MODULE McpClientsProofs --------------------------
(***************************************************************************)
(* Theorems about McpClients, for any number of operations and monitors:   *)
(* its types, that a disabled client stays disabled, and that the others   *)
(* are looked after.                                                       *)
(***************************************************************************)
EXTENDS McpClients, TLAPS

\* Where a task may be with each operation, and what it then carries.
Shape(t) ==
  /\ Op(t) = "none" <=> ~Pending(t)
  /\ At(t, "sane") => Op(t) = "heal"
  /\ At(t, "guard") => Op(t) \in {"enable", "heal"}
  /\ At(t, "lookup") => Op(t) \in {"reconnect", "reauth", "heal"}
  /\ task[t].at \in Inside => Op(t) \in {"add", "boot", "enable", "reconnect", "reauth", "heal"}
  /\ task[t].at \in {"undo", "retain"} => Op(t) \in {"add", "boot"}
  /\ At(t, "mark") => Op(t) = "enable"
  /\ At(t, "restore") => Op(t) = "reauth"
  /\ At(t, "edit") => Op(t) = "update"
  /\ task[t].at \in {"lock", "stop"} => Op(t) \in {"disable", "remove"}
  /\ task[t].at \in Inside \union {"undo", "retain"} \/ (At(t, "guard") /\ Op(t) = "enable") => task[t].config \in Tasks
  /\ Op(t) = "heal" \/ (Op(t) = "reauth" /\ task[t].at \in Inside \union {"restore"})
       => task[t].from \in Tasks

\* Whose task is in reconnectingClients.
Holds(t) ==
  \/ Op(t) \in {"disable", "update", "reconnect", "reauth"} /\ Pending(t)
  \/ Op(t) \in {"enable", "heal"} /\ task[t].at \in Inside \union {"lookup", "mark", "watch", "start"}

Kept(t) ==
  /\ guard = t <=> Holds(t)
  /\ At(t, "stop") => Here
  /\ mu = t <=> At(t, "stop")
  /\ hmm = t <=> At(t, "start")

\* While the client is to stay off no task can connect: those under way have
\* a config that says disabled, and stop at the first lock.
OffTask(t) ==
  /\ ~Adding(t) /\ ~Enabling(t)
  /\ ~At(t, "dial") /\ ~At(t, "register")
  /\ At(t, "connect") => task[t].config \in disabled
  /\ Op(t) = "reauth" /\ task[t].at \in {"connect", "restore"} => task[t].from \in disabled

Off ==
  /\ Here /\ Disabled /\ entry.conn = None /\ entry.config \in disabled
  /\ \A t \in Tasks : OffTask(t)

IInv ==
  /\ TypeOK
  /\ \A t \in Tasks : Shape(t) /\ Kept(t)
  /\ wish = "off" => Off
-----------------------------------------------------------------------------
USE DEF Turn, locks, monitors, At, Op, To, Free, Pending, Begins, Go, Over, Here, Disabled, Inside,
        TaskRecords, MonitorRecords

\* An operation has returned: its guard is given back, and a monitor that
\* waited for it rests again.
Returned(t) ==
  /\ task' = [task EXCEPT ![t] = Over]
  /\ monitor' \in [Tasks -> MonitorRecords]
  /\ guard' \in Names /\ guard' # t
  /\ \A u \in Tasks \ {t} : guard' = u <=> guard = u

\* Finish is all that makes a task return with its guard given back.
LEMMA Finishes ==
  ASSUME IInv, NEW t \in Tasks, NEW ok \in BOOLEAN, Finish(t, ok)
  PROVE  Returned(t)
<1>1. task' = [task EXCEPT ![t] = Over] BY DEF Finish
<1>2. monitor' \in [Tasks -> MonitorRecords]
  <2>1. CASE Op(t) # "heal" BY <2>1 DEF IInv, TypeOK, Finish
  <2>2. CASE Op(t) = "heal"
    <3>1. task[t].from \in Tasks BY <2>2 DEF IInv, TypeOK, Shape
    <3>2. [at |-> "rest", fails |-> IF ok THEN 0 ELSE monitor[task[t].from].fails] \in MonitorRecords
      BY <3>1, FailuresAssumption DEF IInv, TypeOK
    <3> QED BY <2>2, <3>1, <3>2 DEF IInv, TypeOK, Finish
  <2> QED BY <2>1, <2>2
<1>3. guard' \in Names /\ guard' # t /\ \A u \in Tasks \ {t} : guard' = u <=> guard = u
  BY TaskAssumption DEF IInv, TypeOK, Finish, Names
<1> QED BY <1>1, <1>2, <1>3 DEF Returned

\* A new client is not off, and its config is the task's own.
LEMMA AddClientKeeps ==
  ASSUME IInv, NEW t \in Tasks, AddClient(t), disturbed' \subseteq {"overlap", "revived"}
  PROVE  IInv'
<1>1. CASE Here
  <2>0. Returned(t)
    <3>1. Finish(t, FALSE) BY <1>1 DEF AddClient, Went
    <3> QED BY <3>1, Finishes
  <2>1. TypeOK'
    <3>1. task' \in [Tasks -> TaskRecords]
      BY <1>1, <2>0, TaskAssumption, OpsAssumption
        DEF IInv, TypeOK, Shape, AllOps, Places, Names, AddClient, Went, Returned
    <3>2. monitor' \in [Tasks -> MonitorRecords]
      BY <2>0 DEF Returned
    <3>3. \A u \in Tasks : u \in {mu, hmm, guard}' => Pending(u)'
      BY <1>1, <2>0, TaskAssumption, OpsAssumption
        DEF IInv, TypeOK, Shape, Kept, Holds, AddClient, Went, Returned
    <3> QED BY <1>1, <2>0, <3>1, <3>2, <3>3, TaskAssumption
      DEF IInv, TypeOK, Shape, Kept, Holds, Names, Entry, Absent, AddClient, Went, Returned
  <2>2. ASSUME NEW u \in Tasks PROVE Shape(u)'
    BY <1>1, <2>0, OpsAssumption DEF IInv, TypeOK, Shape, AllOps, AddClient, Went, Returned
  <2>3. ASSUME NEW u \in Tasks PROVE Kept(u)'
    BY <1>1, <2>0, TaskAssumption, OpsAssumption
      DEF IInv, TypeOK, Shape, Kept, Holds, Entry, AddClient, Went, Returned
  <2>4. ASSUME wish' = "off" PROVE Off'
    <3>1. Off BY <1>1, <2>0, <2>4 DEF IInv, AddClient, Went, Returned
    <3>2. (Here /\ Disabled /\ entry.conn = None /\ entry.config \in disabled)'
      BY <1>1, <2>0, <2>4, <3>1
        DEF IInv, TypeOK, Shape, Off, OffTask, Adding, Enabling, Entry, AddClient, Went, Returned
    <3>3. ASSUME NEW u \in Tasks PROVE OffTask(u)'
      BY <1>1, <2>0, <2>4, <3>1, OpsAssumption
        DEF IInv, TypeOK, Shape, Off, OffTask, Adding, Enabling, Entry, AddClient, Went, Returned
    <3> QED BY <3>2, <3>3 DEF Off
  <2> QED BY <2>1, <2>2, <2>3, <2>4 DEF IInv
<1>2. CASE ~Here /\ entry' = Entry("new", None, t) /\ Went(t, "add", "connect", t, None) /\ UNCHANGED disabled
  <2>1. TypeOK'
    <3>1. task' \in [Tasks -> TaskRecords]
      BY <1>2, TaskAssumption, OpsAssumption
        DEF IInv, TypeOK, Shape, AllOps, Places, Names, AddClient, Went
    <3>2. monitor' \in [Tasks -> MonitorRecords]
      BY <1>2, FailuresAssumption DEF IInv, TypeOK, AddClient, Went
    <3>3. \A u \in Tasks : u \in {mu, hmm, guard}' => Pending(u)'
      BY <1>2, TaskAssumption, OpsAssumption DEF IInv, TypeOK, Shape, Kept, Holds, AddClient, Went
    <3> QED BY <1>2, <3>1, <3>2, <3>3, TaskAssumption
      DEF IInv, TypeOK, Shape, Kept, Holds, Names, Entry, Absent, AddClient, Went
  <2>2. ASSUME NEW u \in Tasks PROVE Shape(u)'
    BY <1>2, OpsAssumption DEF IInv, TypeOK, Shape, AllOps, AddClient, Went
  <2>3. ASSUME NEW u \in Tasks PROVE Kept(u)'
    BY <1>2, TaskAssumption, OpsAssumption DEF IInv, TypeOK, Shape, Kept, Holds, Entry, AddClient, Went
  <2>4. ASSUME wish' = "off" PROVE Off'
    <3>1. Off BY <1>2, <2>4 DEF IInv, AddClient, Went
    <3>2. (Here /\ Disabled /\ entry.conn = None /\ entry.config \in disabled)'
      BY <1>2, <2>4, <3>1 DEF IInv, TypeOK, Shape, Off, OffTask, Adding, Enabling, Entry, AddClient, Went
    <3>3. ASSUME NEW u \in Tasks PROVE OffTask(u)'
      BY <1>2, <2>4, <3>1, OpsAssumption
        DEF IInv, TypeOK, Shape, Off, OffTask, Adding, Enabling, Entry, AddClient, Went
    <3> QED BY <3>2, <3>3 DEF Off
  <2> QED BY <2>1, <2>2, <2>3, <2>4 DEF IInv
<1>3. CASE ~Here /\ entry' = Entry("disabled", None, t) /\ disabled' = disabled \union {t} /\ Finish(t, TRUE)
  <2>0. Returned(t)
    <3>1. Finish(t, TRUE) BY <1>3 DEF AddClient, Went
    <3> QED BY <3>1, Finishes
  <2>1. TypeOK'
    <3>1. task' \in [Tasks -> TaskRecords]
      BY <1>3, <2>0, TaskAssumption, OpsAssumption
        DEF IInv, TypeOK, Shape, AllOps, Places, Names, AddClient, Went, Returned
    <3>2. monitor' \in [Tasks -> MonitorRecords]
      BY <2>0 DEF Returned
    <3>3. \A u \in Tasks : u \in {mu, hmm, guard}' => Pending(u)'
      BY <1>3, <2>0, TaskAssumption, OpsAssumption
        DEF IInv, TypeOK, Shape, Kept, Holds, AddClient, Went, Returned
    <3> QED BY <1>3, <2>0, <3>1, <3>2, <3>3, TaskAssumption
      DEF IInv, TypeOK, Shape, Kept, Holds, Names, Entry, Absent, AddClient, Went, Returned
  <2>2. ASSUME NEW u \in Tasks PROVE Shape(u)'
    BY <1>3, <2>0, OpsAssumption DEF IInv, TypeOK, Shape, AllOps, AddClient, Went, Returned
  <2>3. ASSUME NEW u \in Tasks PROVE Kept(u)'
    BY <1>3, <2>0, TaskAssumption, OpsAssumption
      DEF IInv, TypeOK, Shape, Kept, Holds, Entry, AddClient, Went, Returned
  <2>4. ASSUME wish' = "off" PROVE Off'
    <3>1. Off BY <1>3, <2>0, <2>4 DEF IInv, AddClient, Went, Returned
    <3>2. (Here /\ Disabled /\ entry.conn = None /\ entry.config \in disabled)'
      BY <1>3, <2>0, <2>4, <3>1
        DEF IInv, TypeOK, Shape, Off, OffTask, Adding, Enabling, Entry, AddClient, Went, Returned
    <3>3. ASSUME NEW u \in Tasks PROVE OffTask(u)'
      BY <1>3, <2>0, <2>4, <3>1, OpsAssumption
        DEF IInv, TypeOK, Shape, Off, OffTask, Adding, Enabling, Entry, AddClient, Went, Returned
    <3> QED BY <3>2, <3>3 DEF Off
  <2> QED BY <2>1, <2>2, <2>3, <2>4 DEF IInv
<1> QED BY <1>1, <1>2, <1>3 DEF AddClient

\* The wish ends when the flag is cleared.
LEMMA EnableClientKeeps ==
  ASSUME IInv, NEW t \in Tasks, EnableClient(t), disturbed' \subseteq {"overlap", "revived"}
  PROVE  IInv'
<1>1. CASE Disabled
  <2>1. TypeOK'
    <3>1. task' \in [Tasks -> TaskRecords]
      BY <1>1, TaskAssumption, OpsAssumption
        DEF IInv, TypeOK, Shape, AllOps, Places, Names, EnableClient, Went
    <3>2. monitor' \in [Tasks -> MonitorRecords]
      BY <1>1, FailuresAssumption DEF IInv, TypeOK, EnableClient, Went
    <3>3. \A u \in Tasks : u \in {mu, hmm, guard}' => Pending(u)'
      BY <1>1, TaskAssumption, OpsAssumption DEF IInv, TypeOK, Shape, Kept, Holds, EnableClient, Went
    <3> QED BY <1>1, <3>1, <3>2, <3>3, TaskAssumption
      DEF IInv, TypeOK, Shape, Kept, Holds, Names, Entry, Absent, EnableClient, Went
  <2>2. ASSUME NEW u \in Tasks PROVE Shape(u)'
    BY <1>1, OpsAssumption DEF IInv, TypeOK, Shape, AllOps, EnableClient, Went
  <2>3. ASSUME NEW u \in Tasks PROVE Kept(u)'
    BY <1>1, TaskAssumption, OpsAssumption
      DEF IInv, TypeOK, Shape, Kept, Holds, Entry, EnableClient, Went
  <2>4. ASSUME wish' = "off" PROVE Off'
    <3>1. Off BY <1>1, <2>4 DEF IInv, EnableClient, Went
    <3>2. (Here /\ Disabled /\ entry.conn = None /\ entry.config \in disabled)'
      BY <1>1, <2>4, <3>1
        DEF IInv, TypeOK, Shape, Off, OffTask, Adding, Enabling, Entry, EnableClient, Went
    <3>3. ASSUME NEW u \in Tasks PROVE OffTask(u)'
      BY <1>1, <2>4, <3>1, OpsAssumption
        DEF IInv, TypeOK, Shape, Off, OffTask, Adding, Enabling, Entry, EnableClient, Went
    <3> QED BY <3>2, <3>3 DEF Off
  <2> QED BY <2>1, <2>2, <2>3, <2>4 DEF IInv
<1>2. CASE ~Disabled
  <2>0. Returned(t)
    <3>1. Finish(t, FALSE) BY <1>2 DEF EnableClient, Went
    <3> QED BY <3>1, Finishes
  <2>1. TypeOK'
    <3>1. task' \in [Tasks -> TaskRecords]
      BY <1>2, <2>0, TaskAssumption, OpsAssumption
        DEF IInv, TypeOK, Shape, AllOps, Places, Names, EnableClient, Went, Returned
    <3>2. monitor' \in [Tasks -> MonitorRecords]
      BY <2>0 DEF Returned
    <3>3. \A u \in Tasks : u \in {mu, hmm, guard}' => Pending(u)'
      BY <1>2, <2>0, TaskAssumption, OpsAssumption
        DEF IInv, TypeOK, Shape, Kept, Holds, EnableClient, Went, Returned
    <3> QED BY <1>2, <2>0, <3>1, <3>2, <3>3, TaskAssumption
      DEF IInv, TypeOK, Shape, Kept, Holds, Names, Entry, Absent, EnableClient, Went, Returned
  <2>2. ASSUME NEW u \in Tasks PROVE Shape(u)'
    BY <1>2, <2>0, OpsAssumption DEF IInv, TypeOK, Shape, AllOps, EnableClient, Went, Returned
  <2>3. ASSUME NEW u \in Tasks PROVE Kept(u)'
    BY <1>2, <2>0, TaskAssumption, OpsAssumption
      DEF IInv, TypeOK, Shape, Kept, Holds, Entry, EnableClient, Went, Returned
  <2>4. ASSUME wish' = "off" PROVE Off'
    <3>1. Off BY <1>2, <2>0, <2>4 DEF IInv, EnableClient, Went, Returned
    <3>2. (Here /\ Disabled /\ entry.conn = None /\ entry.config \in disabled)'
      BY <1>2, <2>0, <2>4, <3>1
        DEF IInv, TypeOK, Shape, Off, OffTask, Adding, Enabling, Entry, EnableClient, Went, Returned
    <3>3. ASSUME NEW u \in Tasks PROVE OffTask(u)'
      BY <1>2, <2>0, <2>4, <3>1, OpsAssumption
        DEF IInv, TypeOK, Shape, Off, OffTask, Adding, Enabling, Entry, EnableClient, Went, Returned
    <3> QED BY <3>2, <3>3 DEF Off
  <2> QED BY <2>1, <2>2, <2>3, <2>4 DEF IInv
<1> QED BY <1>1, <1>2

\* The attempt carries the entry's config, which says disabled while the client is to stay off.
LEMMA LookupKeeps ==
  ASSUME IInv, NEW t \in Tasks, Lookup(t), disturbed' \subseteq {"overlap", "revived"}
  PROVE  IInv'
<1>1. CASE ~Here
  <2>0. Returned(t)
    <3>1. Finish(t, FALSE) BY <1>1 DEF Lookup, Went
    <3> QED BY <3>1, Finishes
  <2>1. TypeOK'
    <3>1. task' \in [Tasks -> TaskRecords]
      BY <1>1, <2>0, TaskAssumption, OpsAssumption
        DEF IInv, TypeOK, Shape, AllOps, Places, Names, Lookup, Went, Returned
    <3>2. monitor' \in [Tasks -> MonitorRecords]
      BY <2>0 DEF Returned
    <3>3. \A u \in Tasks : u \in {mu, hmm, guard}' => Pending(u)'
      BY <1>1, <2>0, TaskAssumption, OpsAssumption
        DEF IInv, TypeOK, Shape, Kept, Holds, Lookup, Went, Returned
    <3> QED BY <1>1, <2>0, <3>1, <3>2, <3>3, TaskAssumption
      DEF IInv, TypeOK, Shape, Kept, Holds, Names, Entry, Absent, Lookup, Went, Returned
  <2>2. ASSUME NEW u \in Tasks PROVE Shape(u)'
    BY <1>1, <2>0, OpsAssumption DEF IInv, TypeOK, Shape, AllOps, Lookup, Went, Returned
  <2>3. ASSUME NEW u \in Tasks PROVE Kept(u)'
    BY <1>1, <2>0, TaskAssumption, OpsAssumption
      DEF IInv, TypeOK, Shape, Kept, Holds, Entry, Lookup, Went, Returned
  <2>4. ASSUME wish' = "off" PROVE Off'
    <3>1. Off BY <1>1, <2>0, <2>4 DEF IInv, Lookup, Went, Returned
    <3>2. (Here /\ Disabled /\ entry.conn = None /\ entry.config \in disabled)'
      BY <1>1, <2>0, <2>4, <3>1
        DEF IInv, TypeOK, Shape, Off, OffTask, Adding, Enabling, Entry, Lookup, Went, Returned
    <3>3. ASSUME NEW u \in Tasks PROVE OffTask(u)'
      BY <1>1, <2>0, <2>4, <3>1, OpsAssumption
        DEF IInv, TypeOK, Shape, Off, OffTask, Adding, Enabling, Entry, Lookup, Went, Returned
    <3> QED BY <3>2, <3>3 DEF Off
  <2> QED BY <2>1, <2>2, <2>3, <2>4 DEF IInv
<1>2. CASE Here /\ Op(t) = "reauth"
  <2>1. TypeOK'
    <3>1. task' \in [Tasks -> TaskRecords]
      BY <1>2, TaskAssumption, OpsAssumption DEF IInv, TypeOK, Shape, AllOps, Places, Names, Lookup, Went
    <3>2. monitor' \in [Tasks -> MonitorRecords]
      BY <1>2, FailuresAssumption DEF IInv, TypeOK, Lookup, Went
    <3>3. \A u \in Tasks : u \in {mu, hmm, guard}' => Pending(u)'
      BY <1>2, TaskAssumption, OpsAssumption DEF IInv, TypeOK, Shape, Kept, Holds, Lookup, Went
    <3> QED BY <1>2, <3>1, <3>2, <3>3, TaskAssumption
      DEF IInv, TypeOK, Shape, Kept, Holds, Names, Entry, Absent, Lookup, Went
  <2>2. ASSUME NEW u \in Tasks PROVE Shape(u)'
    BY <1>2, OpsAssumption DEF IInv, TypeOK, Shape, AllOps, Lookup, Went
  <2>3. ASSUME NEW u \in Tasks PROVE Kept(u)'
    BY <1>2, TaskAssumption, OpsAssumption DEF IInv, TypeOK, Shape, Kept, Holds, Entry, Lookup, Went
  <2>4. ASSUME wish' = "off" PROVE Off'
    <3>1. Off BY <1>2, <2>4 DEF IInv, Lookup, Went
    <3>2. (Here /\ Disabled /\ entry.conn = None /\ entry.config \in disabled)'
      BY <1>2, <2>4, <3>1 DEF IInv, TypeOK, Shape, Off, OffTask, Adding, Enabling, Entry, Lookup, Went
    <3>3. ASSUME NEW u \in Tasks PROVE OffTask(u)'
      BY <1>2, <2>4, <3>1, OpsAssumption
        DEF IInv, TypeOK, Shape, Off, OffTask, Adding, Enabling, Entry, Lookup, Went
    <3> QED BY <3>2, <3>3 DEF Off
  <2> QED BY <2>1, <2>2, <2>3, <2>4 DEF IInv
<1>3. CASE Here /\ Op(t) # "reauth"
  <2>1. TypeOK'
    <3>1. task' \in [Tasks -> TaskRecords]
      BY <1>3, TaskAssumption, OpsAssumption DEF IInv, TypeOK, Shape, AllOps, Places, Names, Lookup, Went
    <3>2. monitor' \in [Tasks -> MonitorRecords]
      BY <1>3, FailuresAssumption DEF IInv, TypeOK, Lookup, Went
    <3>3. \A u \in Tasks : u \in {mu, hmm, guard}' => Pending(u)'
      BY <1>3, TaskAssumption, OpsAssumption DEF IInv, TypeOK, Shape, Kept, Holds, Lookup, Went
    <3> QED BY <1>3, <3>1, <3>2, <3>3, TaskAssumption
      DEF IInv, TypeOK, Shape, Kept, Holds, Names, Entry, Absent, Lookup, Went
  <2>2. ASSUME NEW u \in Tasks PROVE Shape(u)'
    BY <1>3, OpsAssumption DEF IInv, TypeOK, Shape, AllOps, Lookup, Went
  <2>3. ASSUME NEW u \in Tasks PROVE Kept(u)'
    BY <1>3, TaskAssumption, OpsAssumption DEF IInv, TypeOK, Shape, Kept, Holds, Entry, Lookup, Went
  <2>4. ASSUME wish' = "off" PROVE Off'
    <3>1. Off BY <1>3, <2>4 DEF IInv, Lookup, Went
    <3>2. (Here /\ Disabled /\ entry.conn = None /\ entry.config \in disabled)'
      BY <1>3, <2>4, <3>1 DEF IInv, TypeOK, Shape, Off, OffTask, Adding, Enabling, Entry, Lookup, Went
    <3>3. ASSUME NEW u \in Tasks PROVE OffTask(u)'
      BY <1>3, <2>4, <3>1, OpsAssumption
        DEF IInv, TypeOK, Shape, Off, OffTask, Adding, Enabling, Entry, Lookup, Went
    <3> QED BY <3>2, <3>3 DEF Off
  <2> QED BY <2>1, <2>2, <2>3, <2>4 DEF IInv
<1> QED BY <1>1, <1>2, <1>3

\* An update that enables the client ends the wish, one that does not leaves a disabled config.
LEMMA UpdateClientKeeps ==
  ASSUME IInv, NEW t \in Tasks, UpdateClient(t), disturbed' \subseteq {"overlap", "revived"}
  PROVE  IInv'
<1>1. CASE Here /\ disabled' = disabled \union {t} /\ UNCHANGED wish
  <2>0. Returned(t)
    <3>1. Finish(t, Here) BY <1>1 DEF UpdateClient
    <3> QED BY <3>1, Finishes
  <2>1. TypeOK'
    <3>1. task' \in [Tasks -> TaskRecords]
      BY <1>1, <2>0, TaskAssumption, OpsAssumption
        DEF IInv, TypeOK, Shape, AllOps, Places, Names, UpdateClient, Returned
    <3>2. monitor' \in [Tasks -> MonitorRecords]
      BY <2>0 DEF Returned
    <3>3. \A u \in Tasks : u \in {mu, hmm, guard}' => Pending(u)'
      BY <1>1, <2>0, TaskAssumption, OpsAssumption
        DEF IInv, TypeOK, Shape, Kept, Holds, UpdateClient, Returned
    <3> QED BY <1>1, <2>0, <3>1, <3>2, <3>3, TaskAssumption
      DEF IInv, TypeOK, Shape, Kept, Holds, Names, Entry, Absent, UpdateClient, Returned
  <2>2. ASSUME NEW u \in Tasks PROVE Shape(u)'
    BY <1>1, <2>0, OpsAssumption DEF IInv, TypeOK, Shape, AllOps, UpdateClient, Returned
  <2>3. ASSUME NEW u \in Tasks PROVE Kept(u)'
    BY <1>1, <2>0, TaskAssumption, OpsAssumption
      DEF IInv, TypeOK, Shape, Kept, Holds, Entry, UpdateClient, Returned
  <2>4. ASSUME wish' = "off" PROVE Off'
    <3>1. Off BY <1>1, <2>0, <2>4 DEF IInv, UpdateClient, Returned
    <3>2. (Here /\ Disabled /\ entry.conn = None /\ entry.config \in disabled)'
      BY <1>1, <2>0, <2>4, <3>1
        DEF IInv, TypeOK, Shape, Off, OffTask, Adding, Enabling, Entry, UpdateClient, Returned
    <3>3. ASSUME NEW u \in Tasks PROVE OffTask(u)'
      BY <1>1, <2>0, <2>4, <3>1, OpsAssumption
        DEF IInv, TypeOK, Shape, Off, OffTask, Adding, Enabling, Entry, UpdateClient, Returned
    <3> QED BY <3>2, <3>3 DEF Off
  <2> QED BY <2>1, <2>2, <2>3, <2>4 DEF IInv
<1>2. CASE Here /\ wish' = "none" /\ UNCHANGED disabled
  <2>0. Returned(t)
    <3>1. Finish(t, Here) BY <1>2 DEF UpdateClient
    <3> QED BY <3>1, Finishes
  <2>1. TypeOK'
    <3>1. task' \in [Tasks -> TaskRecords]
      BY <1>2, <2>0, TaskAssumption, OpsAssumption
        DEF IInv, TypeOK, Shape, AllOps, Places, Names, UpdateClient, Returned
    <3>2. monitor' \in [Tasks -> MonitorRecords]
      BY <2>0 DEF Returned
    <3>3. \A u \in Tasks : u \in {mu, hmm, guard}' => Pending(u)'
      BY <1>2, <2>0, TaskAssumption, OpsAssumption
        DEF IInv, TypeOK, Shape, Kept, Holds, UpdateClient, Returned
    <3> QED BY <1>2, <2>0, <3>1, <3>2, <3>3, TaskAssumption
      DEF IInv, TypeOK, Shape, Kept, Holds, Names, Entry, Absent, UpdateClient, Returned
  <2>2. ASSUME NEW u \in Tasks PROVE Shape(u)'
    BY <1>2, <2>0, OpsAssumption DEF IInv, TypeOK, Shape, AllOps, UpdateClient, Returned
  <2>3. ASSUME NEW u \in Tasks PROVE Kept(u)'
    BY <1>2, <2>0, TaskAssumption, OpsAssumption
      DEF IInv, TypeOK, Shape, Kept, Holds, Entry, UpdateClient, Returned
  <2>4. ASSUME wish' = "off" PROVE Off'
    <3>1. Off BY <1>2, <2>0, <2>4 DEF IInv, UpdateClient, Returned
    <3>2. (Here /\ Disabled /\ entry.conn = None /\ entry.config \in disabled)'
      BY <1>2, <2>0, <2>4, <3>1
        DEF IInv, TypeOK, Shape, Off, OffTask, Adding, Enabling, Entry, UpdateClient, Returned
    <3>3. ASSUME NEW u \in Tasks PROVE OffTask(u)'
      BY <1>2, <2>0, <2>4, <3>1, OpsAssumption
        DEF IInv, TypeOK, Shape, Off, OffTask, Adding, Enabling, Entry, UpdateClient, Returned
    <3> QED BY <3>2, <3>3 DEF Off
  <2> QED BY <2>1, <2>2, <2>3, <2>4 DEF IInv
<1>3. CASE ~Here
  <2>0. Returned(t)
    <3>1. Finish(t, Here) BY <1>3 DEF UpdateClient
    <3> QED BY <3>1, Finishes
  <2>1. TypeOK'
    <3>1. task' \in [Tasks -> TaskRecords]
      BY <1>3, <2>0, TaskAssumption, OpsAssumption
        DEF IInv, TypeOK, Shape, AllOps, Places, Names, UpdateClient, Returned
    <3>2. monitor' \in [Tasks -> MonitorRecords]
      BY <2>0 DEF Returned
    <3>3. \A u \in Tasks : u \in {mu, hmm, guard}' => Pending(u)'
      BY <1>3, <2>0, TaskAssumption, OpsAssumption
        DEF IInv, TypeOK, Shape, Kept, Holds, UpdateClient, Returned
    <3> QED BY <1>3, <2>0, <3>1, <3>2, <3>3, TaskAssumption
      DEF IInv, TypeOK, Shape, Kept, Holds, Names, Entry, Absent, UpdateClient, Returned
  <2>2. ASSUME NEW u \in Tasks PROVE Shape(u)'
    BY <1>3, <2>0, OpsAssumption DEF IInv, TypeOK, Shape, AllOps, UpdateClient, Returned
  <2>3. ASSUME NEW u \in Tasks PROVE Kept(u)'
    BY <1>3, <2>0, TaskAssumption, OpsAssumption
      DEF IInv, TypeOK, Shape, Kept, Holds, Entry, UpdateClient, Returned
  <2>4. ASSUME wish' = "off" PROVE Off'
    <3>1. Off BY <1>3, <2>0, <2>4 DEF IInv, UpdateClient, Returned
    <3>2. (Here /\ Disabled /\ entry.conn = None /\ entry.config \in disabled)'
      BY <1>3, <2>0, <2>4, <3>1
        DEF IInv, TypeOK, Shape, Off, OffTask, Adding, Enabling, Entry, UpdateClient, Returned
    <3>3. ASSUME NEW u \in Tasks PROVE OffTask(u)'
      BY <1>3, <2>0, <2>4, <3>1, OpsAssumption
        DEF IInv, TypeOK, Shape, Off, OffTask, Adding, Enabling, Entry, UpdateClient, Returned
    <3> QED BY <3>2, <3>3 DEF Off
  <2> QED BY <2>1, <2>2, <2>3, <2>4 DEF IInv
<1> QED BY <1>1, <1>2, <1>3 DEF UpdateClient

\* Only an AddClient or the boot gets here, and none runs while the client is off.
LEMMA UndoKeeps ==
  ASSUME IInv, NEW t \in Tasks, Undo(t), disturbed' \subseteq {"overlap", "revived"}
  PROVE  IInv'
<1>1. CASE Op(t) = "boot"
  <2>1. TypeOK'
    <3>1. task' \in [Tasks -> TaskRecords]
      BY <1>1, TaskAssumption, OpsAssumption DEF IInv, TypeOK, Shape, AllOps, Places, Names, Undo
    <3>2. monitor' \in [Tasks -> MonitorRecords]
      BY <1>1, FailuresAssumption DEF IInv, TypeOK, Undo
    <3>3. \A u \in Tasks : u \in {mu, hmm, guard}' => Pending(u)'
      BY <1>1, TaskAssumption, OpsAssumption DEF IInv, TypeOK, Shape, Kept, Holds, Undo
    <3> QED BY <1>1, <3>1, <3>2, <3>3, TaskAssumption
      DEF IInv, TypeOK, Shape, Kept, Holds, Names, Entry, Absent, Undo
  <2>2. ASSUME NEW u \in Tasks PROVE Shape(u)'
    BY <1>1, OpsAssumption DEF IInv, TypeOK, Shape, AllOps, Undo
  <2>3. ASSUME NEW u \in Tasks PROVE Kept(u)'
    BY <1>1, TaskAssumption, OpsAssumption DEF IInv, TypeOK, Shape, Kept, Holds, Entry, Undo
  <2>4. ASSUME wish' = "off" PROVE Off'
    <3>1. Off BY <1>1, <2>4 DEF IInv, Undo
    <3>2. (Here /\ Disabled /\ entry.conn = None /\ entry.config \in disabled)'
      BY <1>1, <2>4, <3>1 DEF IInv, TypeOK, Shape, Off, OffTask, Adding, Enabling, Entry, Undo
    <3>3. ASSUME NEW u \in Tasks PROVE OffTask(u)'
      BY <1>1, <2>4, <3>1, OpsAssumption
        DEF IInv, TypeOK, Shape, Off, OffTask, Adding, Enabling, Entry, Undo
    <3> QED BY <3>2, <3>3 DEF Off
  <2> QED BY <2>1, <2>2, <2>3, <2>4 DEF IInv
<1>2. CASE Op(t) # "boot"
  <2>0. Returned(t)
    <3>1. Finish(t, FALSE) BY <1>2 DEF Undo
    <3> QED BY <3>1, Finishes
  <2>1. TypeOK'
    <3>1. task' \in [Tasks -> TaskRecords]
      BY <1>2, <2>0, TaskAssumption, OpsAssumption
        DEF IInv, TypeOK, Shape, AllOps, Places, Names, Undo, Returned
    <3>2. monitor' \in [Tasks -> MonitorRecords]
      BY <2>0 DEF Returned
    <3>3. \A u \in Tasks : u \in {mu, hmm, guard}' => Pending(u)'
      BY <1>2, <2>0, TaskAssumption, OpsAssumption DEF IInv, TypeOK, Shape, Kept, Holds, Undo, Returned
    <3> QED BY <1>2, <2>0, <3>1, <3>2, <3>3, TaskAssumption
      DEF IInv, TypeOK, Shape, Kept, Holds, Names, Entry, Absent, Undo, Returned
  <2>2. ASSUME NEW u \in Tasks PROVE Shape(u)'
    BY <1>2, <2>0, OpsAssumption DEF IInv, TypeOK, Shape, AllOps, Undo, Returned
  <2>3. ASSUME NEW u \in Tasks PROVE Kept(u)'
    BY <1>2, <2>0, TaskAssumption, OpsAssumption
      DEF IInv, TypeOK, Shape, Kept, Holds, Entry, Undo, Returned
  <2>4. ASSUME wish' = "off" PROVE Off'
    <3>1. Off BY <1>2, <2>0, <2>4 DEF IInv, Undo, Returned
    <3>2. (Here /\ Disabled /\ entry.conn = None /\ entry.config \in disabled)'
      BY <1>2, <2>0, <2>4, <3>1
        DEF IInv, TypeOK, Shape, Off, OffTask, Adding, Enabling, Entry, Undo, Returned
    <3>3. ASSUME NEW u \in Tasks PROVE OffTask(u)'
      BY <1>2, <2>0, <2>4, <3>1, OpsAssumption
        DEF IInv, TypeOK, Shape, Off, OffTask, Adding, Enabling, Entry, Undo, Returned
    <3> QED BY <3>2, <3>3 DEF Off
  <2> QED BY <2>1, <2>2, <2>3, <2>4 DEF IInv
<1> QED BY <1>1, <1>2

\* Only the boot gets here, and it does not run while the client is off.
LEMMA RetainKeeps ==
  ASSUME IInv, NEW t \in Tasks, Retain(t), disturbed' \subseteq {"overlap", "revived"}
  PROVE  IInv'
<1>1. TypeOK'
  <2>1. task' \in [Tasks -> TaskRecords]
    BY TaskAssumption, OpsAssumption DEF IInv, TypeOK, Shape, AllOps, Places, Names, Retain
  <2>2. monitor' \in [Tasks -> MonitorRecords]
    BY FailuresAssumption DEF IInv, TypeOK, Retain
  <2>3. \A u \in Tasks : u \in {mu, hmm, guard}' => Pending(u)'
    BY TaskAssumption, OpsAssumption DEF IInv, TypeOK, Shape, Kept, Holds, Retain
  <2> QED BY <2>1, <2>2, <2>3, TaskAssumption
    DEF IInv, TypeOK, Shape, Kept, Holds, Names, Entry, Absent, Retain
<1>2. ASSUME NEW u \in Tasks PROVE Shape(u)'
  BY OpsAssumption DEF IInv, TypeOK, Shape, AllOps, Retain
<1>3. ASSUME NEW u \in Tasks PROVE Kept(u)'
  BY TaskAssumption, OpsAssumption DEF IInv, TypeOK, Shape, Kept, Holds, Entry, Retain
<1>4. ASSUME wish' = "off" PROVE Off'
  <2>1. Off BY <1>4 DEF IInv, Retain
  <2>2. (Here /\ Disabled /\ entry.conn = None /\ entry.config \in disabled)'
    BY <1>4, <2>1 DEF IInv, TypeOK, Shape, Off, OffTask, Adding, Enabling, Entry, Retain
  <2>3. ASSUME NEW u \in Tasks PROVE OffTask(u)'
    BY <1>4, <2>1, OpsAssumption DEF IInv, TypeOK, Shape, Off, OffTask, Adding, Enabling, Entry, Retain
  <2> QED BY <2>2, <2>3 DEF Off
<1> QED BY <1>1, <1>2, <1>3, <1>4 DEF IInv

\* Only an EnableClient gets here, and none runs while the client is off.
LEMMA MarkKeeps ==
  ASSUME IInv, NEW t \in Tasks, Mark(t), disturbed' \subseteq {"overlap", "revived"}
  PROVE  IInv'
<1>1. CASE Disabled
  <2>0. Returned(t)
    <3>1. Finish(t, FALSE) BY <1>1 DEF Mark
    <3> QED BY <3>1, Finishes
  <2>1. TypeOK'
    <3>1. task' \in [Tasks -> TaskRecords]
      BY <1>1, <2>0, TaskAssumption, OpsAssumption
        DEF IInv, TypeOK, Shape, AllOps, Places, Names, Mark, Returned
    <3>2. monitor' \in [Tasks -> MonitorRecords]
      BY <2>0 DEF Returned
    <3>3. \A u \in Tasks : u \in {mu, hmm, guard}' => Pending(u)'
      BY <1>1, <2>0, TaskAssumption, OpsAssumption DEF IInv, TypeOK, Shape, Kept, Holds, Mark, Returned
    <3> QED BY <1>1, <2>0, <3>1, <3>2, <3>3, TaskAssumption
      DEF IInv, TypeOK, Shape, Kept, Holds, Names, Entry, Absent, Mark, Returned
  <2>2. ASSUME NEW u \in Tasks PROVE Shape(u)'
    BY <1>1, <2>0, OpsAssumption DEF IInv, TypeOK, Shape, AllOps, Mark, Returned
  <2>3. ASSUME NEW u \in Tasks PROVE Kept(u)'
    BY <1>1, <2>0, TaskAssumption, OpsAssumption
      DEF IInv, TypeOK, Shape, Kept, Holds, Entry, Mark, Returned
  <2>4. ASSUME wish' = "off" PROVE Off'
    <3>1. Off BY <1>1, <2>0, <2>4 DEF IInv, Mark, Returned
    <3>2. (Here /\ Disabled /\ entry.conn = None /\ entry.config \in disabled)'
      BY <1>1, <2>0, <2>4, <3>1
        DEF IInv, TypeOK, Shape, Off, OffTask, Adding, Enabling, Entry, Mark, Returned
    <3>3. ASSUME NEW u \in Tasks PROVE OffTask(u)'
      BY <1>1, <2>0, <2>4, <3>1, OpsAssumption
        DEF IInv, TypeOK, Shape, Off, OffTask, Adding, Enabling, Entry, Mark, Returned
    <3> QED BY <3>2, <3>3 DEF Off
  <2> QED BY <2>1, <2>2, <2>3, <2>4 DEF IInv
<1>2. CASE ~Disabled
  <2>1. TypeOK'
    <3>1. task' \in [Tasks -> TaskRecords]
      BY <1>2, TaskAssumption, OpsAssumption DEF IInv, TypeOK, Shape, AllOps, Places, Names, Mark
    <3>2. monitor' \in [Tasks -> MonitorRecords]
      BY <1>2, FailuresAssumption DEF IInv, TypeOK, Mark
    <3>3. \A u \in Tasks : u \in {mu, hmm, guard}' => Pending(u)'
      BY <1>2, TaskAssumption, OpsAssumption DEF IInv, TypeOK, Shape, Kept, Holds, Mark
    <3> QED BY <1>2, <3>1, <3>2, <3>3, TaskAssumption
      DEF IInv, TypeOK, Shape, Kept, Holds, Names, Entry, Absent, Mark
  <2>2. ASSUME NEW u \in Tasks PROVE Shape(u)'
    BY <1>2, OpsAssumption DEF IInv, TypeOK, Shape, AllOps, Mark
  <2>3. ASSUME NEW u \in Tasks PROVE Kept(u)'
    BY <1>2, TaskAssumption, OpsAssumption DEF IInv, TypeOK, Shape, Kept, Holds, Entry, Mark
  <2>4. ASSUME wish' = "off" PROVE Off'
    <3>1. Off BY <1>2, <2>4 DEF IInv, Mark
    <3>2. (Here /\ Disabled /\ entry.conn = None /\ entry.config \in disabled)'
      BY <1>2, <2>4, <3>1 DEF IInv, TypeOK, Shape, Off, OffTask, Adding, Enabling, Entry, Mark
    <3>3. ASSUME NEW u \in Tasks PROVE OffTask(u)'
      BY <1>2, <2>4, <3>1, OpsAssumption
        DEF IInv, TypeOK, Shape, Off, OffTask, Adding, Enabling, Entry, Mark
    <3> QED BY <3>2, <3>3 DEF Off
  <2> QED BY <2>1, <2>2, <2>3, <2>4 DEF IInv
<1> QED BY <1>1, <1>2

\* The config put back is the one the copy was made of, and says disabled too.
LEMMA RestoreKeeps ==
  ASSUME IInv, NEW t \in Tasks, Restore(t), disturbed' \subseteq {"overlap", "revived"}
  PROVE  IInv'
<1>1. CASE Here
  <2>0. Returned(t)
    <3>1. Finish(t, FALSE) BY <1>1 DEF Restore
    <3> QED BY <3>1, Finishes
  <2>1. TypeOK'
    <3>1. task' \in [Tasks -> TaskRecords]
      BY <1>1, <2>0, TaskAssumption, OpsAssumption
        DEF IInv, TypeOK, Shape, AllOps, Places, Names, Restore, Returned
    <3>2. monitor' \in [Tasks -> MonitorRecords]
      BY <2>0 DEF Returned
    <3>3. \A u \in Tasks : u \in {mu, hmm, guard}' => Pending(u)'
      BY <1>1, <2>0, TaskAssumption, OpsAssumption
        DEF IInv, TypeOK, Shape, Kept, Holds, Restore, Returned
    <3> QED BY <1>1, <2>0, <3>1, <3>2, <3>3, TaskAssumption
      DEF IInv, TypeOK, Shape, Kept, Holds, Names, Entry, Absent, Restore, Returned
  <2>2. ASSUME NEW u \in Tasks PROVE Shape(u)'
    BY <1>1, <2>0, OpsAssumption DEF IInv, TypeOK, Shape, AllOps, Restore, Returned
  <2>3. ASSUME NEW u \in Tasks PROVE Kept(u)'
    BY <1>1, <2>0, TaskAssumption, OpsAssumption
      DEF IInv, TypeOK, Shape, Kept, Holds, Entry, Restore, Returned
  <2>4. ASSUME wish' = "off" PROVE Off'
    <3>1. Off BY <1>1, <2>0, <2>4 DEF IInv, Restore, Returned
    <3>2. (Here /\ Disabled /\ entry.conn = None /\ entry.config \in disabled)'
      BY <1>1, <2>0, <2>4, <3>1
        DEF IInv, TypeOK, Shape, Off, OffTask, Adding, Enabling, Entry, Restore, Returned
    <3>3. ASSUME NEW u \in Tasks PROVE OffTask(u)'
      BY <1>1, <2>0, <2>4, <3>1, OpsAssumption
        DEF IInv, TypeOK, Shape, Off, OffTask, Adding, Enabling, Entry, Restore, Returned
    <3> QED BY <3>2, <3>3 DEF Off
  <2> QED BY <2>1, <2>2, <2>3, <2>4 DEF IInv
<1>2. CASE ~Here
  <2>0. Returned(t)
    <3>1. Finish(t, FALSE) BY <1>2 DEF Restore
    <3> QED BY <3>1, Finishes
  <2>1. TypeOK'
    <3>1. task' \in [Tasks -> TaskRecords]
      BY <1>2, <2>0, TaskAssumption, OpsAssumption
        DEF IInv, TypeOK, Shape, AllOps, Places, Names, Restore, Returned
    <3>2. monitor' \in [Tasks -> MonitorRecords]
      BY <2>0 DEF Returned
    <3>3. \A u \in Tasks : u \in {mu, hmm, guard}' => Pending(u)'
      BY <1>2, <2>0, TaskAssumption, OpsAssumption
        DEF IInv, TypeOK, Shape, Kept, Holds, Restore, Returned
    <3> QED BY <1>2, <2>0, <3>1, <3>2, <3>3, TaskAssumption
      DEF IInv, TypeOK, Shape, Kept, Holds, Names, Entry, Absent, Restore, Returned
  <2>2. ASSUME NEW u \in Tasks PROVE Shape(u)'
    BY <1>2, <2>0, OpsAssumption DEF IInv, TypeOK, Shape, AllOps, Restore, Returned
  <2>3. ASSUME NEW u \in Tasks PROVE Kept(u)'
    BY <1>2, <2>0, TaskAssumption, OpsAssumption
      DEF IInv, TypeOK, Shape, Kept, Holds, Entry, Restore, Returned
  <2>4. ASSUME wish' = "off" PROVE Off'
    <3>1. Off BY <1>2, <2>0, <2>4 DEF IInv, Restore, Returned
    <3>2. (Here /\ Disabled /\ entry.conn = None /\ entry.config \in disabled)'
      BY <1>2, <2>0, <2>4, <3>1
        DEF IInv, TypeOK, Shape, Off, OffTask, Adding, Enabling, Entry, Restore, Returned
    <3>3. ASSUME NEW u \in Tasks PROVE OffTask(u)'
      BY <1>2, <2>0, <2>4, <3>1, OpsAssumption
        DEF IInv, TypeOK, Shape, Off, OffTask, Adding, Enabling, Entry, Restore, Returned
    <3> QED BY <3>2, <3>3 DEF Off
  <2> QED BY <2>1, <2>2, <2>3, <2>4 DEF IInv
<1> QED BY <1>1, <1>2

\* A monitor does not touch the entry.
LEMMA StartMonitoringKeeps ==
  ASSUME IInv, NEW t \in Tasks, StartMonitoring(t), disturbed' \subseteq {"overlap", "revived"}
  PROVE  IInv'
<1>1. TypeOK'
  <2>1. task' \in [Tasks -> TaskRecords]
    BY TaskAssumption, OpsAssumption DEF IInv, TypeOK, Shape, AllOps, Places, Names, StartMonitoring
  <2>2. monitor' \in [Tasks -> MonitorRecords]
    BY FailuresAssumption DEF IInv, TypeOK, StartMonitoring
  <2>3. \A u \in Tasks : u \in {mu, hmm, guard}' => Pending(u)'
    BY TaskAssumption, OpsAssumption DEF IInv, TypeOK, Shape, Kept, Holds, StartMonitoring
  <2> QED BY <2>1, <2>2, <2>3, TaskAssumption
    DEF IInv, TypeOK, Shape, Kept, Holds, Names, Entry, Absent, StartMonitoring
<1>2. ASSUME NEW u \in Tasks PROVE Shape(u)'
  BY OpsAssumption DEF IInv, TypeOK, Shape, AllOps, StartMonitoring
<1>3. ASSUME NEW u \in Tasks PROVE Kept(u)'
  BY TaskAssumption, OpsAssumption DEF IInv, TypeOK, Shape, Kept, Holds, Entry, StartMonitoring
<1>4. ASSUME wish' = "off" PROVE Off'
  <2>1. Off BY <1>4 DEF IInv, StartMonitoring
  <2>2. (Here /\ Disabled /\ entry.conn = None /\ entry.config \in disabled)'
    BY <1>4, <2>1 DEF IInv, TypeOK, Shape, Off, OffTask, Adding, Enabling, Entry, StartMonitoring
  <2>3. ASSUME NEW u \in Tasks PROVE OffTask(u)'
    BY <1>4, <2>1, OpsAssumption
      DEF IInv, TypeOK, Shape, Off, OffTask, Adding, Enabling, Entry, StartMonitoring
  <2> QED BY <2>2, <2>3 DEF Off
<1> QED BY <1>1, <1>2, <1>3, <1>4 DEF IInv

\* A monitor does not touch the entry.
LEMMA StartKeeps ==
  ASSUME IInv, NEW t \in Tasks, Start(t), disturbed' \subseteq {"overlap", "revived"}
  PROVE  IInv'
<1>0. Returned(t)
  <2>1. Finish(t, TRUE) BY DEF Start
  <2> QED BY <2>1, Finishes
<1>1. TypeOK'
  <2>1. task' \in [Tasks -> TaskRecords]
    BY <1>0, TaskAssumption, OpsAssumption
      DEF IInv, TypeOK, Shape, AllOps, Places, Names, Start, Returned
  <2>2. monitor' \in [Tasks -> MonitorRecords]
    BY <1>0 DEF Returned
  <2>3. \A u \in Tasks : u \in {mu, hmm, guard}' => Pending(u)'
    BY <1>0, TaskAssumption, OpsAssumption DEF IInv, TypeOK, Shape, Kept, Holds, Start, Returned
  <2> QED BY <1>0, <2>1, <2>2, <2>3, TaskAssumption
    DEF IInv, TypeOK, Shape, Kept, Holds, Names, Entry, Absent, Start, Returned
<1>2. ASSUME NEW u \in Tasks PROVE Shape(u)'
  BY <1>0, OpsAssumption DEF IInv, TypeOK, Shape, AllOps, Start, Returned
<1>3. ASSUME NEW u \in Tasks PROVE Kept(u)'
  BY <1>0, TaskAssumption, OpsAssumption DEF IInv, TypeOK, Shape, Kept, Holds, Entry, Start, Returned
<1>4. ASSUME wish' = "off" PROVE Off'
  <2>1. Off BY <1>0, <1>4 DEF IInv, Start, Returned
  <2>2. (Here /\ Disabled /\ entry.conn = None /\ entry.config \in disabled)'
    BY <1>0, <1>4, <2>1 DEF IInv, TypeOK, Shape, Off, OffTask, Adding, Enabling, Entry, Start, Returned
  <2>3. ASSUME NEW u \in Tasks PROVE OffTask(u)'
    BY <1>0, <1>4, <2>1, OpsAssumption
      DEF IInv, TypeOK, Shape, Off, OffTask, Adding, Enabling, Entry, Start, Returned
  <2> QED BY <2>2, <2>3 DEF Off
<1> QED BY <1>1, <1>2, <1>3, <1>4 DEF IInv

\* Cleanup takes no lock of the manager yet.
LEMMA StopAllKeeps ==
  ASSUME IInv, NEW t \in Tasks, StopAll(t), disturbed' \subseteq {"overlap", "revived"}
  PROVE  IInv'
<1>1. TypeOK'
  <2>1. task' \in [Tasks -> TaskRecords]
    BY TaskAssumption, OpsAssumption DEF IInv, TypeOK, Shape, AllOps, Places, Names, StopAll
  <2>2. monitor' \in [Tasks -> MonitorRecords]
    BY FailuresAssumption DEF IInv, TypeOK, StopAll
  <2>3. \A u \in Tasks : u \in {mu, hmm, guard}' => Pending(u)'
    BY TaskAssumption, OpsAssumption DEF IInv, TypeOK, Shape, Kept, Holds, StopAll
  <2> QED BY <2>1, <2>2, <2>3, TaskAssumption
    DEF IInv, TypeOK, Shape, Kept, Holds, Names, Entry, Absent, StopAll
<1>2. ASSUME NEW u \in Tasks PROVE Shape(u)'
  BY OpsAssumption DEF IInv, TypeOK, Shape, AllOps, StopAll
<1>3. ASSUME NEW u \in Tasks PROVE Kept(u)'
  BY TaskAssumption, OpsAssumption DEF IInv, TypeOK, Shape, Kept, Holds, Entry, StopAll
<1>4. ASSUME wish' = "off" PROVE Off'
  <2>1. Off BY <1>4 DEF IInv, StopAll
  <2>2. (Here /\ Disabled /\ entry.conn = None /\ entry.config \in disabled)'
    BY <1>4, <2>1 DEF IInv, TypeOK, Shape, Off, OffTask, Adding, Enabling, Entry, StopAll
  <2>3. ASSUME NEW u \in Tasks PROVE OffTask(u)'
    BY <1>4, <2>1, OpsAssumption DEF IInv, TypeOK, Shape, Off, OffTask, Adding, Enabling, Entry, StopAll
  <2> QED BY <2>2, <2>3 DEF Off
<1> QED BY <1>1, <1>2, <1>3, <1>4 DEF IInv

\* The wish ends with the client.
LEMMA RemoveClientKeeps ==
  ASSUME IInv, NEW t \in Tasks, RemoveClient(t), disturbed' \subseteq {"overlap", "revived"}
  PROVE  IInv'
<1>1. TypeOK'
  <2>1. task' \in [Tasks -> TaskRecords]
    BY TaskAssumption, OpsAssumption DEF IInv, TypeOK, Shape, AllOps, Places, Names, RemoveClient
  <2>2. monitor' \in [Tasks -> MonitorRecords]
    BY FailuresAssumption DEF IInv, TypeOK, RemoveClient
  <2>3. \A u \in Tasks : u \in {mu, hmm, guard}' => Pending(u)'
    BY TaskAssumption, OpsAssumption DEF IInv, TypeOK, Shape, Kept, Holds, RemoveClient
  <2> QED BY <2>1, <2>2, <2>3, TaskAssumption
    DEF IInv, TypeOK, Shape, Kept, Holds, Names, Entry, Absent, RemoveClient
<1>2. ASSUME NEW u \in Tasks PROVE Shape(u)'
  BY OpsAssumption DEF IInv, TypeOK, Shape, AllOps, RemoveClient
<1>3. ASSUME NEW u \in Tasks PROVE Kept(u)'
  BY TaskAssumption, OpsAssumption DEF IInv, TypeOK, Shape, Kept, Holds, Entry, RemoveClient
<1>4. ASSUME wish' = "off" PROVE Off'
  <2>1. Off BY <1>4 DEF IInv, RemoveClient
  <2>2. (Here /\ Disabled /\ entry.conn = None /\ entry.config \in disabled)'
    BY <1>4, <2>1 DEF IInv, TypeOK, Shape, Off, OffTask, Adding, Enabling, Entry, RemoveClient
  <2>3. ASSUME NEW u \in Tasks PROVE OffTask(u)'
    BY <1>4, <2>1, OpsAssumption
      DEF IInv, TypeOK, Shape, Off, OffTask, Adding, Enabling, Entry, RemoveClient
  <2> QED BY <2>2, <2>3 DEF Off
<1> QED BY <1>1, <1>2, <1>3, <1>4 DEF IInv

\* The guard keeps every other attempt out but an AddClient and an EnableClient.
LEMMA DisableClientKeeps ==
  ASSUME IInv, NEW t \in Tasks, DisableClient(t), disturbed' \subseteq {"overlap", "revived"}
  PROVE  IInv'
<1>1. TypeOK'
  <2>1. task' \in [Tasks -> TaskRecords]
    BY TaskAssumption, OpsAssumption DEF IInv, TypeOK, Shape, AllOps, Places, Names, DisableClient
  <2>2. monitor' \in [Tasks -> MonitorRecords]
    BY FailuresAssumption DEF IInv, TypeOK, DisableClient
  <2>3. \A u \in Tasks : u \in {mu, hmm, guard}' => Pending(u)'
    BY TaskAssumption, OpsAssumption DEF IInv, TypeOK, Shape, Kept, Holds, DisableClient
  <2> QED BY <2>1, <2>2, <2>3, TaskAssumption
    DEF IInv, TypeOK, Shape, Kept, Holds, Names, Entry, Absent, DisableClient
<1>2. ASSUME NEW u \in Tasks PROVE Shape(u)'
  BY OpsAssumption DEF IInv, TypeOK, Shape, AllOps, DisableClient
<1>3. ASSUME NEW u \in Tasks PROVE Kept(u)'
  BY TaskAssumption, OpsAssumption DEF IInv, TypeOK, Shape, Kept, Holds, Entry, DisableClient
<1>4. ASSUME wish' = "off" PROVE Off'
  <2>1. Op(t) = "disable" /\ guard = t /\ At(t, "stop") BY DEF DisableClient, IInv, Kept, Holds
  <2>2. ASSUME NEW u \in Tasks PROVE ~Adding(u) /\ ~Enabling(u)
    <3>1. CASE \E v \in Tasks : Adding(v) \/ Enabling(v)
      <4>1. Off BY <1>4, <3>1 DEF DisableClient, IInv
      <4> QED BY <4>1 DEF Off, OffTask
    <3> QED BY <3>1
  <2>3. ASSUME NEW u \in Tasks, u # t PROVE ~(task[u].at \in Inside) /\ ~(Op(u) = "reauth" /\ At(u, "restore"))
    <3>1. ~Holds(u) BY <2>1, <2>3 DEF IInv, Kept
    <3>2. Shape(u) BY DEF IInv
    <3> QED BY <2>2, <3>1, <3>2 DEF Holds, Shape, Adding, Enabling
  <2>4. ASSUME NEW u \in Tasks PROVE OffTask(u)'
    <3>1. CASE u = t BY <3>1 DEF IInv, TypeOK, DisableClient, OffTask, Adding, Enabling
    <3>2. CASE u # t
      <4>1. task'[u] = task[u] BY <3>2 DEF IInv, TypeOK, DisableClient
      <4> QED BY <2>2, <2>3, <3>2, <4>1 DEF OffTask, Adding, Enabling
    <3> QED BY <3>1, <3>2
  <2>5. (Here /\ Disabled /\ entry.conn = None /\ entry.config \in disabled)' BY DEF DisableClient, Entry
  <2> QED BY <2>4, <2>5 DEF Off
<1> QED BY <1>1, <1>2, <1>3, <1>4 DEF IInv

\* A check only reads the entry.
LEMMA CheckKeeps ==
  ASSUME IInv, NEW t \in Tasks, Check(t), disturbed' \subseteq {"overlap", "revived"}
  PROVE  IInv'
<1>1. TypeOK'
  <2>1. task' \in [Tasks -> TaskRecords]
    BY TaskAssumption, OpsAssumption DEF IInv, TypeOK, Shape, AllOps, Places, Names, Check
  <2>2. monitor' \in [Tasks -> MonitorRecords]
    <3>1. /\ [at |-> "good", fails |-> 0] \in MonitorRecords
         /\ [at |-> "bad", fails |-> MaxFailures] \in MonitorRecords
      BY FailuresAssumption
    <3>2. CASE monitor' = [monitor EXCEPT ![t] = [at |-> "good", fails |-> 0]] BY <3>1, <3>2
      DEF IInv, TypeOK
    <3>3. CASE monitor' = [monitor EXCEPT ![t] = [at |-> "bad", fails |-> MaxFailures]] BY <3>1, <3>3
      DEF IInv, TypeOK
    <3>4. CASE monitor[t].fails + 1 < MaxFailures /\ monitor' = [monitor EXCEPT ![t].fails = monitor[t].fails + 1]
      BY <3>4, FailuresAssumption DEF IInv, TypeOK
    <3>5. CASE UNCHANGED monitor BY <3>5 DEF IInv, TypeOK
    <3>6. monitor[t].fails \in Nat /\ MaxFailures \in Nat BY FailuresAssumption DEF IInv, TypeOK
    <3> QED BY <3>2, <3>3, <3>4, <3>5, <3>6 DEF Check
  <2>3. \A u \in Tasks : u \in {mu, hmm, guard}' => Pending(u)'
    BY TaskAssumption, OpsAssumption DEF IInv, TypeOK, Shape, Kept, Holds, Check
  <2> QED BY <2>1, <2>2, <2>3, TaskAssumption
    DEF IInv, TypeOK, Shape, Kept, Holds, Names, Entry, Absent, Check
<1>2. ASSUME NEW u \in Tasks PROVE Shape(u)'
  BY OpsAssumption DEF IInv, TypeOK, Shape, AllOps, Check
<1>3. ASSUME NEW u \in Tasks PROVE Kept(u)'
  BY TaskAssumption, OpsAssumption DEF IInv, TypeOK, Shape, Kept, Holds, Entry, Check
<1>4. ASSUME wish' = "off" PROVE Off'
  <2>1. Off BY <1>4 DEF IInv, Check
  <2>2. (Here /\ Disabled /\ entry.conn = None /\ entry.config \in disabled)'
    BY <1>4, <2>1 DEF IInv, TypeOK, Shape, Off, OffTask, Adding, Enabling, Entry, Check
  <2>3. ASSUME NEW u \in Tasks PROVE OffTask(u)'
    BY <1>4, <2>1, OpsAssumption DEF IInv, TypeOK, Shape, Off, OffTask, Adding, Enabling, Entry, Check
  <2> QED BY <2>2, <2>3 DEF Off
<1> QED BY <1>1, <1>2, <1>3, <1>4 DEF IInv

\* A late report finds the client disabled and leaves it so.
LEMMA ReportKeeps ==
  ASSUME IInv, NEW t \in Tasks, Report(t), disturbed' \subseteq {"overlap", "revived"}
  PROVE  IInv'
<1>1. TypeOK'
  <2>1. task' \in [Tasks -> TaskRecords]
    BY TaskAssumption, OpsAssumption DEF IInv, TypeOK, Shape, AllOps, Places, Names, Report, State
  <2>2. monitor' \in [Tasks -> MonitorRecords]
    BY FailuresAssumption DEF IInv, TypeOK, Report, State
  <2>3. \A u \in Tasks : u \in {mu, hmm, guard}' => Pending(u)'
    BY TaskAssumption, OpsAssumption DEF IInv, TypeOK, Shape, Kept, Holds, Report, State
  <2> QED BY <2>1, <2>2, <2>3, TaskAssumption
    DEF IInv, TypeOK, Shape, Kept, Holds, Names, Entry, Absent, Report, State
<1>2. ASSUME NEW u \in Tasks PROVE Shape(u)'
  BY OpsAssumption DEF IInv, TypeOK, Shape, AllOps, Report, State
<1>3. ASSUME NEW u \in Tasks PROVE Kept(u)'
  BY TaskAssumption, OpsAssumption DEF IInv, TypeOK, Shape, Kept, Holds, Entry, Report, State
<1>4. ASSUME wish' = "off" PROVE Off'
  <2>1. Off BY <1>4 DEF IInv, Report, State
  <2>2. (Here /\ Disabled /\ entry.conn = None /\ entry.config \in disabled)'
    BY <1>4, <2>1 DEF IInv, TypeOK, Shape, Off, OffTask, Adding, Enabling, Entry, Report, State
  <2>3. ASSUME NEW u \in Tasks PROVE OffTask(u)'
    BY <1>4, <2>1, OpsAssumption
      DEF IInv, TypeOK, Shape, Off, OffTask, Adding, Enabling, Entry, Report, State
  <2> QED BY <2>2, <2>3 DEF Off
<1> QED BY <1>1, <1>2, <1>3, <1>4 DEF IInv

\* A late report finds the client disabled and leaves it so.
LEMMA ReportFailureKeeps ==
  ASSUME IInv, NEW t \in Tasks, ReportFailure(t), disturbed' \subseteq {"overlap", "revived"}
  PROVE  IInv'
<1>1. TypeOK'
  <2>1. task' \in [Tasks -> TaskRecords]
    BY TaskAssumption, OpsAssumption DEF IInv, TypeOK, Shape, AllOps, Places, Names, ReportFailure, State
  <2>2. monitor' \in [Tasks -> MonitorRecords]
    BY FailuresAssumption DEF IInv, TypeOK, ReportFailure, State
  <2>3. \A u \in Tasks : u \in {mu, hmm, guard}' => Pending(u)'
    BY TaskAssumption, OpsAssumption DEF IInv, TypeOK, Shape, Kept, Holds, ReportFailure, State
  <2> QED BY <2>1, <2>2, <2>3, TaskAssumption
    DEF IInv, TypeOK, Shape, Kept, Holds, Names, Entry, Absent, ReportFailure, State
<1>2. ASSUME NEW u \in Tasks PROVE Shape(u)'
  BY OpsAssumption DEF IInv, TypeOK, Shape, AllOps, ReportFailure, State
<1>3. ASSUME NEW u \in Tasks PROVE Kept(u)'
  BY TaskAssumption, OpsAssumption DEF IInv, TypeOK, Shape, Kept, Holds, Entry, ReportFailure, State
<1>4. ASSUME wish' = "off" PROVE Off'
  <2>1. Off BY <1>4 DEF IInv, ReportFailure, State
  <2>2. (Here /\ Disabled /\ entry.conn = None /\ entry.config \in disabled)'
    BY <1>4, <2>1 DEF IInv, TypeOK, Shape, Off, OffTask, Adding, Enabling, Entry, ReportFailure, State
  <2>3. ASSUME NEW u \in Tasks PROVE OffTask(u)'
    BY <1>4, <2>1, OpsAssumption
      DEF IInv, TypeOK, Shape, Off, OffTask, Adding, Enabling, Entry, ReportFailure, State
  <2> QED BY <2>2, <2>3 DEF Off
<1> QED BY <1>1, <1>2, <1>3, <1>4 DEF IInv

\* A reconnect that finds the client disabled gives up.
LEMMA AttemptReconnectKeeps ==
  ASSUME IInv, NEW t \in Tasks, AttemptReconnect(t), disturbed' \subseteq {"overlap", "revived"}
  PROVE  IInv'
<1>1. CASE Disabled
  <2>0. Returned(t)
    <3>1. Finish(t, FALSE) BY <1>1 DEF AttemptReconnect
    <3> QED BY <3>1, Finishes
  <2>1. TypeOK'
    <3>1. task' \in [Tasks -> TaskRecords]
      BY <1>1, <2>0, TaskAssumption, OpsAssumption
        DEF IInv, TypeOK, Shape, AllOps, Places, Names, AttemptReconnect, Returned
    <3>2. monitor' \in [Tasks -> MonitorRecords]
      BY <2>0 DEF Returned
    <3>3. \A u \in Tasks : u \in {mu, hmm, guard}' => Pending(u)'
      BY <1>1, <2>0, TaskAssumption, OpsAssumption
        DEF IInv, TypeOK, Shape, Kept, Holds, AttemptReconnect, Returned
    <3> QED BY <1>1, <2>0, <3>1, <3>2, <3>3, TaskAssumption
      DEF IInv, TypeOK, Shape, Kept, Holds, Names, Entry, Absent, AttemptReconnect, Returned
  <2>2. ASSUME NEW u \in Tasks PROVE Shape(u)'
    BY <1>1, <2>0, OpsAssumption DEF IInv, TypeOK, Shape, AllOps, AttemptReconnect, Returned
  <2>3. ASSUME NEW u \in Tasks PROVE Kept(u)'
    BY <1>1, <2>0, TaskAssumption, OpsAssumption
      DEF IInv, TypeOK, Shape, Kept, Holds, Entry, AttemptReconnect, Returned
  <2>4. ASSUME wish' = "off" PROVE Off'
    <3>1. Off BY <1>1, <2>0, <2>4 DEF IInv, AttemptReconnect, Returned
    <3>2. (Here /\ Disabled /\ entry.conn = None /\ entry.config \in disabled)'
      BY <1>1, <2>0, <2>4, <3>1
        DEF IInv, TypeOK, Shape, Off, OffTask, Adding, Enabling, Entry, AttemptReconnect, Returned
    <3>3. ASSUME NEW u \in Tasks PROVE OffTask(u)'
      BY <1>1, <2>0, <2>4, <3>1, OpsAssumption
        DEF IInv, TypeOK, Shape, Off, OffTask, Adding, Enabling, Entry, AttemptReconnect, Returned
    <3> QED BY <3>2, <3>3 DEF Off
  <2> QED BY <2>1, <2>2, <2>3, <2>4 DEF IInv
<1>2. CASE ~Disabled
  <2>1. TypeOK'
    <3>1. task' \in [Tasks -> TaskRecords]
      BY <1>2, TaskAssumption, OpsAssumption
        DEF IInv, TypeOK, Shape, AllOps, Places, Names, AttemptReconnect
    <3>2. monitor' \in [Tasks -> MonitorRecords]
      BY <1>2, FailuresAssumption DEF IInv, TypeOK, AttemptReconnect
    <3>3. \A u \in Tasks : u \in {mu, hmm, guard}' => Pending(u)'
      BY <1>2, TaskAssumption, OpsAssumption DEF IInv, TypeOK, Shape, Kept, Holds, AttemptReconnect
    <3> QED BY <1>2, <3>1, <3>2, <3>3, TaskAssumption
      DEF IInv, TypeOK, Shape, Kept, Holds, Names, Entry, Absent, AttemptReconnect
  <2>2. ASSUME NEW u \in Tasks PROVE Shape(u)'
    BY <1>2, OpsAssumption DEF IInv, TypeOK, Shape, AllOps, AttemptReconnect
  <2>3. ASSUME NEW u \in Tasks PROVE Kept(u)'
    BY <1>2, TaskAssumption, OpsAssumption DEF IInv, TypeOK, Shape, Kept, Holds, Entry, AttemptReconnect
  <2>4. ASSUME wish' = "off" PROVE Off'
    <3>1. Off BY <1>2, <2>4 DEF IInv, AttemptReconnect
    <3>2. (Here /\ Disabled /\ entry.conn = None /\ entry.config \in disabled)'
      BY <1>2, <2>4, <3>1
        DEF IInv, TypeOK, Shape, Off, OffTask, Adding, Enabling, Entry, AttemptReconnect
    <3>3. ASSUME NEW u \in Tasks PROVE OffTask(u)'
      BY <1>2, <2>4, <3>1, OpsAssumption
        DEF IInv, TypeOK, Shape, Off, OffTask, Adding, Enabling, Entry, AttemptReconnect
    <3> QED BY <3>2, <3>3 DEF Off
  <2> QED BY <2>1, <2>2, <2>3, <2>4 DEF IInv
<1> QED BY <1>1, <1>2

\* A failed attempt goes on to its error path.
LEMMA FailedKeeps ==
  ASSUME IInv, NEW t \in Tasks, Failed(t), task[t].at \in Inside, entry' = entry, open' \subseteq Tasks,
         UNCHANGED <<disabled, mu, hmm, running, registered, wish>>,
         disturbed' \subseteq {"overlap", "revived"}
  PROVE  IInv'
<1>1. CASE Op(t) \in {"add", "boot"}
  <2>0. Go(t, "undo") BY <1>1 DEF Failed
  <2>1. TypeOK'
    <3>1. task' \in [Tasks -> TaskRecords]
      BY <1>1, <2>0, TaskAssumption, OpsAssumption DEF IInv, TypeOK, Shape, AllOps, Places, Names, Turn
    <3>2. monitor' \in [Tasks -> MonitorRecords]
      BY <1>1, <2>0, FailuresAssumption DEF IInv, TypeOK, Turn
    <3>3. \A u \in Tasks : u \in {mu, hmm, guard}' => Pending(u)'
      BY <1>1, <2>0, TaskAssumption, OpsAssumption DEF IInv, TypeOK, Shape, Kept, Holds, Turn
    <3> QED BY <1>1, <2>0, <3>1, <3>2, <3>3, TaskAssumption
      DEF IInv, TypeOK, Shape, Kept, Holds, Names, Entry, Absent, Turn
  <2>2. ASSUME NEW u \in Tasks PROVE Shape(u)'
    BY <1>1, <2>0, OpsAssumption DEF IInv, TypeOK, Shape, AllOps, Turn
  <2>3. ASSUME NEW u \in Tasks PROVE Kept(u)'
    BY <1>1, <2>0, TaskAssumption, OpsAssumption DEF IInv, TypeOK, Shape, Kept, Holds, Entry, Turn
  <2>4. ASSUME wish' = "off" PROVE Off'
    <3>1. Off BY <1>1, <2>0, <2>4 DEF IInv, Turn
    <3>2. (Here /\ Disabled /\ entry.conn = None /\ entry.config \in disabled)'
      BY <1>1, <2>0, <2>4, <3>1 DEF IInv, TypeOK, Shape, Off, OffTask, Adding, Enabling, Entry, Turn
    <3>3. ASSUME NEW u \in Tasks PROVE OffTask(u)'
      BY <1>1, <2>0, <2>4, <3>1, OpsAssumption
        DEF IInv, TypeOK, Shape, Off, OffTask, Adding, Enabling, Entry, Turn
    <3> QED BY <3>2, <3>3 DEF Off
  <2> QED BY <2>1, <2>2, <2>3, <2>4 DEF IInv
<1>2. CASE Op(t) = "enable"
  <2>0. Go(t, "mark") BY <1>2 DEF Failed
  <2>1. TypeOK'
    <3>1. task' \in [Tasks -> TaskRecords]
      BY <1>2, <2>0, TaskAssumption, OpsAssumption DEF IInv, TypeOK, Shape, AllOps, Places, Names, Turn
    <3>2. monitor' \in [Tasks -> MonitorRecords]
      BY <1>2, <2>0, FailuresAssumption DEF IInv, TypeOK, Turn
    <3>3. \A u \in Tasks : u \in {mu, hmm, guard}' => Pending(u)'
      BY <1>2, <2>0, TaskAssumption, OpsAssumption DEF IInv, TypeOK, Shape, Kept, Holds, Turn
    <3> QED BY <1>2, <2>0, <3>1, <3>2, <3>3, TaskAssumption
      DEF IInv, TypeOK, Shape, Kept, Holds, Names, Entry, Absent, Turn
  <2>2. ASSUME NEW u \in Tasks PROVE Shape(u)'
    BY <1>2, <2>0, OpsAssumption DEF IInv, TypeOK, Shape, AllOps, Turn
  <2>3. ASSUME NEW u \in Tasks PROVE Kept(u)'
    BY <1>2, <2>0, TaskAssumption, OpsAssumption DEF IInv, TypeOK, Shape, Kept, Holds, Entry, Turn
  <2>4. ASSUME wish' = "off" PROVE Off'
    <3>1. Off BY <1>2, <2>0, <2>4 DEF IInv, Turn
    <3>2. (Here /\ Disabled /\ entry.conn = None /\ entry.config \in disabled)'
      BY <1>2, <2>0, <2>4, <3>1 DEF IInv, TypeOK, Shape, Off, OffTask, Adding, Enabling, Entry, Turn
    <3>3. ASSUME NEW u \in Tasks PROVE OffTask(u)'
      BY <1>2, <2>0, <2>4, <3>1, OpsAssumption
        DEF IInv, TypeOK, Shape, Off, OffTask, Adding, Enabling, Entry, Turn
    <3> QED BY <3>2, <3>3 DEF Off
  <2> QED BY <2>1, <2>2, <2>3, <2>4 DEF IInv
<1>3. CASE Op(t) = "reauth"
  <2>0. Go(t, "restore") BY <1>3 DEF Failed
  <2>1. TypeOK'
    <3>1. task' \in [Tasks -> TaskRecords]
      BY <1>3, <2>0, TaskAssumption, OpsAssumption DEF IInv, TypeOK, Shape, AllOps, Places, Names, Turn
    <3>2. monitor' \in [Tasks -> MonitorRecords]
      BY <1>3, <2>0, FailuresAssumption DEF IInv, TypeOK, Turn
    <3>3. \A u \in Tasks : u \in {mu, hmm, guard}' => Pending(u)'
      BY <1>3, <2>0, TaskAssumption, OpsAssumption DEF IInv, TypeOK, Shape, Kept, Holds, Turn
    <3> QED BY <1>3, <2>0, <3>1, <3>2, <3>3, TaskAssumption
      DEF IInv, TypeOK, Shape, Kept, Holds, Names, Entry, Absent, Turn
  <2>2. ASSUME NEW u \in Tasks PROVE Shape(u)'
    BY <1>3, <2>0, OpsAssumption DEF IInv, TypeOK, Shape, AllOps, Turn
  <2>3. ASSUME NEW u \in Tasks PROVE Kept(u)'
    BY <1>3, <2>0, TaskAssumption, OpsAssumption DEF IInv, TypeOK, Shape, Kept, Holds, Entry, Turn
  <2>4. ASSUME wish' = "off" PROVE Off'
    <3>1. Off BY <1>3, <2>0, <2>4 DEF IInv, Turn
    <3>2. (Here /\ Disabled /\ entry.conn = None /\ entry.config \in disabled)'
      BY <1>3, <2>0, <2>4, <3>1 DEF IInv, TypeOK, Shape, Off, OffTask, Adding, Enabling, Entry, Turn
    <3>3. ASSUME NEW u \in Tasks PROVE OffTask(u)'
      BY <1>3, <2>0, <2>4, <3>1, OpsAssumption
        DEF IInv, TypeOK, Shape, Off, OffTask, Adding, Enabling, Entry, Turn
    <3> QED BY <3>2, <3>3 DEF Off
  <2> QED BY <2>1, <2>2, <2>3, <2>4 DEF IInv
<1>4. CASE Op(t) \notin {"add", "boot", "enable", "reauth"}
  <2>0. Returned(t)
    <3>1. Finish(t, FALSE) BY <1>4 DEF Failed
    <3> QED BY <3>1, Finishes
  <2>1. TypeOK'
    <3>1. task' \in [Tasks -> TaskRecords]
      BY <1>4, <2>0, TaskAssumption, OpsAssumption
        DEF IInv, TypeOK, Shape, AllOps, Places, Names, Failed, Returned
    <3>2. monitor' \in [Tasks -> MonitorRecords]
      BY <2>0 DEF Returned
    <3>3. \A u \in Tasks : u \in {mu, hmm, guard}' => Pending(u)'
      BY <1>4, <2>0, TaskAssumption, OpsAssumption DEF IInv, TypeOK, Shape, Kept, Holds, Failed, Returned
    <3> QED BY <1>4, <2>0, <3>1, <3>2, <3>3, TaskAssumption
      DEF IInv, TypeOK, Shape, Kept, Holds, Names, Entry, Absent, Failed, Returned
  <2>2. ASSUME NEW u \in Tasks PROVE Shape(u)'
    BY <1>4, <2>0, OpsAssumption DEF IInv, TypeOK, Shape, AllOps, Failed, Returned
  <2>3. ASSUME NEW u \in Tasks PROVE Kept(u)'
    BY <1>4, <2>0, TaskAssumption, OpsAssumption
      DEF IInv, TypeOK, Shape, Kept, Holds, Entry, Failed, Returned
  <2>4. ASSUME wish' = "off" PROVE Off'
    <3>1. Off BY <1>4, <2>0, <2>4 DEF IInv, Failed, Returned
    <3>2. (Here /\ Disabled /\ entry.conn = None /\ entry.config \in disabled)'
      BY <1>4, <2>0, <2>4, <3>1
        DEF IInv, TypeOK, Shape, Off, OffTask, Adding, Enabling, Entry, Failed, Returned
    <3>3. ASSUME NEW u \in Tasks PROVE OffTask(u)'
      BY <1>4, <2>0, <2>4, <3>1, OpsAssumption
        DEF IInv, TypeOK, Shape, Off, OffTask, Adding, Enabling, Entry, Failed, Returned
    <3> QED BY <3>2, <3>3 DEF Off
  <2> QED BY <2>1, <2>2, <2>3, <2>4 DEF IInv
<1> QED BY <1>1, <1>2, <1>3, <1>4

\* The first lock turns away who has a config that says disabled.
LEMMA ConnectKeeps ==
  ASSUME IInv, NEW t \in Tasks, Connect(t), disturbed' \subseteq {"overlap", "revived"}
  PROVE  IInv'
<1>1. CASE ~(Disabled /\ task[t].config \in disabled)
  <2>1. TypeOK'
    <3>1. task' \in [Tasks -> TaskRecords]
      BY <1>1, TaskAssumption, OpsAssumption DEF IInv, TypeOK, Shape, AllOps, Places, Names, Connect
    <3>2. monitor' \in [Tasks -> MonitorRecords]
      BY <1>1, FailuresAssumption DEF IInv, TypeOK, Connect
    <3>3. \A u \in Tasks : u \in {mu, hmm, guard}' => Pending(u)'
      BY <1>1, TaskAssumption, OpsAssumption DEF IInv, TypeOK, Shape, Kept, Holds, Connect
    <3> QED BY <1>1, <3>1, <3>2, <3>3, TaskAssumption
      DEF IInv, TypeOK, Shape, Kept, Holds, Names, Entry, Absent, Connect
  <2>2. ASSUME NEW u \in Tasks PROVE Shape(u)'
    BY <1>1, OpsAssumption DEF IInv, TypeOK, Shape, AllOps, Connect
  <2>3. ASSUME NEW u \in Tasks PROVE Kept(u)'
    BY <1>1, TaskAssumption, OpsAssumption DEF IInv, TypeOK, Shape, Kept, Holds, Entry, Connect
  <2>4. ASSUME wish' = "off" PROVE Off'
    <3>1. Off BY <1>1, <2>4 DEF IInv, Connect
    <3>2. (Here /\ Disabled /\ entry.conn = None /\ entry.config \in disabled)'
      BY <1>1, <2>4, <3>1 DEF IInv, TypeOK, Shape, Off, OffTask, Adding, Enabling, Entry, Connect
    <3>3. ASSUME NEW u \in Tasks PROVE OffTask(u)'
      BY <1>1, <2>4, <3>1, OpsAssumption
        DEF IInv, TypeOK, Shape, Off, OffTask, Adding, Enabling, Entry, Connect
    <3> QED BY <3>2, <3>3 DEF Off
  <2> QED BY <2>1, <2>2, <2>3, <2>4 DEF IInv
<1>2. CASE Disabled /\ task[t].config \in disabled
  BY <1>2, FailedKeeps DEF Connect, IInv, TypeOK
<1> QED BY <1>1, <1>2

\* Nobody dials while the client is off.
LEMMA DialKeeps ==
  ASSUME IInv, NEW t \in Tasks, Dial(t), disturbed' \subseteq {"overlap", "revived"}
  PROVE  IInv'
<1>1. CASE open' \in {open, open \union {t}} /\ Go(t, "register")
  <2>1. TypeOK'
    <3>1. task' \in [Tasks -> TaskRecords]
      BY <1>1, TaskAssumption, OpsAssumption DEF IInv, TypeOK, Shape, AllOps, Places, Names, Dial
    <3>2. monitor' \in [Tasks -> MonitorRecords]
      BY <1>1, FailuresAssumption DEF IInv, TypeOK, Dial
    <3>3. \A u \in Tasks : u \in {mu, hmm, guard}' => Pending(u)'
      BY <1>1, TaskAssumption, OpsAssumption DEF IInv, TypeOK, Shape, Kept, Holds, Dial
    <3> QED BY <1>1, <3>1, <3>2, <3>3, TaskAssumption
      DEF IInv, TypeOK, Shape, Kept, Holds, Names, Entry, Absent, Dial
  <2>2. ASSUME NEW u \in Tasks PROVE Shape(u)'
    BY <1>1, OpsAssumption DEF IInv, TypeOK, Shape, AllOps, Dial
  <2>3. ASSUME NEW u \in Tasks PROVE Kept(u)'
    BY <1>1, TaskAssumption, OpsAssumption DEF IInv, TypeOK, Shape, Kept, Holds, Entry, Dial
  <2>4. ASSUME wish' = "off" PROVE Off'
    <3>1. Off BY <1>1, <2>4 DEF IInv, Dial
    <3>2. (Here /\ Disabled /\ entry.conn = None /\ entry.config \in disabled)'
      BY <1>1, <2>4, <3>1 DEF IInv, TypeOK, Shape, Off, OffTask, Adding, Enabling, Entry, Dial
    <3>3. ASSUME NEW u \in Tasks PROVE OffTask(u)'
      BY <1>1, <2>4, <3>1, OpsAssumption
        DEF IInv, TypeOK, Shape, Off, OffTask, Adding, Enabling, Entry, Dial
    <3> QED BY <3>2, <3>3 DEF Off
  <2> QED BY <2>1, <2>2, <2>3, <2>4 DEF IInv
<1>2. CASE Failed(t) /\ UNCHANGED open
  BY <1>2, FailedKeeps DEF Dial, IInv, TypeOK
<1> QED BY <1>1, <1>2 DEF Dial

\* Nobody registers a connection while the client is off.
LEMMA RegisterKeeps ==
  ASSUME IInv, NEW t \in Tasks, Register(t), disturbed' \subseteq {"overlap", "revived"}
  PROVE  IInv'
<1>1. CASE ~(~Here \/ Disabled)
  <2>1. TypeOK'
    <3>1. task' \in [Tasks -> TaskRecords]
      BY <1>1, TaskAssumption, OpsAssumption DEF IInv, TypeOK, Shape, AllOps, Places, Names, Register
    <3>2. monitor' \in [Tasks -> MonitorRecords]
      BY <1>1, FailuresAssumption DEF IInv, TypeOK, Register
    <3>3. \A u \in Tasks : u \in {mu, hmm, guard}' => Pending(u)'
      BY <1>1, TaskAssumption, OpsAssumption DEF IInv, TypeOK, Shape, Kept, Holds, Register
    <3> QED BY <1>1, <3>1, <3>2, <3>3, TaskAssumption
      DEF IInv, TypeOK, Shape, Kept, Holds, Names, Entry, Absent, Register
  <2>2. ASSUME NEW u \in Tasks PROVE Shape(u)'
    BY <1>1, OpsAssumption DEF IInv, TypeOK, Shape, AllOps, Register
  <2>3. ASSUME NEW u \in Tasks PROVE Kept(u)'
    BY <1>1, TaskAssumption, OpsAssumption DEF IInv, TypeOK, Shape, Kept, Holds, Entry, Register
  <2>4. ASSUME wish' = "off" PROVE Off'
    <3>1. Off BY <1>1, <2>4 DEF IInv, Register
    <3>2. (Here /\ Disabled /\ entry.conn = None /\ entry.config \in disabled)'
      BY <1>1, <2>4, <3>1 DEF IInv, TypeOK, Shape, Off, OffTask, Adding, Enabling, Entry, Register
    <3>3. ASSUME NEW u \in Tasks PROVE OffTask(u)'
      BY <1>1, <2>4, <3>1, OpsAssumption
        DEF IInv, TypeOK, Shape, Off, OffTask, Adding, Enabling, Entry, Register
    <3> QED BY <3>2, <3>3 DEF Off
  <2> QED BY <2>1, <2>2, <2>3, <2>4 DEF IInv
<1>2. CASE ~Here \/ Disabled
  BY <1>2, FailedKeeps DEF Register, IInv, TypeOK
<1> QED BY <1>1, <1>2

\* The guard is taken, or somebody has it and the operation returns.
LEMMA TakeGuardKeeps ==
  ASSUME IInv, NEW t \in Tasks, NEW op, NEW there, TakeGuard(t, op, there),
         \/ /\ At(t, "unused")
            /\ \/ op = "disable" /\ there = "lock"
               \/ op = "update" /\ there = "edit"
               \/ op \in {"reconnect", "reauth"} /\ there = "lookup"
         \/ /\ At(t, "guard") /\ op = Op(t)
            /\ there = IF Op(t) = "enable" THEN "connect" ELSE "lookup",
         disturbed' \subseteq {"overlap", "revived"}
  PROVE  IInv'
<1>1. CASE guard # None
  <2>0. Returned(t)
    <3>1. Finish(t, FALSE) BY <1>1 DEF TakeGuard
    <3> QED BY <3>1, Finishes
  <2>1. TypeOK'
    <3>1. task' \in [Tasks -> TaskRecords]
      BY <1>1, <2>0, TaskAssumption, OpsAssumption
        DEF IInv, TypeOK, Shape, AllOps, Places, Names, TakeGuard, Returned
    <3>2. monitor' \in [Tasks -> MonitorRecords]
      BY <2>0 DEF Returned
    <3>3. \A u \in Tasks : u \in {mu, hmm, guard}' => Pending(u)'
      BY <1>1, <2>0, TaskAssumption, OpsAssumption
        DEF IInv, TypeOK, Shape, Kept, Holds, TakeGuard, Returned
    <3> QED BY <1>1, <2>0, <3>1, <3>2, <3>3, TaskAssumption
      DEF IInv, TypeOK, Shape, Kept, Holds, Names, Entry, Absent, TakeGuard, Returned
  <2>2. ASSUME NEW u \in Tasks PROVE Shape(u)'
    BY <1>1, <2>0, OpsAssumption DEF IInv, TypeOK, Shape, AllOps, TakeGuard, Returned
  <2>3. ASSUME NEW u \in Tasks PROVE Kept(u)'
    BY <1>1, <2>0, TaskAssumption, OpsAssumption
      DEF IInv, TypeOK, Shape, Kept, Holds, Entry, TakeGuard, Returned
  <2>4. ASSUME wish' = "off" PROVE Off'
    <3>1. Off BY <1>1, <2>0, <2>4 DEF IInv, TakeGuard, Returned
    <3>2. (Here /\ Disabled /\ entry.conn = None /\ entry.config \in disabled)'
      BY <1>1, <2>0, <2>4, <3>1
        DEF IInv, TypeOK, Shape, Off, OffTask, Adding, Enabling, Entry, TakeGuard, Returned
    <3>3. ASSUME NEW u \in Tasks PROVE OffTask(u)'
      BY <1>1, <2>0, <2>4, <3>1, OpsAssumption
        DEF IInv, TypeOK, Shape, Off, OffTask, Adding, Enabling, Entry, TakeGuard, Returned
    <3> QED BY <3>2, <3>3 DEF Off
  <2> QED BY <2>1, <2>2, <2>3, <2>4 DEF IInv
<1>2. CASE guard = None
  <2>1. TypeOK'
    <3>1. task' \in [Tasks -> TaskRecords]
      BY <1>2, TaskAssumption, OpsAssumption DEF IInv, TypeOK, Shape, AllOps, Places, Names, TakeGuard
    <3>2. monitor' \in [Tasks -> MonitorRecords]
      BY <1>2, FailuresAssumption DEF IInv, TypeOK, TakeGuard
    <3>3. \A u \in Tasks : u \in {mu, hmm, guard}' => Pending(u)'
      BY <1>2, TaskAssumption, OpsAssumption DEF IInv, TypeOK, Shape, Kept, Holds, TakeGuard
    <3> QED BY <1>2, <3>1, <3>2, <3>3, TaskAssumption
      DEF IInv, TypeOK, Shape, Kept, Holds, Names, Entry, Absent, TakeGuard
  <2>2. ASSUME NEW u \in Tasks PROVE Shape(u)'
    BY <1>2, OpsAssumption DEF IInv, TypeOK, Shape, AllOps, TakeGuard
  <2>3. ASSUME NEW u \in Tasks PROVE Kept(u)'
    BY <1>2, TaskAssumption, OpsAssumption DEF IInv, TypeOK, Shape, Kept, Holds, Entry, TakeGuard
  <2>4. ASSUME wish' = "off" PROVE Off'
    <3>1. Off BY <1>2, <2>4 DEF IInv, TakeGuard
    <3>2. (Here /\ Disabled /\ entry.conn = None /\ entry.config \in disabled)'
      BY <1>2, <2>4, <3>1 DEF IInv, TypeOK, Shape, Off, OffTask, Adding, Enabling, Entry, TakeGuard
    <3>3. ASSUME NEW u \in Tasks PROVE OffTask(u)'
      BY <1>2, <2>4, <3>1, OpsAssumption
        DEF IInv, TypeOK, Shape, Off, OffTask, Adding, Enabling, Entry, TakeGuard
    <3> QED BY <3>2, <3>3 DEF Off
  <2> QED BY <2>1, <2>2, <2>3, <2>4 DEF IInv
<1> QED BY <1>1, <1>2

\* Each operation that asks for the guard carries what its next step needs.
LEMMA GuardedKeeps ==
  ASSUME IInv, NEW t \in Tasks, Guarded(t), disturbed' \subseteq {"overlap", "revived"}
  PROVE  IInv'
<1>1. CASE Begins(t, "disable") /\ TakeGuard(t, "disable", "lock") BY <1>1, TakeGuardKeeps
<1>2. CASE Begins(t, "update") /\ TakeGuard(t, "update", "edit") BY <1>2, TakeGuardKeeps
<1>3. ASSUME NEW op \in {"reconnect", "reauth"}, Begins(t, op), TakeGuard(t, op, "lookup") PROVE IInv'
  BY <1>3, TakeGuardKeeps
<1>4. CASE At(t, "guard") /\ TakeGuard(t, Op(t), IF Op(t) = "enable" THEN "connect" ELSE "lookup")
  BY <1>4, TakeGuardKeeps
<1> QED BY <1>1, <1>2, <1>3, <1>4 DEF Guarded

\* The lock is taken for a client that is there, or the operation returns.
LEMMA LockKeeps ==
  ASSUME IInv, NEW t \in Tasks, NEW op, Lock(t, op),
         (At(t, "unused") /\ op = "remove") \/ (At(t, "lock") /\ op = Op(t)),
         disturbed' \subseteq {"overlap", "revived"}
  PROVE  IInv'
<1>1. CASE At(t, "unused") /\ Here
  <2>1. TypeOK'
    <3>1. task' \in [Tasks -> TaskRecords]
      BY <1>1, TaskAssumption, OpsAssumption DEF IInv, TypeOK, Shape, AllOps, Places, Names, Lock
    <3>2. monitor' \in [Tasks -> MonitorRecords]
      BY <1>1, FailuresAssumption DEF IInv, TypeOK, Lock
    <3>3. \A u \in Tasks : u \in {mu, hmm, guard}' => Pending(u)'
      BY <1>1, TaskAssumption, OpsAssumption DEF IInv, TypeOK, Shape, Kept, Holds, Lock
    <3> QED BY <1>1, <3>1, <3>2, <3>3, TaskAssumption
      DEF IInv, TypeOK, Shape, Kept, Holds, Names, Entry, Absent, Lock
  <2>2. ASSUME NEW u \in Tasks PROVE Shape(u)'
    BY <1>1, OpsAssumption DEF IInv, TypeOK, Shape, AllOps, Lock
  <2>3. ASSUME NEW u \in Tasks PROVE Kept(u)'
    BY <1>1, TaskAssumption, OpsAssumption DEF IInv, TypeOK, Shape, Kept, Holds, Entry, Lock
  <2>4. ASSUME wish' = "off" PROVE Off'
    <3>1. Off BY <1>1, <2>4 DEF IInv, Lock
    <3>2. (Here /\ Disabled /\ entry.conn = None /\ entry.config \in disabled)'
      BY <1>1, <2>4, <3>1 DEF IInv, TypeOK, Shape, Off, OffTask, Adding, Enabling, Entry, Lock
    <3>3. ASSUME NEW u \in Tasks PROVE OffTask(u)'
      BY <1>1, <2>4, <3>1, OpsAssumption
        DEF IInv, TypeOK, Shape, Off, OffTask, Adding, Enabling, Entry, Lock
    <3> QED BY <3>2, <3>3 DEF Off
  <2> QED BY <2>1, <2>2, <2>3, <2>4 DEF IInv
<1>2. CASE At(t, "lock") /\ Op(t) = "disable" /\ op = "disable" /\ Here /\ ~Disabled
  <2>1. TypeOK'
    <3>1. task' \in [Tasks -> TaskRecords]
      BY <1>2, TaskAssumption, OpsAssumption DEF IInv, TypeOK, Shape, AllOps, Places, Names, Lock
    <3>2. monitor' \in [Tasks -> MonitorRecords]
      BY <1>2, FailuresAssumption DEF IInv, TypeOK, Lock
    <3>3. \A u \in Tasks : u \in {mu, hmm, guard}' => Pending(u)'
      BY <1>2, TaskAssumption, OpsAssumption DEF IInv, TypeOK, Shape, Kept, Holds, Lock
    <3> QED BY <1>2, <3>1, <3>2, <3>3, TaskAssumption
      DEF IInv, TypeOK, Shape, Kept, Holds, Names, Entry, Absent, Lock
  <2>2. ASSUME NEW u \in Tasks PROVE Shape(u)'
    BY <1>2, OpsAssumption DEF IInv, TypeOK, Shape, AllOps, Lock
  <2>3. ASSUME NEW u \in Tasks PROVE Kept(u)'
    BY <1>2, TaskAssumption, OpsAssumption DEF IInv, TypeOK, Shape, Kept, Holds, Entry, Lock
  <2>4. ASSUME wish' = "off" PROVE Off'
    <3>1. Off BY <1>2, <2>4 DEF IInv, Lock
    <3>2. (Here /\ Disabled /\ entry.conn = None /\ entry.config \in disabled)'
      BY <1>2, <2>4, <3>1 DEF IInv, TypeOK, Shape, Off, OffTask, Adding, Enabling, Entry, Lock
    <3>3. ASSUME NEW u \in Tasks PROVE OffTask(u)'
      BY <1>2, <2>4, <3>1, OpsAssumption
        DEF IInv, TypeOK, Shape, Off, OffTask, Adding, Enabling, Entry, Lock
    <3> QED BY <3>2, <3>3 DEF Off
  <2> QED BY <2>1, <2>2, <2>3, <2>4 DEF IInv
<1>3. CASE At(t, "lock") /\ Op(t) = "remove" /\ op = "remove" /\ Here
  <2>1. TypeOK'
    <3>1. task' \in [Tasks -> TaskRecords]
      BY <1>3, TaskAssumption, OpsAssumption DEF IInv, TypeOK, Shape, AllOps, Places, Names, Lock
    <3>2. monitor' \in [Tasks -> MonitorRecords]
      BY <1>3, FailuresAssumption DEF IInv, TypeOK, Lock
    <3>3. \A u \in Tasks : u \in {mu, hmm, guard}' => Pending(u)'
      BY <1>3, TaskAssumption, OpsAssumption DEF IInv, TypeOK, Shape, Kept, Holds, Lock
    <3> QED BY <1>3, <3>1, <3>2, <3>3, TaskAssumption
      DEF IInv, TypeOK, Shape, Kept, Holds, Names, Entry, Absent, Lock
  <2>2. ASSUME NEW u \in Tasks PROVE Shape(u)'
    BY <1>3, OpsAssumption DEF IInv, TypeOK, Shape, AllOps, Lock
  <2>3. ASSUME NEW u \in Tasks PROVE Kept(u)'
    BY <1>3, TaskAssumption, OpsAssumption DEF IInv, TypeOK, Shape, Kept, Holds, Entry, Lock
  <2>4. ASSUME wish' = "off" PROVE Off'
    <3>1. Off BY <1>3, <2>4 DEF IInv, Lock
    <3>2. (Here /\ Disabled /\ entry.conn = None /\ entry.config \in disabled)'
      BY <1>3, <2>4, <3>1 DEF IInv, TypeOK, Shape, Off, OffTask, Adding, Enabling, Entry, Lock
    <3>3. ASSUME NEW u \in Tasks PROVE OffTask(u)'
      BY <1>3, <2>4, <3>1, OpsAssumption
        DEF IInv, TypeOK, Shape, Off, OffTask, Adding, Enabling, Entry, Lock
    <3> QED BY <3>2, <3>3 DEF Off
  <2> QED BY <2>1, <2>2, <2>3, <2>4 DEF IInv
<1>4. CASE At(t, "unused") /\ ~Here
  <2>0. Returned(t)
    <3>1. Finish(t, FALSE) BY <1>4 DEF Lock
    <3> QED BY <3>1, Finishes
  <2>1. TypeOK'
    <3>1. task' \in [Tasks -> TaskRecords]
      BY <1>4, <2>0, TaskAssumption, OpsAssumption
        DEF IInv, TypeOK, Shape, AllOps, Places, Names, Lock, Returned
    <3>2. monitor' \in [Tasks -> MonitorRecords]
      BY <2>0 DEF Returned
    <3>3. \A u \in Tasks : u \in {mu, hmm, guard}' => Pending(u)'
      BY <1>4, <2>0, TaskAssumption, OpsAssumption DEF IInv, TypeOK, Shape, Kept, Holds, Lock, Returned
    <3> QED BY <1>4, <2>0, <3>1, <3>2, <3>3, TaskAssumption
      DEF IInv, TypeOK, Shape, Kept, Holds, Names, Entry, Absent, Lock, Returned
  <2>2. ASSUME NEW u \in Tasks PROVE Shape(u)'
    BY <1>4, <2>0, OpsAssumption DEF IInv, TypeOK, Shape, AllOps, Lock, Returned
  <2>3. ASSUME NEW u \in Tasks PROVE Kept(u)'
    BY <1>4, <2>0, TaskAssumption, OpsAssumption
      DEF IInv, TypeOK, Shape, Kept, Holds, Entry, Lock, Returned
  <2>4. ASSUME wish' = "off" PROVE Off'
    <3>1. Off BY <1>4, <2>0, <2>4 DEF IInv, Lock, Returned
    <3>2. (Here /\ Disabled /\ entry.conn = None /\ entry.config \in disabled)'
      BY <1>4, <2>0, <2>4, <3>1
        DEF IInv, TypeOK, Shape, Off, OffTask, Adding, Enabling, Entry, Lock, Returned
    <3>3. ASSUME NEW u \in Tasks PROVE OffTask(u)'
      BY <1>4, <2>0, <2>4, <3>1, OpsAssumption
        DEF IInv, TypeOK, Shape, Off, OffTask, Adding, Enabling, Entry, Lock, Returned
    <3> QED BY <3>2, <3>3 DEF Off
  <2> QED BY <2>1, <2>2, <2>3, <2>4 DEF IInv
<1>5. CASE At(t, "lock") /\ Op(t) = "disable" /\ Finish(t, FALSE) /\ UNCHANGED mu
  <2>0. Returned(t)
    <3>1. Finish(t, FALSE) BY <1>5 DEF Lock
    <3> QED BY <3>1, Finishes
  <2>1. TypeOK'
    <3>1. task' \in [Tasks -> TaskRecords]
      BY <1>5, <2>0, TaskAssumption, OpsAssumption
        DEF IInv, TypeOK, Shape, AllOps, Places, Names, Lock, Returned
    <3>2. monitor' \in [Tasks -> MonitorRecords]
      BY <2>0 DEF Returned
    <3>3. \A u \in Tasks : u \in {mu, hmm, guard}' => Pending(u)'
      BY <1>5, <2>0, TaskAssumption, OpsAssumption DEF IInv, TypeOK, Shape, Kept, Holds, Lock, Returned
    <3> QED BY <1>5, <2>0, <3>1, <3>2, <3>3, TaskAssumption
      DEF IInv, TypeOK, Shape, Kept, Holds, Names, Entry, Absent, Lock, Returned
  <2>2. ASSUME NEW u \in Tasks PROVE Shape(u)'
    BY <1>5, <2>0, OpsAssumption DEF IInv, TypeOK, Shape, AllOps, Lock, Returned
  <2>3. ASSUME NEW u \in Tasks PROVE Kept(u)'
    BY <1>5, <2>0, TaskAssumption, OpsAssumption
      DEF IInv, TypeOK, Shape, Kept, Holds, Entry, Lock, Returned
  <2>4. ASSUME wish' = "off" PROVE Off'
    <3>1. Off BY <1>5, <2>0, <2>4 DEF IInv, Lock, Returned
    <3>2. (Here /\ Disabled /\ entry.conn = None /\ entry.config \in disabled)'
      BY <1>5, <2>0, <2>4, <3>1
        DEF IInv, TypeOK, Shape, Off, OffTask, Adding, Enabling, Entry, Lock, Returned
    <3>3. ASSUME NEW u \in Tasks PROVE OffTask(u)'
      BY <1>5, <2>0, <2>4, <3>1, OpsAssumption
        DEF IInv, TypeOK, Shape, Off, OffTask, Adding, Enabling, Entry, Lock, Returned
    <3> QED BY <3>2, <3>3 DEF Off
  <2> QED BY <2>1, <2>2, <2>3, <2>4 DEF IInv
<1>6. CASE At(t, "lock") /\ Op(t) = "remove" /\ Finish(t, FALSE) /\ UNCHANGED mu
  <2>0. Returned(t)
    <3>1. Finish(t, FALSE) BY <1>6 DEF Lock
    <3> QED BY <3>1, Finishes
  <2>1. TypeOK'
    <3>1. task' \in [Tasks -> TaskRecords]
      BY <1>6, <2>0, TaskAssumption, OpsAssumption
        DEF IInv, TypeOK, Shape, AllOps, Places, Names, Lock, Returned
    <3>2. monitor' \in [Tasks -> MonitorRecords]
      BY <2>0 DEF Returned
    <3>3. \A u \in Tasks : u \in {mu, hmm, guard}' => Pending(u)'
      BY <1>6, <2>0, TaskAssumption, OpsAssumption DEF IInv, TypeOK, Shape, Kept, Holds, Lock, Returned
    <3> QED BY <1>6, <2>0, <3>1, <3>2, <3>3, TaskAssumption
      DEF IInv, TypeOK, Shape, Kept, Holds, Names, Entry, Absent, Lock, Returned
  <2>2. ASSUME NEW u \in Tasks PROVE Shape(u)'
    BY <1>6, <2>0, OpsAssumption DEF IInv, TypeOK, Shape, AllOps, Lock, Returned
  <2>3. ASSUME NEW u \in Tasks PROVE Kept(u)'
    BY <1>6, <2>0, TaskAssumption, OpsAssumption
      DEF IInv, TypeOK, Shape, Kept, Holds, Entry, Lock, Returned
  <2>4. ASSUME wish' = "off" PROVE Off'
    <3>1. Off BY <1>6, <2>0, <2>4 DEF IInv, Lock, Returned
    <3>2. (Here /\ Disabled /\ entry.conn = None /\ entry.config \in disabled)'
      BY <1>6, <2>0, <2>4, <3>1
        DEF IInv, TypeOK, Shape, Off, OffTask, Adding, Enabling, Entry, Lock, Returned
    <3>3. ASSUME NEW u \in Tasks PROVE OffTask(u)'
      BY <1>6, <2>0, <2>4, <3>1, OpsAssumption
        DEF IInv, TypeOK, Shape, Off, OffTask, Adding, Enabling, Entry, Lock, Returned
    <3> QED BY <3>2, <3>3 DEF Off
  <2> QED BY <2>1, <2>2, <2>3, <2>4 DEF IInv
<1> QED BY <1>1, <1>2, <1>3, <1>4, <1>5, <1>6 DEF IInv, Shape, Lock

\* RemoveClient and DisableClient wait inside the lock for a client that is there.
LEMMA LocksKeeps ==
  ASSUME IInv, NEW t \in Tasks, Locks(t), disturbed' \subseteq {"overlap", "revived"}
  PROVE  IInv'
  BY LockKeeps DEF Locks

\* A lost connection leaves a disabled client alone.
LEMMA ConnectionLostKeeps ==
  ASSUME IInv, ConnectionLost, disturbed' \subseteq {"overlap", "revived"}
  PROVE  IInv'
<1>1. TypeOK' BY DEF IInv, TypeOK, ConnectionLost, State
<1>2. ASSUME NEW u \in Tasks PROVE Shape(u)' BY DEF IInv, Shape, ConnectionLost
<1>3. ASSUME NEW u \in Tasks PROVE Kept(u)' BY DEF IInv, TypeOK, Kept, Holds, ConnectionLost, State
<1>4. ASSUME wish' = "off" PROVE Off' BY <1>4
  DEF IInv, Off, OffTask, Adding, Enabling, ConnectionLost, State
<1> QED BY <1>1, <1>2, <1>3, <1>4 DEF IInv

\* The manager starts with one client it connects to, and nobody holds anything.
LEMMA Starts == Init => IInv
<1> SUFFICES ASSUME Init PROVE IInv OBVIOUS
<1>1. TypeOK
  <2>1. [op |-> "boot", at |-> "connect", config |-> Boot, from |-> None] \in TaskRecords
        /\ Idle \in TaskRecords
    BY TaskAssumption DEF Idle, AllOps, Places, Names
  <2>2. task \in [Tasks -> TaskRecords] BY <2>1 DEF Init
  <2>3. Quiet \in MonitorRecords BY FailuresAssumption DEF Quiet
  <2>4. monitor \in [Tasks -> MonitorRecords] BY <2>3 DEF Init
  <2> QED BY <2>2, <2>4, TaskAssumption DEF TypeOK, Init, Entry, Names
<1>2. ASSUME NEW u \in Tasks PROVE Shape(u) /\ Kept(u)
  BY TaskAssumption DEF Init, Idle, Shape, Kept, Holds, Entry
<1> QED BY <1>1, <1>2 DEF IInv, Init

\* Every step of the manager keeps the inductive invariant.
LEMMA StepKeeps == IInv /\ [Next]_vars => IInv'
<1> SUFFICES ASSUME IInv, [Next]_vars PROVE IInv' OBVIOUS
<1>1. CASE Next
  <2>1. disturbed' \subseteq {"overlap", "revived"} BY <1>1 DEF Next, IInv, TypeOK
  <2>2. ASSUME NEW t \in Tasks, OperationSteps(t) \/ ConnectSteps(t) \/ MonitorSteps(t) PROVE IInv'
    BY <2>1, <2>2, AddClientKeeps, EnableClientKeeps, GuardedKeeps, LookupKeeps, UpdateClientKeeps,
       AttemptReconnectKeeps, StopAllKeeps, LocksKeeps, RemoveClientKeeps, DisableClientKeeps,
       ConnectKeeps, DialKeeps, RegisterKeeps, UndoKeeps, RetainKeeps, MarkKeeps, RestoreKeeps,
       StartMonitoringKeeps, StartKeeps, CheckKeeps, ReportKeeps, ReportFailureKeeps
    DEF OperationSteps, ConnectSteps, MonitorSteps
  <2>3. CASE ConnectionLost BY <2>1, <2>3, ConnectionLostKeeps
  <2> QED BY <1>1, <2>2, <2>3 DEF Next
<1>2. CASE UNCHANGED vars
  BY <1>2 DEF vars, history, IInv, TypeOK, Shape, Kept, Holds, Off, OffTask, Adding, Enabling
<1> QED BY <1>1, <1>2

-----------------------------------------------------------------------------
\* Whatever operations, attempts and monitors interleave, the manager's state is
\* well formed, and no lock or guard outlives the task that took it.
\* (clientmanager.go:236-262, 768-777, 862-869)
THEOREM TypeCorrect == Spec => []TypeOK
<1>1. IInv => TypeOK BY DEF IInv
<1> QED BY <1>1, Starts, StepKeeps, PTL DEF Spec

\* A client an administrator has disabled stays disconnected until it is enabled,
\* updated or removed, for any number of operations, reconnects and monitors under
\* way.  (clientmanager.go:1217-1225, 1517-1533, healthmonitor.go:257-263)
THEOREM DisabledStaysDown == Spec => []DisabledStays
<1>1. IInv => DisabledStays BY DEF IInv, DisabledStays, Off
<1> QED BY <1>1, Starts, StepKeeps, PTL DEF Spec

-----------------------------------------------------------------------------
(***************************************************************************)
(* That a client is looked after, in an undisturbed history.               *)
(***************************************************************************)
\* While these are under way the entry has no connection: an attempt has closed
\* the old one, or the client is new.
Unconnected(t) ==
  \/ At(t, "dial") \/ At(t, "register")
  \/ Op(t) \in {"add", "boot"} /\ task[t].at \in {"connect", "undo", "retain"}

\* The operation will start a monitor, or remove the client.
Obliged(t) ==
  \/ At(t, "start")
  \/ Op(t) \in {"add", "boot"} /\ task[t].at \in Inside \union {"undo", "retain", "watch"}
  \/ Op(t) = "enable" /\ task[t].at \in {"dial", "register", "mark", "watch"}
  \/ Op(t) = "remove" /\ task[t].at \in {"lock", "stop"}

Owned == \A c \in open : c = entry.conn \/ At(c, "register")
NoneWhileUnconnected == \A t \in Tasks : Unconnected(t) => entry.conn = None
Watched == Here /\ ~Disabled => registered \in running \/ \E t \in Tasks : Obliged(t)
Calm == Owned /\ NoneWhileUnconnected /\ Watched

\* Nobody is connected to a client that is gone, and who starts a monitor has
\* registered it.
Steady ==
  /\ ~Here => entry.conn = None
  /\ hmm # None => registered = hmm

Looked == Steady /\ (disturbed = {} => Calm /\ ~Overlaps)

\* The other operations stay where they are.
Alone(t) == \A u \in Tasks \ {t} : task'[u] = task[u]

\* What a failed connection attempt does about itself.
GivesUp(t) ==
  /\ Alone(t)
  /\ Op(t) \in {"add", "boot"} => At(t, "undo")' /\ Op(t)' = Op(t)
  /\ Op(t) = "enable" => At(t, "mark")' /\ Op(t)' = Op(t)
  /\ Op(t) \notin {"add", "boot", "enable"} => task'[t].at \in {"restore", "done"} /\ Op(t)' \in {Op(t), "none"}

\* A failed attempt leads to its caller's error path, or returns.
LEMMA FailedGivesUp ==
  ASSUME IInv, NEW t \in Tasks, Failed(t), task[t].at \in Inside
  PROVE  GivesUp(t)
<1>1. CASE Op(t) \in {"add", "boot"}
  <2>1. Go(t, "undo") BY <1>1 DEF Failed
  <2> QED BY <1>1, <2>1 DEF IInv, TypeOK, GivesUp, Alone
<1>2. CASE Op(t) = "enable" BY <1>2 DEF IInv, TypeOK, Failed, GivesUp, Alone
<1>3. CASE Op(t) = "reauth" BY <1>3 DEF IInv, TypeOK, Failed, GivesUp, Alone
<1>4. CASE Op(t) \notin {"add", "boot", "enable", "reauth"}
  <2>1. Finish(t, FALSE) BY <1>4 DEF Failed
  <2>2. Returned(t) BY <2>1, Finishes
  <2> QED BY <1>4, <2>2 DEF IInv, TypeOK, Returned, GivesUp, Alone
<1> QED BY <1>1, <1>2, <1>3, <1>4

\* Where no AddClient runs along, one attempt at a time is between its first lock
\* and its error path: the others would need the guard.
LEMMA OneAttempt ==
  ASSUME IInv, ~Overlaps, NEW t \in Tasks, NEW u \in Tasks,
         task[t].at \in Inside \union {"undo", "retain"}, task[u].at \in Inside \union {"undo", "retain"}
  PROVE  t = u
<1> SUFFICES ASSUME t # u PROVE FALSE OBVIOUS
<1>1. ~Adding(t) /\ ~Adding(u) BY DEF Overlaps, Adding
<1>2. Holds(t) /\ Holds(u) BY <1>1 DEF IInv, Shape, Adding, Holds
<1>3. guard = t /\ guard = u BY <1>2 DEF IInv, Kept
<1> QED BY <1>3

\* A new client has no connection, and the AddClient is obliged to look after it.
LEMMA AddClientLooks ==
  ASSUME IInv, Steady, NEW t \in Tasks, AddClient(t)
  PROVE  Steady' /\ (Calm /\ ~Overlaps => Calm')
<1>1. CASE Here
  <2>0. Returned(t)
    <3>1. Finish(t, FALSE) BY <1>1 DEF AddClient, Went
    <3> QED BY <3>1, Finishes
  <2>1. Steady'
    BY <1>1, <2>0, TaskAssumption
      DEF Steady, Entry, Absent, IInv, TypeOK, Kept, Shape, AddClient, Went, Returned
  <2>2. ASSUME Calm, ~Overlaps PROVE Calm'
    <3>1. Owned'
      BY <1>1, <2>0, <2>2, TaskAssumption
        DEF Calm, Owned, NoneWhileUnconnected, Unconnected, Steady, Entry, Absent, IInv, TypeOK, Shape,
            AddClient, Went, Returned
    <3>2. NoneWhileUnconnected'
      BY <1>1, <2>0, <2>2, TaskAssumption, OpsAssumption
        DEF Calm, NoneWhileUnconnected, Unconnected, Steady, Entry, Absent, AllOps, IInv, TypeOK,
            Shape, AddClient, Went, Returned
    <3>3. Watched'
      BY <1>1, <2>0, <2>2, TaskAssumption
        DEF Calm, Watched, Obliged, Steady, Entry, Absent, IInv, TypeOK, Shape, AddClient, Went,
            Returned
    <3> QED BY <3>1, <3>2, <3>3 DEF Calm
  <2> QED BY <2>1, <2>2
<1>2. CASE ~Here /\ entry' = Entry("new", None, t) /\ Went(t, "add", "connect", t, None) /\ UNCHANGED disabled
  <2>1. Steady'
    BY <1>2, TaskAssumption DEF Steady, Entry, Absent, IInv, TypeOK, Kept, Shape, AddClient, Went
  <2>2. ASSUME Calm, ~Overlaps PROVE Calm'
    <3>1. Owned'
      BY <1>2, <2>2, TaskAssumption
        DEF Calm, Owned, NoneWhileUnconnected, Unconnected, Steady, Entry, Absent, IInv, TypeOK, Shape,
            AddClient, Went
    <3>2. NoneWhileUnconnected'
      BY <1>2, <2>2, TaskAssumption, OpsAssumption
        DEF Calm, NoneWhileUnconnected, Unconnected, Steady, Entry, Absent, AllOps, IInv, TypeOK,
            Shape, AddClient, Went
    <3>3. Watched'
      BY <1>2, <2>2, TaskAssumption
        DEF Calm, Watched, Obliged, Steady, Entry, Absent, IInv, TypeOK, Shape, AddClient, Went
    <3> QED BY <3>1, <3>2, <3>3 DEF Calm
  <2> QED BY <2>1, <2>2
<1>3. CASE ~Here /\ entry' = Entry("disabled", None, t) /\ disabled' = disabled \union {t} /\ Finish(t, TRUE)
  <2>0. Returned(t)
    <3>1. Finish(t, TRUE) BY <1>3 DEF AddClient, Went
    <3> QED BY <3>1, Finishes
  <2>1. Steady'
    BY <1>3, <2>0, TaskAssumption
      DEF Steady, Entry, Absent, IInv, TypeOK, Kept, Shape, AddClient, Went, Returned
  <2>2. ASSUME Calm, ~Overlaps PROVE Calm'
    <3>1. Owned'
      BY <1>3, <2>0, <2>2, TaskAssumption
        DEF Calm, Owned, NoneWhileUnconnected, Unconnected, Steady, Entry, Absent, IInv, TypeOK, Shape,
            AddClient, Went, Returned
    <3>2. NoneWhileUnconnected'
      BY <1>3, <2>0, <2>2, TaskAssumption, OpsAssumption
        DEF Calm, NoneWhileUnconnected, Unconnected, Steady, Entry, Absent, AllOps, IInv, TypeOK,
            Shape, AddClient, Went, Returned
    <3>3. Watched'
      BY <1>3, <2>0, <2>2, TaskAssumption
        DEF Calm, Watched, Obliged, Steady, Entry, Absent, IInv, TypeOK, Shape, AddClient, Went,
            Returned
    <3> QED BY <3>1, <3>2, <3>3 DEF Calm
  <2> QED BY <2>1, <2>2
<1> QED BY <1>1, <1>2, <1>3 DEF AddClient

\* The entry stays disabled until the attempt.
LEMMA EnableClientLooks ==
  ASSUME IInv, Steady, NEW t \in Tasks, EnableClient(t)
  PROVE  Steady' /\ (Calm /\ ~Overlaps => Calm')
<1>1. CASE Disabled
  <2>1. Steady'
    BY <1>1, TaskAssumption DEF Steady, Entry, Absent, IInv, TypeOK, Kept, Shape, EnableClient, Went
  <2>2. ASSUME Calm, ~Overlaps PROVE Calm'
    <3>1. Owned'
      BY <1>1, <2>2, TaskAssumption
        DEF Calm, Owned, NoneWhileUnconnected, Unconnected, Steady, Entry, Absent, IInv, TypeOK, Shape,
            EnableClient, Went
    <3>2. NoneWhileUnconnected'
      BY <1>1, <2>2, TaskAssumption, OpsAssumption
        DEF Calm, NoneWhileUnconnected, Unconnected, Steady, Entry, Absent, AllOps, IInv, TypeOK,
            Shape, EnableClient, Went
    <3>3. Watched'
      BY <1>1, <2>2, TaskAssumption
        DEF Calm, Watched, Obliged, Steady, Entry, Absent, IInv, TypeOK, Shape, EnableClient, Went
    <3> QED BY <3>1, <3>2, <3>3 DEF Calm
  <2> QED BY <2>1, <2>2
<1>2. CASE ~Disabled
  <2>0. Returned(t)
    <3>1. Finish(t, FALSE) BY <1>2 DEF EnableClient, Went
    <3> QED BY <3>1, Finishes
  <2>1. Steady'
    BY <1>2, <2>0, TaskAssumption
      DEF Steady, Entry, Absent, IInv, TypeOK, Kept, Shape, EnableClient, Went, Returned
  <2>2. ASSUME Calm, ~Overlaps PROVE Calm'
    <3>1. Owned'
      BY <1>2, <2>0, <2>2, TaskAssumption
        DEF Calm, Owned, NoneWhileUnconnected, Unconnected, Steady, Entry, Absent, IInv, TypeOK, Shape,
            EnableClient, Went, Returned
    <3>2. NoneWhileUnconnected'
      BY <1>2, <2>0, <2>2, TaskAssumption, OpsAssumption
        DEF Calm, NoneWhileUnconnected, Unconnected, Steady, Entry, Absent, AllOps, IInv, TypeOK,
            Shape, EnableClient, Went, Returned
    <3>3. Watched'
      BY <1>2, <2>0, <2>2, TaskAssumption
        DEF Calm, Watched, Obliged, Steady, Entry, Absent, IInv, TypeOK, Shape, EnableClient, Went,
            Returned
    <3> QED BY <3>1, <3>2, <3>3 DEF Calm
  <2> QED BY <2>1, <2>2
<1> QED BY <1>1, <1>2

\* To begin an attempt changes nothing.
LEMMA LookupLooks ==
  ASSUME IInv, Steady, NEW t \in Tasks, Lookup(t)
  PROVE  Steady' /\ (Calm /\ ~Overlaps => Calm')
<1>1. CASE ~Here
  <2>0. Returned(t)
    <3>1. Finish(t, FALSE) BY <1>1 DEF Lookup, Went
    <3> QED BY <3>1, Finishes
  <2>1. Steady'
    BY <1>1, <2>0, TaskAssumption
      DEF Steady, Entry, Absent, IInv, TypeOK, Kept, Shape, Lookup, Went, Returned
  <2>2. ASSUME Calm, ~Overlaps PROVE Calm'
    <3>1. Owned'
      BY <1>1, <2>0, <2>2, TaskAssumption
        DEF Calm, Owned, NoneWhileUnconnected, Unconnected, Steady, Entry, Absent, IInv, TypeOK, Shape,
            Lookup, Went, Returned
    <3>2. NoneWhileUnconnected'
      BY <1>1, <2>0, <2>2, TaskAssumption, OpsAssumption
        DEF Calm, NoneWhileUnconnected, Unconnected, Steady, Entry, Absent, AllOps, IInv, TypeOK,
            Shape, Lookup, Went, Returned
    <3>3. Watched'
      BY <1>1, <2>0, <2>2, TaskAssumption
        DEF Calm, Watched, Obliged, Steady, Entry, Absent, IInv, TypeOK, Shape, Lookup, Went, Returned
    <3> QED BY <3>1, <3>2, <3>3 DEF Calm
  <2> QED BY <2>1, <2>2
<1>2. CASE Here /\ Op(t) = "reauth"
  <2>1. Steady'
    BY <1>2, TaskAssumption DEF Steady, Entry, Absent, IInv, TypeOK, Kept, Shape, Lookup, Went
  <2>2. ASSUME Calm, ~Overlaps PROVE Calm'
    <3>1. Owned'
      BY <1>2, <2>2, TaskAssumption
        DEF Calm, Owned, NoneWhileUnconnected, Unconnected, Steady, Entry, Absent, IInv, TypeOK, Shape,
            Lookup, Went
    <3>2. NoneWhileUnconnected'
      BY <1>2, <2>2, TaskAssumption, OpsAssumption
        DEF Calm, NoneWhileUnconnected, Unconnected, Steady, Entry, Absent, AllOps, IInv, TypeOK,
            Shape, Lookup, Went
    <3>3. Watched'
      BY <1>2, <2>2, TaskAssumption
        DEF Calm, Watched, Obliged, Steady, Entry, Absent, IInv, TypeOK, Shape, Lookup, Went
    <3> QED BY <3>1, <3>2, <3>3 DEF Calm
  <2> QED BY <2>1, <2>2
<1>3. CASE Here /\ Op(t) # "reauth"
  <2>1. Steady'
    BY <1>3, TaskAssumption DEF Steady, Entry, Absent, IInv, TypeOK, Kept, Shape, Lookup, Went
  <2>2. ASSUME Calm, ~Overlaps PROVE Calm'
    <3>1. Owned'
      BY <1>3, <2>2, TaskAssumption
        DEF Calm, Owned, NoneWhileUnconnected, Unconnected, Steady, Entry, Absent, IInv, TypeOK, Shape,
            Lookup, Went
    <3>2. NoneWhileUnconnected'
      BY <1>3, <2>2, TaskAssumption, OpsAssumption
        DEF Calm, NoneWhileUnconnected, Unconnected, Steady, Entry, Absent, AllOps, IInv, TypeOK,
            Shape, Lookup, Went
    <3>3. Watched'
      BY <1>3, <2>2, TaskAssumption
        DEF Calm, Watched, Obliged, Steady, Entry, Absent, IInv, TypeOK, Shape, Lookup, Went
    <3> QED BY <3>1, <3>2, <3>3 DEF Calm
  <2> QED BY <2>1, <2>2
<1> QED BY <1>1, <1>2, <1>3

\* An update keeps the state and the connection.
LEMMA UpdateClientLooks ==
  ASSUME IInv, Steady, NEW t \in Tasks, UpdateClient(t)
  PROVE  Steady' /\ (Calm /\ ~Overlaps => Calm')
<1>0. Returned(t)
  <2>1. Finish(t, Here) BY DEF UpdateClient
  <2> QED BY <2>1, Finishes
<1>1. Steady'
  BY <1>0, TaskAssumption DEF Steady, Entry, Absent, IInv, TypeOK, Kept, Shape, UpdateClient, Returned
<1>2. ASSUME Calm, ~Overlaps PROVE Calm'
  <2>1. Owned'
    BY <1>0, <1>2, TaskAssumption
      DEF Calm, Owned, NoneWhileUnconnected, Unconnected, Steady, Entry, Absent, IInv, TypeOK, Shape,
          UpdateClient, Returned
  <2>2. NoneWhileUnconnected'
    BY <1>0, <1>2, TaskAssumption, OpsAssumption
      DEF Calm, NoneWhileUnconnected, Unconnected, Steady, Entry, Absent, AllOps, IInv, TypeOK, Shape,
          UpdateClient, Returned
  <2>3. Watched'
    BY <1>0, <1>2, TaskAssumption
      DEF Calm, Watched, Obliged, Steady, Entry, Absent, IInv, TypeOK, Shape, UpdateClient, Returned
  <2> QED BY <2>1, <2>2, <2>3 DEF Calm
<1> QED BY <1>1, <1>2

\* The client is gone, and it had no connection.
LEMMA UndoLooks ==
  ASSUME IInv, Steady, NEW t \in Tasks, Undo(t)
  PROVE  Steady' /\ (Calm /\ ~Overlaps => Calm')
<1>1. CASE Op(t) = "boot"
  <2>1. Steady'
    BY <1>1, TaskAssumption DEF Steady, Entry, Absent, IInv, TypeOK, Kept, Shape, Undo
  <2>2. ASSUME Calm, ~Overlaps PROVE Calm'
    <3>1. Owned'
      BY <1>1, <2>2, TaskAssumption, OneAttempt
        DEF Calm, Owned, NoneWhileUnconnected, Unconnected, Steady, Entry, Absent, IInv, TypeOK, Shape,
            Undo
    <3>2. NoneWhileUnconnected'
      BY <1>1, <2>2, TaskAssumption, OpsAssumption, OneAttempt
        DEF Calm, NoneWhileUnconnected, Unconnected, Steady, Entry, Absent, AllOps, IInv, TypeOK,
            Shape, Undo
    <3>3. Watched'
      BY <1>1, <2>2, TaskAssumption, OneAttempt
        DEF Calm, Watched, Obliged, Steady, Entry, Absent, IInv, TypeOK, Shape, Undo
    <3> QED BY <3>1, <3>2, <3>3 DEF Calm
  <2> QED BY <2>1, <2>2
<1>2. CASE Op(t) # "boot"
  <2>0. Returned(t)
    <3>1. Finish(t, FALSE) BY <1>2 DEF Undo
    <3> QED BY <3>1, Finishes
  <2>1. Steady'
    BY <1>2, <2>0, TaskAssumption DEF Steady, Entry, Absent, IInv, TypeOK, Kept, Shape, Undo, Returned
  <2>2. ASSUME Calm, ~Overlaps PROVE Calm'
    <3>1. Owned'
      BY <1>2, <2>0, <2>2, TaskAssumption, OneAttempt
        DEF Calm, Owned, NoneWhileUnconnected, Unconnected, Steady, Entry, Absent, IInv, TypeOK, Shape,
            Undo, Returned
    <3>2. NoneWhileUnconnected'
      BY <1>2, <2>0, <2>2, TaskAssumption, OpsAssumption, OneAttempt
        DEF Calm, NoneWhileUnconnected, Unconnected, Steady, Entry, Absent, AllOps, IInv, TypeOK,
            Shape, Undo, Returned
    <3>3. Watched'
      BY <1>2, <2>0, <2>2, TaskAssumption, OneAttempt
        DEF Calm, Watched, Obliged, Steady, Entry, Absent, IInv, TypeOK, Shape, Undo, Returned
    <3> QED BY <3>1, <3>2, <3>3 DEF Calm
  <2> QED BY <2>1, <2>2
<1> QED BY <1>1, <1>2

\* The boot goes on to start a monitor.
LEMMA RetainLooks ==
  ASSUME IInv, Steady, NEW t \in Tasks, Retain(t)
  PROVE  Steady' /\ (Calm /\ ~Overlaps => Calm')
<1>1. CASE Here
  <2>1. Steady'
    BY <1>1, TaskAssumption DEF Steady, Entry, Absent, IInv, TypeOK, Kept, Shape, Retain
  <2>2. ASSUME Calm, ~Overlaps PROVE Calm'
    <3>1. Owned'
      BY <1>1, <2>2, TaskAssumption, OneAttempt
        DEF Calm, Owned, NoneWhileUnconnected, Unconnected, Steady, Entry, Absent, IInv, TypeOK, Shape,
            Retain
    <3>2. NoneWhileUnconnected'
      BY <1>1, <2>2, TaskAssumption, OpsAssumption, OneAttempt
        DEF Calm, NoneWhileUnconnected, Unconnected, Steady, Entry, Absent, AllOps, IInv, TypeOK,
            Shape, Retain
    <3>3. Watched'
      BY <1>1, <2>2, TaskAssumption, OneAttempt
        DEF Calm, Watched, Obliged, Steady, Entry, Absent, IInv, TypeOK, Shape, Retain
    <3> QED BY <3>1, <3>2, <3>3 DEF Calm
  <2> QED BY <2>1, <2>2
<1>2. CASE ~Here
  <2>1. Steady'
    BY <1>2, TaskAssumption DEF Steady, Entry, Absent, IInv, TypeOK, Kept, Shape, Retain
  <2>2. ASSUME Calm, ~Overlaps PROVE Calm'
    <3>1. Owned'
      BY <1>2, <2>2, TaskAssumption, OneAttempt
        DEF Calm, Owned, NoneWhileUnconnected, Unconnected, Steady, Entry, Absent, IInv, TypeOK, Shape,
            Retain
    <3>2. NoneWhileUnconnected'
      BY <1>2, <2>2, TaskAssumption, OpsAssumption, OneAttempt
        DEF Calm, NoneWhileUnconnected, Unconnected, Steady, Entry, Absent, AllOps, IInv, TypeOK,
            Shape, Retain
    <3>3. Watched'
      BY <1>2, <2>2, TaskAssumption, OneAttempt
        DEF Calm, Watched, Obliged, Steady, Entry, Absent, IInv, TypeOK, Shape, Retain
    <3> QED BY <3>1, <3>2, <3>3 DEF Calm
  <2> QED BY <2>1, <2>2
<1> QED BY <1>1, <1>2

\* The EnableClient goes on to start a monitor, unless the client is disabled.
LEMMA MarkLooks ==
  ASSUME IInv, Steady, NEW t \in Tasks, Mark(t)
  PROVE  Steady' /\ (Calm /\ ~Overlaps => Calm')
<1>1. CASE Disabled
  <2>0. Returned(t)
    <3>1. Finish(t, FALSE) BY <1>1 DEF Mark
    <3> QED BY <3>1, Finishes
  <2>1. Steady'
    BY <1>1, <2>0, TaskAssumption DEF Steady, Entry, Absent, IInv, TypeOK, Kept, Shape, Mark, Returned
  <2>2. ASSUME Calm, ~Overlaps PROVE Calm'
    <3>1. Owned'
      BY <1>1, <2>0, <2>2, TaskAssumption
        DEF Calm, Owned, NoneWhileUnconnected, Unconnected, Steady, Entry, Absent, IInv, TypeOK, Shape,
            Mark, Returned
    <3>2. NoneWhileUnconnected'
      BY <1>1, <2>0, <2>2, TaskAssumption, OpsAssumption
        DEF Calm, NoneWhileUnconnected, Unconnected, Steady, Entry, Absent, AllOps, IInv, TypeOK,
            Shape, Mark, Returned
    <3>3. Watched'
      BY <1>1, <2>0, <2>2, TaskAssumption
        DEF Calm, Watched, Obliged, Steady, Entry, Absent, IInv, TypeOK, Shape, Mark, Returned
    <3> QED BY <3>1, <3>2, <3>3 DEF Calm
  <2> QED BY <2>1, <2>2
<1>2. CASE ~Disabled /\ Here
  <2>1. Steady'
    BY <1>2, TaskAssumption DEF Steady, Entry, Absent, IInv, TypeOK, Kept, Shape, Mark
  <2>2. ASSUME Calm, ~Overlaps PROVE Calm'
    <3>1. Owned'
      BY <1>2, <2>2, TaskAssumption
        DEF Calm, Owned, NoneWhileUnconnected, Unconnected, Steady, Entry, Absent, IInv, TypeOK, Shape,
            Mark
    <3>2. NoneWhileUnconnected'
      BY <1>2, <2>2, TaskAssumption, OpsAssumption
        DEF Calm, NoneWhileUnconnected, Unconnected, Steady, Entry, Absent, AllOps, IInv, TypeOK,
            Shape, Mark
    <3>3. Watched'
      BY <1>2, <2>2, TaskAssumption
        DEF Calm, Watched, Obliged, Steady, Entry, Absent, IInv, TypeOK, Shape, Mark
    <3> QED BY <3>1, <3>2, <3>3 DEF Calm
  <2> QED BY <2>1, <2>2
<1>3. CASE ~Disabled /\ ~Here
  <2>1. Steady'
    BY <1>3, TaskAssumption DEF Steady, Entry, Absent, IInv, TypeOK, Kept, Shape, Mark
  <2>2. ASSUME Calm, ~Overlaps PROVE Calm'
    <3>1. Owned'
      BY <1>3, <2>2, TaskAssumption
        DEF Calm, Owned, NoneWhileUnconnected, Unconnected, Steady, Entry, Absent, IInv, TypeOK, Shape,
            Mark
    <3>2. NoneWhileUnconnected'
      BY <1>3, <2>2, TaskAssumption, OpsAssumption
        DEF Calm, NoneWhileUnconnected, Unconnected, Steady, Entry, Absent, AllOps, IInv, TypeOK,
            Shape, Mark
    <3>3. Watched'
      BY <1>3, <2>2, TaskAssumption
        DEF Calm, Watched, Obliged, Steady, Entry, Absent, IInv, TypeOK, Shape, Mark
    <3> QED BY <3>1, <3>2, <3>3 DEF Calm
  <2> QED BY <2>1, <2>2
<1> QED BY <1>1, <1>2, <1>3

\* The config is put back, the connection is not touched.
LEMMA RestoreLooks ==
  ASSUME IInv, Steady, NEW t \in Tasks, Restore(t)
  PROVE  Steady' /\ (Calm /\ ~Overlaps => Calm')
<1>1. CASE Here
  <2>0. Returned(t)
    <3>1. Finish(t, FALSE) BY <1>1 DEF Restore
    <3> QED BY <3>1, Finishes
  <2>1. Steady'
    BY <1>1, <2>0, TaskAssumption DEF Steady, Entry, Absent, IInv, TypeOK, Kept, Shape, Restore, Returned
  <2>2. ASSUME Calm, ~Overlaps PROVE Calm'
    <3>1. Owned'
      BY <1>1, <2>0, <2>2, TaskAssumption
        DEF Calm, Owned, NoneWhileUnconnected, Unconnected, Steady, Entry, Absent, IInv, TypeOK, Shape,
            Restore, Returned
    <3>2. NoneWhileUnconnected'
      BY <1>1, <2>0, <2>2, TaskAssumption, OpsAssumption
        DEF Calm, NoneWhileUnconnected, Unconnected, Steady, Entry, Absent, AllOps, IInv, TypeOK,
            Shape, Restore, Returned
    <3>3. Watched'
      BY <1>1, <2>0, <2>2, TaskAssumption
        DEF Calm, Watched, Obliged, Steady, Entry, Absent, IInv, TypeOK, Shape, Restore, Returned
    <3> QED BY <3>1, <3>2, <3>3 DEF Calm
  <2> QED BY <2>1, <2>2
<1>2. CASE ~Here
  <2>0. Returned(t)
    <3>1. Finish(t, FALSE) BY <1>2 DEF Restore
    <3> QED BY <3>1, Finishes
  <2>1. Steady'
    BY <1>2, <2>0, TaskAssumption DEF Steady, Entry, Absent, IInv, TypeOK, Kept, Shape, Restore, Returned
  <2>2. ASSUME Calm, ~Overlaps PROVE Calm'
    <3>1. Owned'
      BY <1>2, <2>0, <2>2, TaskAssumption
        DEF Calm, Owned, NoneWhileUnconnected, Unconnected, Steady, Entry, Absent, IInv, TypeOK, Shape,
            Restore, Returned
    <3>2. NoneWhileUnconnected'
      BY <1>2, <2>0, <2>2, TaskAssumption, OpsAssumption
        DEF Calm, NoneWhileUnconnected, Unconnected, Steady, Entry, Absent, AllOps, IInv, TypeOK,
            Shape, Restore, Returned
    <3>3. Watched'
      BY <1>2, <2>0, <2>2, TaskAssumption
        DEF Calm, Watched, Obliged, Steady, Entry, Absent, IInv, TypeOK, Shape, Restore, Returned
    <3> QED BY <3>1, <3>2, <3>3 DEF Calm
  <2> QED BY <2>1, <2>2
<1> QED BY <1>1, <1>2

\* Who has registered its monitor is obliged to start it.
LEMMA StartMonitoringLooks ==
  ASSUME IInv, Steady, NEW t \in Tasks, StartMonitoring(t)
  PROVE  Steady' /\ (Calm /\ ~Overlaps => Calm')
<1>1. Steady'
  BY TaskAssumption DEF Steady, Entry, Absent, IInv, TypeOK, Kept, Shape, StartMonitoring
<1>2. ASSUME Calm, ~Overlaps PROVE Calm'
  <2>1. Owned'
    BY <1>2, TaskAssumption
      DEF Calm, Owned, NoneWhileUnconnected, Unconnected, Steady, Entry, Absent, IInv, TypeOK, Shape,
          StartMonitoring
  <2>2. NoneWhileUnconnected'
    BY <1>2, TaskAssumption, OpsAssumption
      DEF Calm, NoneWhileUnconnected, Unconnected, Steady, Entry, Absent, AllOps, IInv, TypeOK, Shape,
          StartMonitoring
  <2>3. Watched'
    BY <1>2, TaskAssumption
      DEF Calm, Watched, Obliged, Steady, Entry, Absent, IInv, TypeOK, Shape, StartMonitoring
  <2> QED BY <2>1, <2>2, <2>3 DEF Calm
<1> QED BY <1>1, <1>2

\* The monitor registered is the one that is started, if the client is there.
LEMMA StartLooks ==
  ASSUME IInv, Steady, NEW t \in Tasks, Start(t)
  PROVE  Steady' /\ (Calm /\ ~Overlaps => Calm')
<1>0. Returned(t)
  <2>1. Finish(t, TRUE) BY DEF Start
  <2> QED BY <2>1, Finishes
<1>1. Steady'
  BY <1>0, TaskAssumption DEF Steady, Entry, Absent, IInv, TypeOK, Kept, Shape, Start, Returned
<1>2. ASSUME Calm, ~Overlaps PROVE Calm'
  <2>1. Owned'
    BY <1>0, <1>2, TaskAssumption
      DEF Calm, Owned, NoneWhileUnconnected, Unconnected, Steady, Entry, Absent, IInv, TypeOK, Shape,
          Start, Returned
  <2>2. NoneWhileUnconnected'
    BY <1>0, <1>2, TaskAssumption, OpsAssumption
      DEF Calm, NoneWhileUnconnected, Unconnected, Steady, Entry, Absent, AllOps, IInv, TypeOK, Shape,
          Start, Returned
  <2>3. Watched'
    BY <1>0, <1>2, TaskAssumption
      DEF Calm, Watched, Obliged, Steady, Entry, Absent, IInv, TypeOK, Shape, Kept, Start, Returned
  <2> QED BY <2>1, <2>2, <2>3 DEF Calm
<1> QED BY <1>1, <1>2

\* Cleanup is obliged to remove the client.
LEMMA StopAllLooks ==
  ASSUME IInv, Steady, NEW t \in Tasks, StopAll(t)
  PROVE  Steady' /\ (Calm /\ ~Overlaps => Calm')
<1>1. Steady'
  BY TaskAssumption DEF Steady, Entry, Absent, IInv, TypeOK, Kept, Shape, StopAll
<1>2. ASSUME Calm, ~Overlaps PROVE Calm'
  <2>1. Owned'
    BY <1>2, TaskAssumption
      DEF Calm, Owned, NoneWhileUnconnected, Unconnected, Steady, Entry, Absent, IInv, TypeOK, Shape,
          StopAll
  <2>2. NoneWhileUnconnected'
    BY <1>2, TaskAssumption, OpsAssumption
      DEF Calm, NoneWhileUnconnected, Unconnected, Steady, Entry, Absent, AllOps, IInv, TypeOK, Shape,
          StopAll
  <2>3. Watched'
    BY <1>2, TaskAssumption
      DEF Calm, Watched, Obliged, Steady, Entry, Absent, IInv, TypeOK, Shape, StopAll
  <2> QED BY <2>1, <2>2, <2>3 DEF Calm
<1> QED BY <1>1, <1>2

\* The connection goes with the client.
LEMMA RemoveClientLooks ==
  ASSUME IInv, Steady, NEW t \in Tasks, RemoveClient(t)
  PROVE  Steady' /\ (Calm /\ ~Overlaps => Calm')
<1>1. Steady'
  BY TaskAssumption DEF Steady, Entry, Absent, IInv, TypeOK, Kept, Shape, RemoveClient
<1>2. ASSUME Calm, ~Overlaps PROVE Calm'
  <2>1. Owned'
    BY <1>2, TaskAssumption
      DEF Calm, Owned, NoneWhileUnconnected, Unconnected, Steady, Entry, Absent, IInv, TypeOK, Shape,
          RemoveClient
  <2>2. NoneWhileUnconnected'
    BY <1>2, TaskAssumption, OpsAssumption
      DEF Calm, NoneWhileUnconnected, Unconnected, Steady, Entry, Absent, AllOps, IInv, TypeOK, Shape,
          RemoveClient
  <2>3. Watched'
    BY <1>2, TaskAssumption
      DEF Calm, Watched, Obliged, Steady, Entry, Absent, IInv, TypeOK, Shape, RemoveClient
  <2> QED BY <2>1, <2>2, <2>3 DEF Calm
<1> QED BY <1>1, <1>2

\* The connection is closed and the client is disabled.
LEMMA DisableClientLooks ==
  ASSUME IInv, Steady, NEW t \in Tasks, DisableClient(t)
  PROVE  Steady' /\ (Calm /\ ~Overlaps => Calm')
<1>1. Steady'
  BY TaskAssumption DEF Steady, Entry, Absent, IInv, TypeOK, Kept, Shape, DisableClient
<1>2. ASSUME Calm, ~Overlaps PROVE Calm'
  <2>1. Owned'
    BY <1>2, TaskAssumption
      DEF Calm, Owned, NoneWhileUnconnected, Unconnected, Steady, Entry, Absent, IInv, TypeOK, Shape,
          DisableClient
  <2>2. NoneWhileUnconnected'
    BY <1>2, TaskAssumption, OpsAssumption
      DEF Calm, NoneWhileUnconnected, Unconnected, Steady, Entry, Absent, AllOps, IInv, TypeOK, Shape,
          DisableClient
  <2>3. Watched'
    BY <1>2, TaskAssumption
      DEF Calm, Watched, Obliged, Steady, Entry, Absent, IInv, TypeOK, Shape, DisableClient
  <2> QED BY <2>1, <2>2, <2>3 DEF Calm
<1> QED BY <1>1, <1>2

\* A monitor stops itself only if the client is gone or disabled.
LEMMA CheckLooks ==
  ASSUME IInv, Steady, NEW t \in Tasks, Check(t)
  PROVE  Steady' /\ (Calm /\ ~Overlaps => Calm')
<1>1. CASE Here /\ ~Disabled
  <2>1. Steady'
    BY <1>1, TaskAssumption DEF Steady, Entry, Absent, IInv, TypeOK, Kept, Shape, Check
  <2>2. ASSUME Calm, ~Overlaps PROVE Calm'
    <3>1. Owned'
      BY <1>1, <2>2, TaskAssumption
        DEF Calm, Owned, NoneWhileUnconnected, Unconnected, Steady, Entry, Absent, IInv, TypeOK, Shape,
            Check
    <3>2. NoneWhileUnconnected'
      BY <1>1, <2>2, TaskAssumption, OpsAssumption
        DEF Calm, NoneWhileUnconnected, Unconnected, Steady, Entry, Absent, AllOps, IInv, TypeOK,
            Shape, Check
    <3>3. Watched'
      BY <1>1, <2>2, TaskAssumption
        DEF Calm, Watched, Obliged, Steady, Entry, Absent, IInv, TypeOK, Shape, Check
    <3> QED BY <3>1, <3>2, <3>3 DEF Calm
  <2> QED BY <2>1, <2>2
<1>2. CASE ~(Here /\ ~Disabled)
  <2>1. Steady'
    BY <1>2, TaskAssumption DEF Steady, Entry, Absent, IInv, TypeOK, Kept, Shape, Check
  <2>2. ASSUME Calm, ~Overlaps PROVE Calm'
    <3>1. Owned'
      BY <1>2, <2>2, TaskAssumption
        DEF Calm, Owned, NoneWhileUnconnected, Unconnected, Steady, Entry, Absent, IInv, TypeOK, Shape,
            Check
    <3>2. NoneWhileUnconnected'
      BY <1>2, <2>2, TaskAssumption, OpsAssumption
        DEF Calm, NoneWhileUnconnected, Unconnected, Steady, Entry, Absent, AllOps, IInv, TypeOK,
            Shape, Check
    <3>3. Watched'
      BY <1>2, <2>2, TaskAssumption
        DEF Calm, Watched, Obliged, Steady, Entry, Absent, IInv, TypeOK, Shape, Check
    <3> QED BY <3>1, <3>2, <3>3 DEF Calm
  <2> QED BY <2>1, <2>2
<1> QED BY <1>1, <1>2

\* A report leaves the connection and who watches.
LEMMA ReportLooks ==
  ASSUME IInv, Steady, NEW t \in Tasks, Report(t)
  PROVE  Steady' /\ (Calm /\ ~Overlaps => Calm')
<1>1. Steady'
  BY TaskAssumption DEF Steady, Entry, Absent, IInv, TypeOK, Kept, Shape, Report, State
<1>2. ASSUME Calm, ~Overlaps PROVE Calm'
  <2>1. Owned'
    BY <1>2, TaskAssumption
      DEF Calm, Owned, NoneWhileUnconnected, Unconnected, Steady, Entry, Absent, IInv, TypeOK, Shape,
          Report, State
  <2>2. NoneWhileUnconnected'
    BY <1>2, TaskAssumption, OpsAssumption
      DEF Calm, NoneWhileUnconnected, Unconnected, Steady, Entry, Absent, AllOps, IInv, TypeOK, Shape,
          Report, State
  <2>3. Watched'
    BY <1>2, TaskAssumption
      DEF Calm, Watched, Obliged, Steady, Entry, Absent, IInv, TypeOK, Shape, Report, State
  <2> QED BY <2>1, <2>2, <2>3 DEF Calm
<1> QED BY <1>1, <1>2

\* A reconnect that has not begun changes nothing.
LEMMA AttemptReconnectLooks ==
  ASSUME IInv, Steady, NEW t \in Tasks, AttemptReconnect(t)
  PROVE  Steady' /\ (Calm /\ ~Overlaps => Calm')
<1>1. CASE Disabled
  <2>0. Returned(t)
    <3>1. Finish(t, FALSE) BY <1>1 DEF AttemptReconnect
    <3> QED BY <3>1, Finishes
  <2>1. Steady'
    BY <1>1, <2>0, TaskAssumption
      DEF Steady, Entry, Absent, IInv, TypeOK, Kept, Shape, AttemptReconnect, Returned
  <2>2. ASSUME Calm, ~Overlaps PROVE Calm'
    <3>1. Owned'
      BY <1>1, <2>0, <2>2, TaskAssumption
        DEF Calm, Owned, NoneWhileUnconnected, Unconnected, Steady, Entry, Absent, IInv, TypeOK, Shape,
            AttemptReconnect, Returned
    <3>2. NoneWhileUnconnected'
      BY <1>1, <2>0, <2>2, TaskAssumption, OpsAssumption
        DEF Calm, NoneWhileUnconnected, Unconnected, Steady, Entry, Absent, AllOps, IInv, TypeOK,
            Shape, AttemptReconnect, Returned
    <3>3. Watched'
      BY <1>1, <2>0, <2>2, TaskAssumption
        DEF Calm, Watched, Obliged, Steady, Entry, Absent, IInv, TypeOK, Shape, AttemptReconnect,
            Returned
    <3> QED BY <3>1, <3>2, <3>3 DEF Calm
  <2> QED BY <2>1, <2>2
<1>2. CASE ~Disabled
  <2>1. Steady'
    BY <1>2, TaskAssumption DEF Steady, Entry, Absent, IInv, TypeOK, Kept, Shape, AttemptReconnect
  <2>2. ASSUME Calm, ~Overlaps PROVE Calm'
    <3>1. Owned'
      BY <1>2, <2>2, TaskAssumption
        DEF Calm, Owned, NoneWhileUnconnected, Unconnected, Steady, Entry, Absent, IInv, TypeOK, Shape,
            AttemptReconnect
    <3>2. NoneWhileUnconnected'
      BY <1>2, <2>2, TaskAssumption, OpsAssumption
        DEF Calm, NoneWhileUnconnected, Unconnected, Steady, Entry, Absent, AllOps, IInv, TypeOK,
            Shape, AttemptReconnect
    <3>3. Watched'
      BY <1>2, <2>2, TaskAssumption
        DEF Calm, Watched, Obliged, Steady, Entry, Absent, IInv, TypeOK, Shape, AttemptReconnect
    <3> QED BY <3>1, <3>2, <3>3 DEF Calm
  <2> QED BY <2>1, <2>2
<1> QED BY <1>1, <1>2

\* The first lock leaves no connection, and an attempt that is obliged to nothing
\* does not bring a client back.
LEMMA ConnectLooks ==
  ASSUME IInv, Steady, NEW t \in Tasks, Connect(t)
  PROVE  Steady' /\ (Calm /\ ~Overlaps /\ ~Revives => Calm')
<1>1. CASE ~(Disabled /\ task[t].config \in disabled)
  <2>1. Steady'
    BY <1>1, TaskAssumption DEF Steady, Entry, Absent, IInv, TypeOK, Kept, Shape, Connect, Revives
  <2>2. ASSUME Calm, ~Overlaps, ~Revives PROVE Calm'
    <3>1. Owned'
      BY <1>1, <2>2, TaskAssumption, OneAttempt
        DEF Calm, Owned, NoneWhileUnconnected, Unconnected, Steady, Entry, Absent, IInv, TypeOK, Shape,
            Connect, Revives
    <3>2. NoneWhileUnconnected'
      BY <1>1, <2>2, TaskAssumption, OpsAssumption, OneAttempt
        DEF Calm, NoneWhileUnconnected, Unconnected, Steady, Entry, Absent, AllOps, IInv, TypeOK,
            Shape, Connect, Revives
    <3>3. Watched'
      <4>1. Alone(t) /\ At(t, "dial")' /\ Op(t)' = Op(t) BY <1>1 DEF IInv, TypeOK, Connect, Alone
      <4>2. CASE Op(t) \in {"add", "boot", "enable"}
        <5>1. Obliged(t)' BY <4>1, <4>2 DEF Obliged
        <5> QED BY <5>1 DEF Watched
      <4>3. CASE Op(t) \notin {"add", "boot", "enable"}
        <5>1. Here /\ ~Disabled BY <2>2, <4>1, <4>3 DEF Revives, Connect
        <5>2. CASE registered \in running BY <5>2 DEF Watched, Connect
        <5>3. ASSUME NEW u \in Tasks, Obliged(u) PROVE Watched'
          <6>1. u # t BY <4>3, <5>3 DEF Obliged, Connect
          <6>2. Obliged(u)' BY <4>1, <5>3, <6>1 DEF Obliged, Alone
          <6> QED BY <6>2 DEF Watched
        <5> QED BY <2>2, <5>1, <5>2, <5>3 DEF Calm, Watched
      <4> QED BY <4>2, <4>3
    <3> QED BY <3>1, <3>2, <3>3 DEF Calm
  <2> QED BY <2>1, <2>2
<1>2. CASE Disabled /\ task[t].config \in disabled
  <2>0. GivesUp(t) BY <1>2, FailedGivesUp DEF Connect
  <2>1. Steady'
    BY <1>2, <2>0, TaskAssumption
      DEF Steady, Entry, Absent, IInv, TypeOK, Kept, Shape, Connect, GivesUp, Alone
  <2>2. ASSUME Calm, ~Overlaps, ~Revives PROVE Calm'
    <3>1. Owned'
      BY <1>2, <2>0, <2>2, TaskAssumption, OneAttempt
        DEF Calm, Owned, NoneWhileUnconnected, Unconnected, Steady, Entry, Absent, IInv, TypeOK, Shape,
            Connect, GivesUp, Alone
    <3>2. NoneWhileUnconnected'
      BY <1>2, <2>0, <2>2, TaskAssumption, OpsAssumption, OneAttempt
        DEF Calm, NoneWhileUnconnected, Unconnected, Steady, Entry, Absent, AllOps, IInv, TypeOK,
            Shape, Connect, GivesUp, Alone
    <3>3. Watched'
      BY <1>2, <2>0, <2>2, TaskAssumption, OneAttempt
        DEF Calm, Watched, Obliged, Steady, Entry, Absent, IInv, TypeOK, Shape, Connect, GivesUp, Alone
    <3> QED BY <3>1, <3>2, <3>3 DEF Calm
  <2> QED BY <2>1, <2>2
<1> QED BY <1>1, <1>2

\* What the attempt opens is its own until it registers.
LEMMA DialLooks ==
  ASSUME IInv, Steady, NEW t \in Tasks, Dial(t)
  PROVE  Steady' /\ (Calm /\ ~Overlaps => Calm')
<1>1. CASE open' \in {open, open \union {t}} /\ Go(t, "register")
  <2>1. Steady'
    BY <1>1, TaskAssumption DEF Steady, Entry, Absent, IInv, TypeOK, Kept, Shape, Dial
  <2>2. ASSUME Calm, ~Overlaps PROVE Calm'
    <3>1. Owned'
      BY <1>1, <2>2, TaskAssumption
        DEF Calm, Owned, NoneWhileUnconnected, Unconnected, Steady, Entry, Absent, IInv, TypeOK, Shape,
            Dial
    <3>2. NoneWhileUnconnected'
      BY <1>1, <2>2, TaskAssumption, OpsAssumption
        DEF Calm, NoneWhileUnconnected, Unconnected, Steady, Entry, Absent, AllOps, IInv, TypeOK,
            Shape, Dial
    <3>3. Watched'
      BY <1>1, <2>2, TaskAssumption
        DEF Calm, Watched, Obliged, Steady, Entry, Absent, IInv, TypeOK, Shape, Dial
    <3> QED BY <3>1, <3>2, <3>3 DEF Calm
  <2> QED BY <2>1, <2>2
<1>2. CASE Failed(t) /\ UNCHANGED open
  <2>0. GivesUp(t) BY <1>2, FailedGivesUp DEF Dial
  <2>1. Steady'
    BY <1>2, <2>0, TaskAssumption
      DEF Steady, Entry, Absent, IInv, TypeOK, Kept, Shape, Dial, GivesUp, Alone
  <2>2. ASSUME Calm, ~Overlaps PROVE Calm'
    <3>1. Owned'
      BY <1>2, <2>0, <2>2, TaskAssumption
        DEF Calm, Owned, NoneWhileUnconnected, Unconnected, Steady, Entry, Absent, IInv, TypeOK, Shape,
            Dial, GivesUp, Alone
    <3>2. NoneWhileUnconnected'
      BY <1>2, <2>0, <2>2, TaskAssumption, OpsAssumption
        DEF Calm, NoneWhileUnconnected, Unconnected, Steady, Entry, Absent, AllOps, IInv, TypeOK,
            Shape, Dial, GivesUp, Alone
    <3>3. Watched'
      BY <1>2, <2>0, <2>2, TaskAssumption
        DEF Calm, Watched, Obliged, Steady, Entry, Absent, IInv, TypeOK, Shape, Dial, GivesUp, Alone
    <3> QED BY <3>1, <3>2, <3>3 DEF Calm
  <2> QED BY <2>1, <2>2
<1> QED BY <1>1, <1>2 DEF Dial

\* The connection becomes the entry's, or it is closed.
LEMMA RegisterLooks ==
  ASSUME IInv, Steady, NEW t \in Tasks, Register(t)
  PROVE  Steady' /\ (Calm /\ ~Overlaps => Calm')
<1>1. CASE ~(~Here \/ Disabled)
  <2>1. Steady'
    BY <1>1, TaskAssumption DEF Steady, Entry, Absent, IInv, TypeOK, Kept, Shape, Register
  <2>2. ASSUME Calm, ~Overlaps PROVE Calm'
    <3>1. Owned'
      BY <1>1, <2>2, TaskAssumption, OneAttempt
        DEF Calm, Owned, NoneWhileUnconnected, Unconnected, Steady, Entry, Absent, IInv, TypeOK, Shape,
            Register
    <3>2. NoneWhileUnconnected'
      BY <1>1, <2>2, TaskAssumption, OpsAssumption, OneAttempt
        DEF Calm, NoneWhileUnconnected, Unconnected, Steady, Entry, Absent, AllOps, IInv, TypeOK,
            Shape, Register
    <3>3. Watched'
      <4>1. Alone(t) /\ At(t, "watch")' /\ Op(t)' = Op(t) BY <1>1 DEF IInv, TypeOK, Register, Alone
      <4>2. CASE registered \in running BY <4>2 DEF Watched, Register
      <4>3. ASSUME NEW u \in Tasks, Obliged(u) PROVE Watched'
        <5>1. Obliged(u)' BY <4>1, <4>3 DEF Obliged, Alone, Register
        <5> QED BY <5>1 DEF Watched
      <4> QED BY <1>1, <2>2, <4>2, <4>3 DEF Calm, Watched
    <3> QED BY <3>1, <3>2, <3>3 DEF Calm
  <2> QED BY <2>1, <2>2
<1>2. CASE ~Here \/ Disabled
  <2>0. GivesUp(t) BY <1>2, FailedGivesUp DEF Register
  <2>1. Steady'
    BY <1>2, <2>0, TaskAssumption
      DEF Steady, Entry, Absent, IInv, TypeOK, Kept, Shape, Register, GivesUp, Alone
  <2>2. ASSUME Calm, ~Overlaps PROVE Calm'
    <3>1. Owned'
      BY <1>2, <2>0, <2>2, TaskAssumption, OneAttempt
        DEF Calm, Owned, NoneWhileUnconnected, Unconnected, Steady, Entry, Absent, IInv, TypeOK, Shape,
            Register, GivesUp, Alone
    <3>2. NoneWhileUnconnected'
      BY <1>2, <2>0, <2>2, TaskAssumption, OpsAssumption, OneAttempt
        DEF Calm, NoneWhileUnconnected, Unconnected, Steady, Entry, Absent, AllOps, IInv, TypeOK,
            Shape, Register, GivesUp, Alone
    <3>3. Watched'
      BY <1>2, <2>0, <2>2, TaskAssumption, OneAttempt
        DEF Calm, Watched, Obliged, Steady, Entry, Absent, IInv, TypeOK, Shape, Register, GivesUp, Alone
    <3> QED BY <3>1, <3>2, <3>3 DEF Calm
  <2> QED BY <2>1, <2>2
<1> QED BY <1>1, <1>2

\* To ask for the guard changes nothing but the guard.
LEMMA TakeGuardLooks ==
  ASSUME IInv, Steady, NEW t \in Tasks, NEW op, NEW there, TakeGuard(t, op, there),
         op \notin {"add", "boot"}, there \notin {"dial", "register"}, At(t, "unused") \/ At(t, "guard")
  PROVE  Steady' /\ (Calm /\ ~Overlaps => Calm')
<1>1. CASE guard # None
  <2>0. Returned(t)
    <3>1. Finish(t, FALSE) BY <1>1 DEF TakeGuard
    <3> QED BY <3>1, Finishes
  <2>1. Steady'
    BY <1>1, <2>0, TaskAssumption
      DEF Steady, Entry, Absent, IInv, TypeOK, Kept, Shape, TakeGuard, Returned
  <2>2. ASSUME Calm, ~Overlaps PROVE Calm'
    <3>1. Owned'
      BY <1>1, <2>0, <2>2, TaskAssumption
        DEF Calm, Owned, NoneWhileUnconnected, Unconnected, Steady, Entry, Absent, IInv, TypeOK, Shape,
            TakeGuard, Returned
    <3>2. NoneWhileUnconnected'
      BY <1>1, <2>0, <2>2, TaskAssumption, OpsAssumption
        DEF Calm, NoneWhileUnconnected, Unconnected, Steady, Entry, Absent, AllOps, IInv, TypeOK,
            Shape, TakeGuard, Returned
    <3>3. Watched'
      BY <1>1, <2>0, <2>2, TaskAssumption
        DEF Calm, Watched, Obliged, Steady, Entry, Absent, IInv, TypeOK, Shape, TakeGuard, Returned
    <3> QED BY <3>1, <3>2, <3>3 DEF Calm
  <2> QED BY <2>1, <2>2
<1>2. CASE guard = None
  <2>1. Steady'
    BY <1>2, TaskAssumption DEF Steady, Entry, Absent, IInv, TypeOK, Kept, Shape, TakeGuard
  <2>2. ASSUME Calm, ~Overlaps PROVE Calm'
    <3>1. Owned'
      BY <1>2, <2>2, TaskAssumption
        DEF Calm, Owned, NoneWhileUnconnected, Unconnected, Steady, Entry, Absent, IInv, TypeOK, Shape,
            TakeGuard
    <3>2. NoneWhileUnconnected'
      BY <1>2, <2>2, TaskAssumption, OpsAssumption
        DEF Calm, NoneWhileUnconnected, Unconnected, Steady, Entry, Absent, AllOps, IInv, TypeOK,
            Shape, TakeGuard
    <3>3. Watched'
      BY <1>2, <2>2, TaskAssumption
        DEF Calm, Watched, Obliged, Steady, Entry, Absent, IInv, TypeOK, Shape, TakeGuard
    <3> QED BY <3>1, <3>2, <3>3 DEF Calm
  <2> QED BY <2>1, <2>2
<1> QED BY <1>1, <1>2

\* A RemoveClient that finds the client is obliged to remove it.
LEMMA LockLooks ==
  ASSUME IInv, Steady, NEW t \in Tasks, NEW op, Lock(t, op),
         (At(t, "unused") /\ op = "remove") \/ (At(t, "lock") /\ op = Op(t))
  PROVE  Steady' /\ (Calm /\ ~Overlaps => Calm')
<1>1. CASE Here /\ op = "remove"
  <2>1. Steady'
    BY <1>1, TaskAssumption DEF Steady, Entry, Absent, IInv, TypeOK, Kept, Shape, Lock
  <2>2. ASSUME Calm, ~Overlaps PROVE Calm'
    <3>1. Owned'
      BY <1>1, <2>2, TaskAssumption
        DEF Calm, Owned, NoneWhileUnconnected, Unconnected, Steady, Entry, Absent, IInv, TypeOK, Shape,
            Lock
    <3>2. NoneWhileUnconnected'
      BY <1>1, <2>2, TaskAssumption, OpsAssumption
        DEF Calm, NoneWhileUnconnected, Unconnected, Steady, Entry, Absent, AllOps, IInv, TypeOK,
            Shape, Lock
    <3>3. Watched'
      BY <1>1, <2>2, TaskAssumption
        DEF Calm, Watched, Obliged, Steady, Entry, Absent, IInv, TypeOK, Shape, Lock
    <3> QED BY <3>1, <3>2, <3>3 DEF Calm
  <2> QED BY <2>1, <2>2
<1>2. CASE Here /\ op = "disable" /\ ~Disabled
  <2>1. Steady'
    BY <1>2, TaskAssumption DEF Steady, Entry, Absent, IInv, TypeOK, Kept, Shape, Lock
  <2>2. ASSUME Calm, ~Overlaps PROVE Calm'
    <3>1. Owned'
      BY <1>2, <2>2, TaskAssumption
        DEF Calm, Owned, NoneWhileUnconnected, Unconnected, Steady, Entry, Absent, IInv, TypeOK, Shape,
            Lock
    <3>2. NoneWhileUnconnected'
      BY <1>2, <2>2, TaskAssumption, OpsAssumption
        DEF Calm, NoneWhileUnconnected, Unconnected, Steady, Entry, Absent, AllOps, IInv, TypeOK,
            Shape, Lock
    <3>3. Watched'
      <4>1. UNCHANGED <<entry, disabled, registered, running>>
        BY <1>2 DEF Lock
      <4>2. \A u \in Tasks \ {t} : task'[u] = task[u]
        BY <1>2, TaskAssumption DEF Lock, IInv, TypeOK
      <4>3. ~Obliged(t)
        BY <1>2 DEF Obliged
      <4>4. \A u \in Tasks : Obliged(u) => Obliged(u)'
        BY <4>2, <4>3 DEF Obliged
      <4> QED BY <2>2, <4>1, <4>4 DEF Calm, Watched
    <3> QED BY <3>1, <3>2, <3>3 DEF Calm
  <2> QED BY <2>1, <2>2
<1>3. CASE ~(Here /\ (op = "disable" => ~Disabled))
  <2>0. Returned(t)
    <3>1. Finish(t, FALSE) BY <1>3 DEF Lock
    <3> QED BY <3>1, Finishes
  <2>1. Steady'
    BY <1>3, <2>0, TaskAssumption DEF Steady, Entry, Absent, IInv, TypeOK, Kept, Shape, Lock, Returned
  <2>2. ASSUME Calm, ~Overlaps PROVE Calm'
    <3>1. Owned'
      BY <1>3, <2>0, <2>2, TaskAssumption
        DEF Calm, Owned, NoneWhileUnconnected, Unconnected, Steady, Entry, Absent, IInv, TypeOK, Shape,
            Lock, Returned
    <3>2. NoneWhileUnconnected'
      BY <1>3, <2>0, <2>2, TaskAssumption, OpsAssumption
        DEF Calm, NoneWhileUnconnected, Unconnected, Steady, Entry, Absent, AllOps, IInv, TypeOK,
            Shape, Lock, Returned
    <3>3. Watched'
      BY <1>3, <2>0, <2>2, TaskAssumption
        DEF Calm, Watched, Obliged, Steady, Entry, Absent, IInv, TypeOK, Shape, Lock, Returned
    <3> QED BY <3>1, <3>2, <3>3 DEF Calm
  <2> QED BY <2>1, <2>2
<1>4. op \in {"disable", "remove"} BY DEF IInv, Shape
<1> QED BY <1>1, <1>2, <1>3, <1>4

\* The operations that ask for the guard have opened nothing yet.
LEMMA GuardedLooks ==
  ASSUME IInv, Steady, NEW t \in Tasks, Guarded(t)
  PROVE  Steady' /\ (Calm /\ ~Overlaps => Calm')
<1>1. CASE Begins(t, "disable") /\ TakeGuard(t, "disable", "lock") BY <1>1, TakeGuardLooks
<1>2. CASE Begins(t, "update") /\ TakeGuard(t, "update", "edit") BY <1>2, TakeGuardLooks
<1>3. ASSUME NEW op \in {"reconnect", "reauth"}, Begins(t, op), TakeGuard(t, op, "lookup")
      PROVE  Steady' /\ (Calm /\ ~Overlaps => Calm')
  BY <1>3, TakeGuardLooks
<1>4. CASE At(t, "guard") /\ TakeGuard(t, Op(t), IF Op(t) = "enable" THEN "connect" ELSE "lookup")
  <2>1. Op(t) \in {"enable", "heal"} BY <1>4 DEF IInv, Shape
  <2> QED BY <1>4, <2>1, TakeGuardLooks
<1> QED BY <1>1, <1>2, <1>3, <1>4 DEF Guarded

\* Who waits inside the lock has found the client, and closes nothing yet.
LEMMA LocksLooks ==
  ASSUME IInv, Steady, NEW t \in Tasks, Locks(t)
  PROVE  Steady' /\ (Calm /\ ~Overlaps => Calm')
  BY LockLooks DEF Locks

\* The reconnect that is spawned has not begun.
LEMMA ReportFailureLooks ==
  ASSUME IInv, Steady, NEW m \in Tasks, ReportFailure(m)
  PROVE  Steady' /\ (Calm => Calm')
<1>1. PICK t \in Tasks : /\ At(t, "unused")
                         /\ task' = [task EXCEPT ![t] = [op |-> "heal", at |-> "sane", config |-> None, from |-> m]]
  BY DEF ReportFailure
<1>2. Steady' BY DEF Steady, ReportFailure, State
<1>3. ASSUME Calm PROVE Calm'
  <2>1. Owned' BY <1>1, <1>3 DEF Calm, Owned, IInv, TypeOK, ReportFailure, State
  <2>2. NoneWhileUnconnected'
    BY <1>1, <1>3 DEF Calm, NoneWhileUnconnected, Unconnected, IInv, TypeOK, ReportFailure, State
  <2>3. Watched' BY <1>1, <1>3 DEF Calm, Watched, Obliged, IInv, TypeOK, Shape, ReportFailure, State
  <2> QED BY <2>1, <2>2, <2>3 DEF Calm
<1> QED BY <1>2, <1>3

\* A lost connection only marks the entry.
LEMMA ConnectionLostLooks ==
  ASSUME IInv, Steady, ConnectionLost
  PROVE  Steady' /\ (Calm => Calm')
<1>1. Steady' BY DEF Steady, ConnectionLost, State
<1>2. ASSUME Calm PROVE Calm'
  <2>1. Owned' BY <1>2 DEF Calm, Owned, ConnectionLost, State
  <2>2. NoneWhileUnconnected' BY <1>2 DEF Calm, NoneWhileUnconnected, Unconnected, ConnectionLost, State
  <2>3. Watched' BY <1>2 DEF Calm, Watched, Obliged, ConnectionLost, State
  <2> QED BY <2>1, <2>2, <2>3 DEF Calm
<1> QED BY <1>1, <1>2

\* The boot's AddClient is obliged to look after the first client.
LEMMA LookedStarts == Init => Looked
<1> SUFFICES ASSUME Init PROVE Looked OBVIOUS
<1>1. Steady BY DEF Init, Steady, Entry
<1>2. Owned /\ NoneWhileUnconnected BY DEF Init, Owned, NoneWhileUnconnected, Entry
<1>3. Watched
  <2>1. Obliged(Boot) BY TaskAssumption DEF Init, Obliged
  <2> QED BY <2>1, TaskAssumption DEF Watched
<1>4. ~Overlaps
  <2>1. \A t \in Tasks : Pending(t) => t = Boot BY DEF Init, Idle
  <2> QED BY <2>1 DEF Overlaps, Adding
<1> QED BY <1>1, <1>2, <1>3, <1>4 DEF Looked, Calm

\* No step of an undisturbed history leaves the client without somebody to watch it.
LEMMA LookedKeeps == IInv /\ Looked /\ [Next]_vars => Looked'
<1> SUFFICES ASSUME IInv, Looked, [Next]_vars PROVE Looked' OBVIOUS
<1>1. CASE Next
  <2>1. Steady' /\ (Calm /\ ~Overlaps /\ ~Revives => Calm')
    <3>0. Steady BY DEF Looked
    <3>1. ASSUME NEW t \in Tasks, OperationSteps(t) \/ ConnectSteps(t) \/ MonitorSteps(t)
          PROVE  Steady' /\ (Calm /\ ~Overlaps /\ ~Revives => Calm')
      BY <3>0, <3>1, AddClientLooks, EnableClientLooks, GuardedLooks, LookupLooks, UpdateClientLooks,
         AttemptReconnectLooks, StopAllLooks, LocksLooks, RemoveClientLooks, DisableClientLooks,
         ConnectLooks, DialLooks, RegisterLooks, UndoLooks, RetainLooks, MarkLooks, RestoreLooks,
         StartMonitoringLooks, StartLooks, CheckLooks, ReportLooks, ReportFailureLooks
      DEF OperationSteps, ConnectSteps, MonitorSteps
    <3> QED BY <1>1, <3>0, <3>1, ConnectionLostLooks DEF Next
  <2>2. disturbed' = {} => disturbed = {} /\ ~Overlaps' /\ ~Revives
    <3>1. disturbed' = disturbed \union {d \in {"overlap"} : Overlaps'} \union {d \in {"revived"} : Revives}
      BY <1>1 DEF Next
    <3>2. Overlaps' => "overlap" \in disturbed' BY <3>1
    <3>3. Revives => "revived" \in disturbed' BY <3>1
    <3>4. disturbed \subseteq disturbed' BY <3>1
    <3> QED BY <3>2, <3>3, <3>4
  <2> QED BY <2>1, <2>2 DEF Looked
<1>2. CASE UNCHANGED vars
  BY <1>2 DEF vars, history, Looked, Steady, Calm, Owned, NoneWhileUnconnected, Watched, Unconnected,
              Obliged, Overlaps, Adding
<1> QED BY <1>1, <1>2

\* In a history in which no AddClient ran along another attempt and no reconnect
\* revived a client that was gone or off, no connection leaks, and once every
\* operation has returned a client that is not disabled has the monitor registered
\* for it running, for any number of operations, reconnects and monitors.
\* (clientmanager.go:1227-1250, 1554-1569, 871-897)
THEOREM StaysLookedAfter == Spec => []LookedAfter
<1>1. IInv /\ Looked => LookedAfter
  <2> SUFFICES ASSUME IInv, Looked, disturbed = {} PROVE LookedAfter BY DEF LookedAfter
  <2>1. Owned BY DEF Looked, Calm
  <2>2. ASSUME Resting, Here, ~Disabled PROVE registered \in running
    <3>1. \A t \in Tasks : ~Obliged(t) BY <2>2 DEF Resting, Obliged
    <3> QED BY <2>2, <3>1 DEF Looked, Calm, Watched
  <2> QED BY <2>1, <2>2 DEF LookedAfter, Owned
<1>2. Init => IInv /\ Looked BY Starts, LookedStarts
<1>3. IInv /\ Looked /\ [Next]_vars => (IInv /\ Looked)' BY StepKeeps, LookedKeeps
<1> QED BY <1>1, <1>2, <1>3, PTL DEF Spec
=============================================================================
