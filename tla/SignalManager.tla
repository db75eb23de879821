--------------------------- MODULE SignalManager ----------------------------
(***************************************************************************)
(* The lifecycle of realtime signal sessions: SignalManager of             *)
(* server/handler/signal_manager.go, the HTTP handlers of                  *)
(* server/handler/signal.go that call it, and the session rows and events  *)
(* that storage/sqlite keeps.                                              *)
(*                                                                         *)
(* Every critical section of m.mu is one action, and so is every call to   *)
(* the database: between two of them any other request, bot goroutine or   *)
(* crash may run.  A launch is one reservation with the context, the bot   *)
(* and the goroutine that come from it.                                    *)
(***************************************************************************)
EXTENDS Naturals, FiniteSets

CONSTANTS
    Sessions,     \* session ids (uuids drawn by StartSession)
    Handlers,     \* HTTP requests that can be in progress at the same time
    Launches,     \* launches that can be alive at the same time
    NoLaunch,     \* the nil of bots[id], starting[id] and of the locals
    AlertValues,  \* values of the telegram_alerts flag that requests use
    SelfExit,     \* may Bot.Run return although nobody cancelled it?
    DBFaults,     \* may a database write fail?
    Crashes       \* may the process be killed?

ASSUME ManagerAssumption ==
    /\ Sessions # {}
    /\ NoLaunch \notin Launches
    /\ AlertValues \subseteq BOOLEAN
    /\ {SelfExit, DBFaults, Crashes} \subseteq BOOLEAN

VARIABLES
    db,         \* the row of a session and what is read of its event log
    bots,       \* m.bots
    starting,   \* m.starting
    cancelled,  \* launches whose context is cancelled
    launch,     \* how far a launch has come
    owner,      \* the session of a launch
    exitRow,    \* the row that run() has read after Bot.Run returned
    op,         \* the request a handler executes
    pc,         \* the next step of a handler
    on,         \* the session the request names
    tok,        \* the launch a request reserves, or the one Stop waits for
    snap,       \* the session a request has read
    found,      \* Stop: a live or starting bot was there to cancel
    phase,      \* "up", "recovering" or "down"
    todo,       \* recovery: sessions whose row is still to be rewritten
    closing     \* recovery: the session whose STOP event is still to be decided,
                \* with what its row had as saved

dbVars   == <<db>>
regVars  == <<bots, starting, cancelled, launch, owner>>
reqVars  == <<op, pc, on, tok, snap, found>>
sysVars  == <<phase, todo, closing>>
vars     == <<db, regVars, exitRow, reqVars, sysVars>>

-----------------------------------------------------------------------------
(* A session row together with what the program reads of its event log:     *)
(* "empty"; "open", START or RESUME newest and no STOP so far; "reopened",  *)
(* the same after an earlier STOP; "closed", STOP newest.  saved: the row's *)
(* UpdatedAt is later than its creation and its newest START or RESUME.     *)
Statuses   == {"unborn", "absent", "running", "stopped", "error"}
Logs       == {"empty", "open", "reopened", "closed"}
SessionRow == [status : Statuses, alerts : BOOLEAN, log : Logs, saved : BOOLEAN]

NewRow(a) == [status |-> "running", alerts |-> a, log |-> "empty", saved |-> FALSE]
Unborn    == [status |-> "unborn", alerts |-> FALSE, log |-> "empty", saved |-> FALSE]

HasStop(log) == log \in {"reopened", "closed"}

Opened(log) == IF HasStop(log) THEN "reopened" ELSE "open"

(* The events of an old copy of the session put before those in the log.    *)
Merged(old, log) ==
    CASE log = "empty" -> old
      [] log = "open" /\ HasStop(old) -> "reopened"
      [] OTHER -> log

(* What a reader of the row keeps: it stamps UpdatedAt when it saves it.    *)
Copy(s) == [db[s] EXCEPT !.saved = FALSE]

Exists(s) == db[s].status \notin {"unborn", "absent"}

(* UpdateSession saves the whole row the caller holds: it overwrites every  *)
(* column, inserts the row when it is gone, and inserts those events of the *)
(* caller's copy that are gone (gorm's Save with its associations).         *)
UpdateSession(s, row, status) ==
    db' = [db EXCEPT ![s] = [status |-> status, alerts |-> row.alerts,
                             log |-> Merged(row.log, @.log), saved |-> TRUE]]

CreateSessionEvent(s, type) ==
    db' = [db EXCEPT ![s].log = IF type = "STOP" THEN "closed" ELSE Opened(@),
                     ![s].saved = IF type = "STOP" THEN @ ELSE FALSE]

(* recordSessionEvent only logs a failed insert. *)
RecordSessionEvent(s, type) ==
    \/ CreateSessionEvent(s, type)
    \/ DBFaults /\ UNCHANGED db

-----------------------------------------------------------------------------
LaunchStates == {"gone", "reserved", "live", "returned", "owned", "saving", "logging"}

(* Control points of a request.                                             *)
PCs == {"idle", "startEvent", "reserve", "resumeSave", "resumeEvent", "unreserve",
        "build", "markFailed", "wait", "stopGet", "stopSave", "stopEvent",
        "deleteEvents", "deleteRow", "alertSave"}
Ops == {"none", "start", "resume", "stop", "delete", "alerts"}

(* A launch may be drawn for a new reservation when nothing refers to the   *)
(* old one: this recycling is what bounds the number of launches.           *)
Free(t) == launch[t] = "gone" /\ \A h \in Handlers : tok[h] # t

(* Mutant: reserve looks only at the sessions that are starting.            *)
BusyIgnoresBots(s) == starting[s] # NoLaunch

Busy(s) == bots[s] # NoLaunch \/ starting[s] # NoLaunch

Enter(h, o, s, t, row, f, next) ==
    /\ op'    = [op EXCEPT ![h] = o]
    /\ pc'    = [pc EXCEPT ![h] = next]
    /\ on'    = [on EXCEPT ![h] = s]
    /\ tok'   = [tok EXCEPT ![h] = t]
    /\ snap'  = [snap EXCEPT ![h] = row]
    /\ found' = [found EXCEPT ![h] = f]

AnySession == CHOOSE s \in Sessions : TRUE

Return(h) == Enter(h, "none", AnySession, NoLaunch, Unborn, FALSE, "idle")

Goto(h, next) == pc' = [pc EXCEPT ![h] = next] /\ UNCHANGED <<op, on, tok, snap, found>>

Set(f, x, v) == [f EXCEPT ![x] = v]

At(h, label) == phase = "up" /\ pc[h] = label

Init ==
    /\ db = [s \in Sessions |-> Unborn]
    /\ bots = [s \in Sessions |-> NoLaunch]
    /\ starting = [s \in Sessions |-> NoLaunch]
    /\ cancelled = {}
    /\ launch = [t \in Launches |-> "gone"]
    /\ owner = [t \in Launches |-> AnySession]
    /\ exitRow = [t \in Launches |-> Unborn]
    /\ op = [h \in Handlers |-> "none"]
    /\ pc = [h \in Handlers |-> "idle"]
    /\ on = [h \in Handlers |-> AnySession]
    /\ tok = [h \in Handlers |-> NoLaunch]
    /\ snap = [h \in Handlers |-> Unborn]
    /\ found = [h \in Handlers |-> FALSE]
    /\ phase = "up"
    /\ todo = {}
    /\ closing = {}

-----------------------------------------------------------------------------
(* StartSession and ResumeSession.                                          *)

(* StartSession: the row of a new uuid is created as running.               *)
BeginStart(h, s, t, a) ==
    /\ At(h, "idle") /\ db[s].status = "unborn" /\ Free(t)
    /\ db' = Set(db, s, NewRow(a))
    /\ Enter(h, "start", s, t, NewRow(a), FALSE, "startEvent")
    /\ UNCHANGED <<regVars, exitRow, sysVars>>

StartEvent(h) ==
    /\ At(h, "startEvent")
    /\ RecordSessionEvent(on[h], "START")
    /\ Goto(h, "reserve")
    /\ UNCHANGED <<regVars, exitRow, sysVars>>

(* ResumeSession: read the session; a missing one is an error.              *)
BeginResume(h, s, t) ==
    /\ At(h, "idle") /\ Exists(s) /\ Free(t)
    /\ Enter(h, "resume", s, t, Copy(s), FALSE, "reserve")
    /\ UNCHANGED <<db, regVars, exitRow, sysVars>>

(* reserve, under m.mu: a busy session ends the request.                    *)
ReserveBusy(h) ==
    /\ At(h, "reserve") /\ Busy(on[h])
    /\ Return(h)
    /\ UNCHANGED <<db, regVars, exitRow, sysVars>>

Reserve(h) ==
    /\ At(h, "reserve") /\ ~Busy(on[h])
    /\ starting' = Set(starting, on[h], tok[h])
    /\ launch' = Set(launch, tok[h], "reserved")
    /\ owner' = Set(owner, tok[h], on[h])
    /\ cancelled' = cancelled \ {tok[h]}
    /\ Goto(h, IF op[h] = "start" THEN "build" ELSE "resumeSave")
    /\ UNCHANGED <<db, bots, exitRow, sysVars>>

(* ResumeSession saves the row it read before the reservation as running.   *)
ResumeSave(h) ==
    /\ At(h, "resumeSave")
    /\ \/ /\ UpdateSession(on[h], snap[h], "running")
          /\ Goto(h, "resumeEvent")
       \/ /\ DBFaults
          /\ UNCHANGED db
          /\ Goto(h, "unreserve")
    /\ UNCHANGED <<regVars, exitRow, sysVars>>

(* The save failed: take the reservation back and cancel its context.       *)
Unreserve(h) ==
    /\ At(h, "unreserve")
    /\ starting' = Set(starting, on[h], NoLaunch)
    /\ launch' = Set(launch, tok[h], "gone")
    /\ cancelled' = cancelled \cup {tok[h]}
    /\ Return(h)
    /\ UNCHANGED <<db, bots, owner, exitRow, sysVars>>

(* Mutant: ResumeSession records no event.                                  *)
ResumeSilently(h) ==
    /\ At(h, "resumeEvent")
    /\ Goto(h, "build")
    /\ UNCHANGED <<db, regVars, exitRow, sysVars>>

ResumeEvent(h) ==
    /\ At(h, "resumeEvent")
    /\ RecordSessionEvent(on[h], "RESUME")
    /\ Goto(h, "build")
    /\ UNCHANGED <<regVars, exitRow, sysVars>>

(* launch: buildBot has succeeded without the lock; under it the bot is     *)
(* registered unless StopSession has cancelled its context meanwhile.       *)
MayRegister(t) == t \notin cancelled

LaunchBot(h) ==
    /\ At(h, "build") /\ MayRegister(tok[h])
    /\ starting' = Set(starting, on[h], NoLaunch)
    /\ bots' = Set(bots, on[h], tok[h])
    /\ launch' = Set(launch, tok[h], "live")
    /\ Return(h)
    /\ UNCHANGED <<db, cancelled, owner, exitRow, sysVars>>

(* errStartCancelled: the caller only reads the row that Stop has written.  *)
LaunchCancelled(h) ==
    /\ At(h, "build") /\ tok[h] \in cancelled
    /\ starting' = Set(starting, on[h], NoLaunch)
    /\ launch' = Set(launch, tok[h], "gone")
    /\ Return(h)
    /\ UNCHANGED <<db, bots, cancelled, owner, exitRow, sysVars>>

(* buildBot has failed (it fetches candles): the session is marked later.   *)
LaunchFails(h) ==
    /\ At(h, "build")
    /\ starting' = Set(starting, on[h], NoLaunch)
    /\ launch' = Set(launch, tok[h], "gone")
    /\ cancelled' = cancelled \cup {tok[h]}
    /\ Goto(h, "markFailed")
    /\ UNCHANGED <<db, bots, owner, exitRow, sysVars>>

(* Mutant: a status that no reader of the row knows.                        *)
FailedStatusUnknown == "failed"

FailedStatus == "error"

MarkFailed(h) ==
    /\ At(h, "markFailed")
    /\ \/ UpdateSession(on[h], snap[h], FailedStatus)
       \/ DBFaults /\ UNCHANGED db
    /\ Return(h)
    /\ UNCHANGED <<regVars, exitRow, sysVars>>

-----------------------------------------------------------------------------
(* StopSession, and the DELETE handler, which stops before it deletes.      *)

(* Mutant: Stop cancels the bot but leaves it to run to take it out.        *)
StopKeepsEntry(h, s, o) ==
    LET here == {bots[s], starting[s]} \ {NoLaunch} IN
    /\ At(h, "idle") /\ db[s].status # "unborn"
    /\ cancelled' = cancelled \cup here
    /\ Enter(h, o, s, bots[s], Unborn, here # {},
             IF bots[s] = NoLaunch THEN "stopGet" ELSE "wait")
    /\ UNCHANGED <<db, bots, starting, launch, owner, exitRow, sysVars>>

(* Under m.mu: take the live bot out of the map and cancel it; cancel a     *)
(* start in progress but leave its reservation to launch.                   *)
BeginStop(h, s, o) ==
    LET here == {bots[s], starting[s]} \ {NoLaunch} IN
    /\ At(h, "idle") /\ db[s].status # "unborn"
    /\ bots' = Set(bots, s, NoLaunch)
    /\ cancelled' = cancelled \cup here
    /\ Enter(h, o, s, bots[s], Unborn, here # {},
             IF bots[s] = NoLaunch THEN "stopGet" ELSE "wait")
    /\ UNCHANGED <<db, starting, launch, owner, exitRow, sysVars>>

(* Wait for the bot to exit, but no longer than botStopTimeout.             *)
AfterWait(h) == Enter(h, op[h], on[h], NoLaunch, Unborn, TRUE, "stopGet")

BotDone(h) ==
    /\ At(h, "wait") /\ launch[tok[h]] = "gone"
    /\ AfterWait(h)
    /\ UNCHANGED <<db, regVars, exitRow, sysVars>>

(* Mutant: Stop waits for the bot as long as it takes.                      *)
StopWaitsForever(h) == FALSE

(* Mutant: Stop gives up at its timeout without persisting anything.        *)
StopGivesUp(h) ==
    /\ At(h, "wait") /\ launch[tok[h]] # "gone"
    /\ Return(h)
    /\ UNCHANGED <<db, regVars, exitRow, sysVars>>

StopTimeout(h) ==
    /\ At(h, "wait") /\ launch[tok[h]] # "gone"
    /\ AfterWait(h)
    /\ UNCHANGED <<db, regVars, exitRow, sysVars>>

(* The session cannot be read: an error, which ends a DELETE as well.       *)
StopGetFails(h) ==
    /\ At(h, "stopGet") /\ (~Exists(on[h]) \/ DBFaults)
    /\ Return(h)
    /\ UNCHANGED <<db, regVars, exitRow, sysVars>>

(* StopSession returns nil: the request ends, or goes on to delete.         *)
Stopped(h) == IF op[h] = "delete" THEN Goto(h, "deleteEvents") ELSE Return(h)

StopGet(h) ==
    /\ At(h, "stopGet") /\ Exists(on[h])
    /\ IF db[on[h]].status # "running" /\ ~found[h]
       THEN Stopped(h)
       ELSE Enter(h, op[h], on[h], NoLaunch, Copy(on[h]), found[h], "stopSave")
    /\ UNCHANGED <<db, regVars, exitRow, sysVars>>

StopSave(h) ==
    /\ At(h, "stopSave")
    /\ \/ UpdateSession(on[h], snap[h], "stopped") /\ Goto(h, "stopEvent")
       \/ DBFaults /\ UNCHANGED db /\ Return(h)
    /\ UNCHANGED <<regVars, exitRow, sysVars>>

StopEvent(h) ==
    /\ At(h, "stopEvent")
    /\ RecordSessionEvent(on[h], "STOP")
    /\ Stopped(h)
    /\ UNCHANGED <<regVars, exitRow, sysVars>>

(* DeleteSession is three statements without a transaction: events, orders  *)
(* (not modelled) and the row.                                              *)
DeleteEvents(h) ==
    /\ At(h, "deleteEvents")
    /\ \/ /\ db' = [db EXCEPT ![on[h]].log = "empty"]
          /\ Goto(h, "deleteRow")
       \/ DBFaults /\ UNCHANGED db /\ Return(h)
    /\ UNCHANGED <<regVars, exitRow, sysVars>>

DeleteRow(h) ==
    /\ At(h, "deleteRow")
    /\ \/ db' = [db EXCEPT ![on[h]].status = "absent", ![on[h]].alerts = FALSE]
       \/ DBFaults /\ UNCHANGED db
    /\ Return(h)
    /\ UNCHANGED <<regVars, exitRow, sysVars>>

-----------------------------------------------------------------------------
(* SetTelegramAlerts reads the session and saves all of it.                 *)
BeginAlerts(h, s, a) ==
    /\ At(h, "idle") /\ Exists(s)
    /\ Enter(h, "alerts", s, NoLaunch, [Copy(s) EXCEPT !.alerts = a], FALSE, "alertSave")
    /\ UNCHANGED <<db, regVars, exitRow, sysVars>>

AlertSave(h) ==
    /\ At(h, "alertSave")
    /\ \/ UpdateSession(on[h], snap[h], snap[h].status)
       \/ DBFaults /\ UNCHANGED db
    /\ Return(h)
    /\ UNCHANGED <<regVars, exitRow, sysVars>>

-----------------------------------------------------------------------------
(* run, the goroutine of a launched bot.                                    *)

(* Bot.Run returns: its context is cancelled, or it ends on its own.        *)
BotReturns(t) ==
    /\ phase = "up" /\ launch[t] = "live" /\ (SelfExit \/ t \in cancelled)
    /\ launch' = Set(launch, t, "returned")
    /\ UNCHANGED <<db, bots, starting, cancelled, owner, exitRow, reqVars, sysVars>>

(* Mutant: run deletes whatever is registered for its session.              *)
OwnedAlways(t) == TRUE

Owned(t) == bots[owner[t]] = t

(* Under m.mu: a bot that is still registered ended on its own.             *)
BotUnregister(t) ==
    /\ phase = "up" /\ launch[t] = "returned" /\ Owned(t)
    /\ bots' = Set(bots, owner[t], NoLaunch)
    /\ launch' = Set(launch, t, "owned")
    /\ cancelled' = cancelled \cup {t}
    /\ UNCHANGED <<db, starting, owner, exitRow, reqVars, sysVars>>

(* StopSession has removed it: nothing is left to do, and done is closed.   *)
BotDisowned(t) ==
    /\ phase = "up" /\ launch[t] = "returned" /\ ~Owned(t)
    /\ launch' = Set(launch, t, "gone")
    /\ UNCHANGED <<db, bots, starting, cancelled, owner, exitRow, reqVars, sysVars>>

ExitRead(t) ==
    /\ phase = "up" /\ launch[t] = "owned"
    /\ \/ /\ db[owner[t]].status = "running"
          /\ exitRow' = Set(exitRow, t, Copy(owner[t]))
          /\ launch' = Set(launch, t, "saving")
       \/ /\ db[owner[t]].status # "running" \/ DBFaults
          /\ launch' = Set(launch, t, "gone")
          /\ UNCHANGED exitRow
    /\ UNCHANGED <<db, bots, starting, cancelled, owner, reqVars, sysVars>>

ExitSave(t) ==
    /\ phase = "up" /\ launch[t] = "saving"
    /\ \/ UpdateSession(owner[t], exitRow[t], "stopped")
       \/ DBFaults /\ UNCHANGED db
    /\ exitRow' = Set(exitRow, t, Unborn)
    /\ launch' = Set(launch, t, "logging")
    /\ UNCHANGED <<bots, starting, cancelled, owner, reqVars, sysVars>>

ExitEvent(t) ==
    /\ phase = "up" /\ launch[t] = "logging"
    /\ RecordSessionEvent(owner[t], "STOP")
    /\ launch' = Set(launch, t, "gone")
    /\ UNCHANGED <<bots, starting, cancelled, owner, exitRow, reqVars, sysVars>>

-----------------------------------------------------------------------------
(* A crash loses everything but the database; NewSignalManager runs         *)
(* RecoverStaleSessions before the first request is served.                 *)
Crash ==
    /\ Crashes /\ phase # "down"
    /\ phase' = "down" /\ todo' = {} /\ closing' = {}
    /\ bots' = [s \in Sessions |-> NoLaunch]
    /\ starting' = [s \in Sessions |-> NoLaunch]
    /\ cancelled' = {}
    /\ launch' = [t \in Launches |-> "gone"]
    /\ owner' = [t \in Launches |-> AnySession]
    /\ exitRow' = [t \in Launches |-> Unborn]
    /\ op' = [h \in Handlers |-> "none"]
    /\ pc' = [h \in Handlers |-> "idle"]
    /\ on' = [h \in Handlers |-> AnySession]
    /\ tok' = [h \in Handlers |-> NoLaunch]
    /\ snap' = [h \in Handlers |-> Unborn]
    /\ found' = [h \in Handlers |-> FALSE]
    /\ UNCHANGED db

(* When the sessions cannot be listed the recovery is skipped.              *)
Restart ==
    /\ phase = "down"
    /\ phase' = "recovering"
    /\ \/ todo' = {s \in Sessions : db[s].status = "running"}
       \/ DBFaults /\ todo' = {}
    /\ UNCHANGED <<db, regVars, exitRow, reqVars, closing>>

RecoverSave(s) ==
    /\ phase = "recovering" /\ closing = {} /\ s \in todo
    /\ todo' = todo \ {s}
    /\ \/ UpdateSession(s, db[s], "stopped") /\ closing' = {<<s, db[s].saved>>}
       \/ DBFaults /\ UNCHANGED <<db, closing>>
    /\ UNCHANGED <<regVars, exitRow, reqVars, phase>>

(* A STOP is recorded only for a session that never had one, at the         *)
(* UpdatedAt its row had: before a START or RESUME that is later than that  *)
(* (and before one that is made up for the page, at the same time).         *)
RecoverEvent(s) ==
    /\ phase = "recovering"
    /\ \E saved \in BOOLEAN :
          /\ <<s, saved>> \in closing
          /\ \/ /\ ~HasStop(db[s].log)
                /\ db' = [db EXCEPT ![s].log = IF saved THEN "closed" ELSE "reopened"]
             \/ (HasStop(db[s].log) \/ DBFaults) /\ UNCHANGED db
    /\ closing' = {}
    /\ UNCHANGED <<regVars, exitRow, reqVars, phase, todo>>

Recovered ==
    /\ phase = "recovering" /\ todo = {} /\ closing = {}
    /\ phase' = "up"
    /\ UNCHANGED <<db, regVars, exitRow, reqVars, todo, closing>>

-----------------------------------------------------------------------------
Begin(h) ==
    \E s \in Sessions :
        \/ \E t \in Launches, a \in AlertValues : BeginStart(h, s, t, a)
        \/ \E t \in Launches : BeginResume(h, s, t)
        \/ \E o \in {"stop", "delete"} : BeginStop(h, s, o)
        \/ \E a \in AlertValues : BeginAlerts(h, s, a)

(* The steps a request takes once it has begun.                             *)
RequestStep(h) ==
    \/ StartEvent(h) \/ ReserveBusy(h) \/ Reserve(h) \/ ResumeSave(h)
    \/ Unreserve(h) \/ ResumeEvent(h) \/ LaunchBot(h) \/ LaunchCancelled(h)
    \/ LaunchFails(h) \/ MarkFailed(h) \/ BotDone(h) \/ StopTimeout(h)
    \/ StopGetFails(h) \/ StopGet(h) \/ StopSave(h) \/ StopEvent(h)
    \/ DeleteEvents(h) \/ DeleteRow(h) \/ AlertSave(h)

(* What the goroutine of a bot does after Bot.Run has returned.             *)
BotStep(t) ==
    BotUnregister(t) \/ BotDisowned(t) \/ ExitRead(t) \/ ExitSave(t) \/ ExitEvent(t)

Recover == Restart \/ Recovered \/ \E s \in Sessions : RecoverSave(s) \/ RecoverEvent(s)

Next ==
    \/ \E h \in Handlers : Begin(h) \/ RequestStep(h)
    \/ \E t \in Launches : BotReturns(t) \/ BotStep(t)
    \/ Crash \/ Recover

(* Goroutines of the process are scheduled; a client need not send another  *)
(* request, and a cancelled bot may hang: nothing forces Bot.Run to return. *)
Fairness ==
    /\ \A h \in Handlers : WF_vars(RequestStep(h))
    /\ \A t \in Launches : WF_vars(BotStep(t))
    /\ WF_vars(Recover)

Spec == Init /\ [][Next]_vars /\ Fairness

-----------------------------------------------------------------------------
DBTypeOK ==
    /\ db \in [Sessions -> SessionRow]
    /\ exitRow \in [Launches -> SessionRow]

RegTypeOK ==
    /\ bots \in [Sessions -> Launches \cup {NoLaunch}]
    /\ starting \in [Sessions -> Launches \cup {NoLaunch}]
    /\ cancelled \in SUBSET Launches
    /\ launch \in [Launches -> LaunchStates]
    /\ owner \in [Launches -> Sessions]

ReqTypeOK ==
    /\ op \in [Handlers -> Ops]
    /\ pc \in [Handlers -> PCs]
    /\ on \in [Handlers -> Sessions]
    /\ tok \in [Handlers -> Launches \cup {NoLaunch}]
    /\ snap \in [Handlers -> SessionRow]
    /\ found \in [Handlers -> BOOLEAN]

SysTypeOK ==
    /\ phase \in {"up", "recovering", "down"}
    /\ todo \in SUBSET Sessions
    /\ closing \in SUBSET (Sessions \X BOOLEAN)

(* Every variable has its type: no request or goroutine writes a status, a  *)
(* log or a registry entry that its readers do not know.                    *)
TypeOK == DBTypeOK /\ RegTypeOK /\ ReqTypeOK /\ SysTypeOK

(* A session is registered or starting, never both.                         *)
RegistryExclusive == \A s \in Sessions : bots[s] = NoLaunch \/ starting[s] = NoLaunch

(* Every bot that trades and was not cancelled is the one m.bots holds for  *)
(* its session: none escapes StopSession, and a session has at most one.    *)
NoOrphanBot ==
    \A t \in Launches : launch[t] = "live" /\ t \notin cancelled => bots[owner[t]] = t

(* A registered bot is one that nobody has asked to stop.                   *)
RegisteredBotIsWanted ==
    \A s \in Sessions : bots[s] # NoLaunch =>
        /\ bots[s] \notin cancelled
        /\ launch[bots[s]] \in {"live", "returned"}
        /\ owner[bots[s]] = s

(* What else the registry relies on, and the proofs need.  A request that   *)
(* holds a reservation is the one starting[id] names.                       *)
HoldingPCs  == {"resumeSave", "resumeEvent", "unreserve", "build"}
ClaimingPCs == {"startEvent", "reserve"}

ReservationHeld ==
    \A h \in Handlers : pc[h] \in HoldingPCs =>
        /\ tok[h] \in Launches
        /\ launch[tok[h]] = "reserved"
        /\ owner[tok[h]] = on[h]
        /\ starting[on[h]] = tok[h]

(* starting[id] is a launch of that session that is not yet a bot.          *)
StartingIsReserved ==
    \A s \in Sessions : starting[s] # NoLaunch =>
        launch[starting[s]] = "reserved" /\ owner[starting[s]] = s

(* Requests that have drawn a launch have drawn different ones.             *)
ClaimsAreFresh ==
    \A h \in Handlers : pc[h] \in ClaimingPCs =>
        tok[h] \in Launches /\ launch[tok[h]] = "gone"

ClaimsDiffer ==
    \A g, h \in Handlers :
        g # h /\ {pc[g], pc[h]} \subseteq HoldingPCs \cup ClaimingPCs => tok[g] # tok[h]

(* The inductive invariant behind the three registry properties.            *)
RegistryInv ==
    /\ TypeOK
    /\ RegistryExclusive /\ NoOrphanBot /\ RegisteredBotIsWanted
    /\ ReservationHeld /\ StartingIsReserved /\ ClaimsAreFresh /\ ClaimsDiffer

(* Every request ends, even one that stops a bot that never exits.          *)
RequestsFinish == \A h \in Handlers : pc[h] # "idle" ~> pc[h] = "idle"

(* Nothing is in progress for the session.                                  *)
Quiescent(s) ==
    /\ phase = "up"
    /\ \A h \in Handlers : pc[h] = "idle" \/ on[h] # s
    /\ \A t \in Launches : launch[t] \in {"gone", "live"} \/ owner[t] # s

(* "the DB is kept in sync by the signal manager": when nothing is in       *)
(* progress, the row says running exactly when a bot is registered.         *)
RowInSync ==
    \A s \in Sessions : Quiescent(s) => (db[s].status = "running" <=> bots[s] # NoLaunch)

(* handleGetRealtimeSignal: the registry decides whether a session runs.    *)
ShownStatus(s) ==
    CASE Busy(s) -> "running"
      [] ~Busy(s) /\ db[s].status = "running" -> "stopped"
      [] OTHER -> db[s].status

(* sessionEventsForDisplay: a START or a STOP that is missing is made up,   *)
(* the STOP at the row's UpdatedAt.                                        *)
EventsForDisplay(row, status) ==
    CASE HasStop(row.log) -> row.log
      [] ~HasStop(row.log) /\ (status = "running" \/ ~row.saved) -> "open"
      [] OTHER -> "closed"

(* The newest event that the page of a running session shows is a START or  *)
(* a RESUME, also after stops, failed launches and a crash: its chart never *)
(* ends before the present.                                                 *)
RunningSessionIsOpen ==
    \A s \in Sessions :
        Quiescent(s) /\ Exists(s) /\ ShownStatus(s) = "running" =>
            EventsForDisplay(db[s], ShownStatus(s)) \in {"open", "reopened"}

============================================================================
