------------------------ MODULE SignalManagerProofs ------------------------
(***************************************************************************)
(* Proofs about SignalManager for any number of sessions, requests and     *)
(* launches: RegistryInv is inductive, so the registry of live and         *)
(* starting bots is what StopSession takes it to be.                       *)
(***************************************************************************)
EXTENDS SignalManager, TLAPS

LEMMA AnySessionType == AnySession \in Sessions
  BY ManagerAssumption DEF AnySession

LEMMA UnbornType == Unborn \in SessionRow
  BY DEF Unborn, SessionRow, Statuses, Logs

LEMMA NewRowType == \A a \in BOOLEAN : NewRow(a) \in SessionRow
  BY DEF NewRow, SessionRow, Statuses, Logs

(* The database operations keep the rows well formed.                       *)
LEMMA UpdateSessionType ==
  ASSUME NEW s \in Sessions, NEW row \in SessionRow, NEW status \in Statuses,
         db \in [Sessions -> SessionRow], UpdateSession(s, row, status)
  PROVE  db' \in [Sessions -> SessionRow]
<1>1. db[s].log \in Logs /\ row.log \in Logs /\ row.alerts \in BOOLEAN
  BY DEF SessionRow
<1>2. Merged(row.log, db[s].log) \in Logs
  BY <1>1 DEF Merged, Logs, HasStop
<1>3. [status |-> status, alerts |-> row.alerts, log |-> Merged(row.log, db[s].log),
       saved |-> TRUE] \in SessionRow
  BY <1>1, <1>2 DEF SessionRow
<1> QED BY <1>3 DEF UpdateSession

LEMMA CreateSessionEventType ==
  ASSUME NEW s \in Sessions, NEW type,
         db \in [Sessions -> SessionRow], CreateSessionEvent(s, type)
  PROVE  /\ db' \in [Sessions -> SessionRow]
         /\ db'[s].status = db[s].status
         /\ type # "STOP" => db'[s].log = Opened(db[s].log)
         /\ \A r \in Sessions \ {s} : db'[r] = db[r]
<1> DEFINE log == IF type = "STOP" THEN "closed" ELSE Opened(db[s].log)
           saved == IF type = "STOP" THEN db[s].saved ELSE FALSE
           row == [db[s] EXCEPT !.log = log, !.saved = saved]
<1>1. db[s] \in SessionRow /\ log \in Logs /\ saved \in BOOLEAN
  BY DEF SessionRow, Opened, Logs
<1>2. row \in SessionRow /\ row.status = db[s].status /\ row.log = log
  BY <1>1 DEF SessionRow
<1>3. db' = [db EXCEPT ![s] = row]
  BY DEF CreateSessionEvent
<1> HIDE DEF row
<1>4. db' \in [Sessions -> SessionRow] /\ db'[s] = row /\ \A r \in Sessions \ {s} : db'[r] = db[r]
  BY <1>2, <1>3
<1> QED BY <1>2, <1>4

LEMMA RecordSessionEventType ==
  ASSUME NEW s \in Sessions, NEW type,
         db \in [Sessions -> SessionRow], RecordSessionEvent(s, type)
  PROVE  db' \in [Sessions -> SessionRow]
  BY CreateSessionEventType DEF RecordSessionEvent

(* What a reader keeps of a row is one, with the same status and log.       *)
LEMMA CopyType ==
  ASSUME NEW s \in Sessions, db \in [Sessions -> SessionRow]
  PROVE  /\ Copy(s) \in SessionRow
         /\ Copy(s).status = db[s].status /\ Copy(s).log = db[s].log
         /\ Copy(s).alerts = db[s].alerts
         /\ \A a \in BOOLEAN : /\ [Copy(s) EXCEPT !.alerts = a] \in SessionRow
                               /\ [Copy(s) EXCEPT !.alerts = a].status = db[s].status
                               /\ [Copy(s) EXCEPT !.alerts = a].log = db[s].log
  BY DEF Copy, SessionRow

(* So do the steps that enter or leave a request.                           *)
LEMMA EnterType ==
  ASSUME ReqTypeOK, NEW h \in Handlers, NEW o \in Ops, NEW s \in Sessions,
         NEW t \in Launches \cup {NoLaunch}, NEW row \in SessionRow,
         NEW f \in BOOLEAN, NEW next \in PCs, Enter(h, o, s, t, row, f, next)
  PROVE  ReqTypeOK'
  BY DEF ReqTypeOK, Enter

LEMMA ReturnType ==
  ASSUME ReqTypeOK, NEW h \in Handlers, Return(h)
  PROVE  ReqTypeOK'
<1>1. "none" \in Ops /\ "idle" \in PCs
  BY DEF Ops, PCs
<1> QED BY <1>1, EnterType, AnySessionType, UnbornType DEF Return

LEMMA GotoType ==
  ASSUME ReqTypeOK, NEW h \in Handlers, NEW next \in PCs, Goto(h, next)
  PROVE  ReqTypeOK'
  BY DEF ReqTypeOK, Goto

LEMMA StoppedType ==
  ASSUME ReqTypeOK, NEW h \in Handlers, Stopped(h)
  PROVE  ReqTypeOK'
  BY ReturnType, GotoType DEF Stopped, PCs

LEMMA AfterWaitType ==
  ASSUME ReqTypeOK, NEW h \in Handlers, AfterWait(h)
  PROVE  ReqTypeOK'
<1>1. op[h] \in Ops /\ on[h] \in Sessions /\ "stopGet" \in PCs
  BY DEF ReqTypeOK, PCs
<1> QED BY <1>1, EnterType, UnbornType DEF AfterWait

(* The steps of StartSession and ResumeSession preserve the types.          *)
LEMMA LaunchingTypes ==
  ASSUME TypeOK, NEW h \in Handlers
  PROVE  /\ \A s \in Sessions, t \in Launches, a \in AlertValues : BeginStart(h, s, t, a) => TypeOK'
         /\ \A s \in Sessions, t \in Launches : BeginResume(h, s, t) => TypeOK'
         /\ StartEvent(h) => TypeOK'
         /\ ReserveBusy(h) => TypeOK'
         /\ Reserve(h) /\ ClaimsAreFresh => TypeOK'
         /\ ResumeSave(h) => TypeOK'
         /\ Unreserve(h) /\ ReservationHeld => TypeOK'
         /\ ResumeEvent(h) => TypeOK'
         /\ LaunchBot(h) /\ ReservationHeld => TypeOK'
         /\ LaunchCancelled(h) /\ ReservationHeld => TypeOK'
         /\ LaunchFails(h) /\ ReservationHeld => TypeOK'
         /\ MarkFailed(h) => TypeOK'
<1> USE DEF TypeOK
<1>h. on[h] \in Sessions /\ tok[h] \in Launches \cup {NoLaunch} /\ snap[h] \in SessionRow /\ op[h] \in Ops
  BY DEF ReqTypeOK
<1>1. ASSUME NEW s \in Sessions, NEW t \in Launches, NEW a \in AlertValues, BeginStart(h, s, t, a)
      PROVE  TypeOK'
  <2>1. NewRow(a) \in SessionRow /\ "start" \in Ops /\ "startEvent" \in PCs
    BY NewRowType, ManagerAssumption DEF Ops, PCs
  <2>2. ReqTypeOK'
    BY <1>1, <2>1, EnterType DEF BeginStart
  <2> QED BY <1>1, <2>1, <2>2 DEF BeginStart, Set, DBTypeOK, RegTypeOK, SysTypeOK, regVars, sysVars
<1>2. ASSUME NEW s \in Sessions, NEW t \in Launches, BeginResume(h, s, t)
      PROVE  TypeOK'
  <2>1. Copy(s) \in SessionRow /\ "resume" \in Ops /\ "reserve" \in PCs
    BY CopyType DEF DBTypeOK, Ops, PCs
  <2>2. ReqTypeOK'
    BY <1>2, <2>1, EnterType DEF BeginResume
  <2> QED BY <1>2, <2>2 DEF BeginResume, DBTypeOK, RegTypeOK, SysTypeOK, regVars, sysVars
<1>3. StartEvent(h) => TypeOK'
  BY <1>h, RecordSessionEventType, GotoType
     DEF StartEvent, DBTypeOK, RegTypeOK, SysTypeOK, regVars, sysVars, PCs
<1>4. ReserveBusy(h) => TypeOK'
  BY ReturnType DEF ReserveBusy, DBTypeOK, RegTypeOK, SysTypeOK, regVars, sysVars
<1>5. Reserve(h) /\ ClaimsAreFresh => TypeOK'
  <2> SUFFICES ASSUME Reserve(h), ClaimsAreFresh PROVE TypeOK'
    OBVIOUS
  <2>1. tok[h] \in Launches
    BY DEF Reserve, At, ClaimsAreFresh, ClaimingPCs
  <2>2. ReqTypeOK'
    BY GotoType DEF Reserve, PCs
  <2>3. RegTypeOK'
    BY <1>h, <2>1 DEF Reserve, Set, RegTypeOK, LaunchStates
  <2> QED BY <2>2, <2>3 DEF Reserve, DBTypeOK, SysTypeOK, sysVars
<1>6. ResumeSave(h) => TypeOK'
  <2>1. "running" \in Statuses /\ "resumeEvent" \in PCs /\ "unreserve" \in PCs
    BY DEF Statuses, PCs
  <2> QED BY <1>h, <2>1, UpdateSessionType, GotoType
          DEF ResumeSave, DBTypeOK, RegTypeOK, SysTypeOK, regVars, sysVars
<1>7. ResumeEvent(h) => TypeOK'
  BY <1>h, RecordSessionEventType, GotoType
     DEF ResumeEvent, DBTypeOK, RegTypeOK, SysTypeOK, regVars, sysVars, PCs
<1>8. ReservationHeld /\ (Unreserve(h) \/ LaunchBot(h) \/ LaunchCancelled(h) \/ LaunchFails(h)) => TypeOK'
  <2> SUFFICES ASSUME ReservationHeld,
                      Unreserve(h) \/ LaunchBot(h) \/ LaunchCancelled(h) \/ LaunchFails(h)
               PROVE  TypeOK'
    OBVIOUS
  <2>1. tok[h] \in Launches
    BY DEF Unreserve, LaunchBot, LaunchCancelled, LaunchFails, At, ReservationHeld, HoldingPCs
  <2>2. ReqTypeOK'
    BY ReturnType, GotoType DEF Unreserve, LaunchBot, LaunchCancelled, LaunchFails, PCs
  <2>3. RegTypeOK'
    BY <1>h, <2>1
       DEF Unreserve, LaunchBot, LaunchCancelled, LaunchFails, Set, RegTypeOK, LaunchStates
  <2> QED BY <2>2, <2>3
          DEF Unreserve, LaunchBot, LaunchCancelled, LaunchFails, DBTypeOK, SysTypeOK, sysVars
<1>9. MarkFailed(h) => TypeOK'
  <2>1. FailedStatus \in Statuses
    BY DEF FailedStatus, Statuses
  <2> QED BY <1>h, <2>1, UpdateSessionType, ReturnType
          DEF MarkFailed, DBTypeOK, RegTypeOK, SysTypeOK, regVars, sysVars
<1> QED BY <1>1, <1>2, <1>3, <1>4, <1>5, <1>6, <1>7, <1>8, <1>9

(* So do those of StopSession, DELETE and SetTelegramAlerts.                *)
LEMMA StoppingTypes ==
  ASSUME TypeOK, NEW h \in Handlers
  PROVE  /\ \A s \in Sessions, o \in {"stop", "delete"} : BeginStop(h, s, o) => TypeOK'
         /\ \A s \in Sessions, a \in AlertValues : BeginAlerts(h, s, a) => TypeOK'
         /\ BotDone(h) \/ StopTimeout(h) \/ StopGetFails(h) => TypeOK'
         /\ StopGet(h) => TypeOK'
         /\ StopSave(h) => TypeOK'
         /\ StopEvent(h) => TypeOK'
         /\ DeleteEvents(h) => TypeOK'
         /\ DeleteRow(h) => TypeOK'
         /\ AlertSave(h) => TypeOK'
<1> USE DEF TypeOK
<1>h. on[h] \in Sessions /\ tok[h] \in Launches \cup {NoLaunch} /\ snap[h] \in SessionRow
      /\ op[h] \in Ops /\ found[h] \in BOOLEAN
  BY DEF ReqTypeOK
<1>1. ASSUME NEW s \in Sessions, NEW o \in {"stop", "delete"}, BeginStop(h, s, o)
      PROVE  TypeOK'
  <2>1. o \in Ops /\ "stopGet" \in PCs /\ "wait" \in PCs
    BY DEF Ops, PCs
  <2>2. bots[s] \in Launches \cup {NoLaunch} /\ starting[s] \in Launches \cup {NoLaunch}
    BY DEF RegTypeOK
  <2>3. ReqTypeOK'
    BY <1>1, <2>1, <2>2, EnterType, UnbornType DEF BeginStop
  <2>4. RegTypeOK'
    BY <1>1, <2>2 DEF BeginStop, Set, RegTypeOK
  <2> QED BY <1>1, <2>3, <2>4 DEF BeginStop, DBTypeOK, SysTypeOK, sysVars
<1>2. ASSUME NEW s \in Sessions, NEW a \in AlertValues, BeginAlerts(h, s, a)
      PROVE  TypeOK'
  <2>1. [Copy(s) EXCEPT !.alerts = a] \in SessionRow
    BY CopyType, ManagerAssumption DEF DBTypeOK
  <2>2. "alerts" \in Ops /\ "alertSave" \in PCs
    BY DEF Ops, PCs
  <2>3. ReqTypeOK'
    BY <1>2, <2>1, <2>2, EnterType DEF BeginAlerts
  <2> QED BY <1>2, <2>3 DEF BeginAlerts, DBTypeOK, RegTypeOK, SysTypeOK, regVars, sysVars
<1>3. BotDone(h) \/ StopTimeout(h) \/ StopGetFails(h) => TypeOK'
  BY AfterWaitType, ReturnType
     DEF BotDone, StopTimeout, StopGetFails, DBTypeOK, RegTypeOK, SysTypeOK, regVars, sysVars
<1>4. StopGet(h) => TypeOK'
  <2>1. Copy(on[h]) \in SessionRow /\ "stopSave" \in PCs
    BY <1>h, CopyType DEF DBTypeOK, PCs
  <2>2. StopGet(h) => ReqTypeOK'
    BY <1>h, <2>1, StoppedType, EnterType DEF StopGet
  <2> QED BY <2>2 DEF StopGet, DBTypeOK, RegTypeOK, SysTypeOK, regVars, sysVars
<1>5. StopSave(h) => TypeOK'
  <2>1. "stopped" \in Statuses /\ "stopEvent" \in PCs
    BY DEF Statuses, PCs
  <2> QED BY <1>h, <2>1, UpdateSessionType, GotoType, ReturnType
          DEF StopSave, DBTypeOK, RegTypeOK, SysTypeOK, regVars, sysVars
<1>6. StopEvent(h) => TypeOK'
  BY <1>h, RecordSessionEventType, StoppedType
     DEF StopEvent, DBTypeOK, RegTypeOK, SysTypeOK, regVars, sysVars
<1>7. DeleteEvents(h) => TypeOK'
  <2>1. DeleteEvents(h) => DBTypeOK'
    BY <1>h DEF DeleteEvents, DBTypeOK, SessionRow, Logs
  <2> QED BY <2>1, GotoType, ReturnType
          DEF DeleteEvents, RegTypeOK, SysTypeOK, regVars, sysVars, PCs
<1>8. DeleteRow(h) => TypeOK'
  <2>1. DeleteRow(h) => DBTypeOK'
    BY <1>h DEF DeleteRow, DBTypeOK, SessionRow, Statuses
  <2> QED BY <2>1, ReturnType DEF DeleteRow, RegTypeOK, SysTypeOK, regVars, sysVars
<1>9. AlertSave(h) => TypeOK'
  <2>1. snap[h].status \in Statuses
    BY <1>h DEF SessionRow
  <2> QED BY <1>h, <2>1, UpdateSessionType, ReturnType
          DEF AlertSave, DBTypeOK, RegTypeOK, SysTypeOK, regVars, sysVars
<1> QED BY <1>1, <1>2, <1>3, <1>4, <1>5, <1>6, <1>7, <1>8, <1>9

(* So do the goroutines of the bots.                                        *)
LEMMA BotTypes ==
  ASSUME TypeOK, NEW t \in Launches, BotReturns(t) \/ BotStep(t)
  PROVE  TypeOK'
<1> USE DEF TypeOK
<1>o. owner[t] \in Sessions /\ db[owner[t]] \in SessionRow /\ exitRow[t] \in SessionRow
  BY DEF RegTypeOK, DBTypeOK
<1>1. RegTypeOK'
  BY <1>o DEF BotReturns, BotStep, BotUnregister, BotDisowned, ExitRead, ExitSave, ExitEvent,
              Set, RegTypeOK, LaunchStates
<1>2. DBTypeOK'
  <2>1. CASE ExitRead(t)
    BY <1>o, <2>1, CopyType DEF ExitRead, Set, DBTypeOK
  <2>2. CASE ExitSave(t)
    BY <1>o, <2>2, UpdateSessionType, UnbornType DEF ExitSave, Set, DBTypeOK, Statuses
  <2>3. CASE ExitEvent(t)
    BY <1>o, <2>3, RecordSessionEventType DEF ExitEvent, DBTypeOK
  <2>4. CASE BotReturns(t) \/ BotUnregister(t) \/ BotDisowned(t)
    BY <2>4 DEF BotReturns, BotUnregister, BotDisowned, DBTypeOK
  <2> QED BY <2>1, <2>2, <2>3, <2>4 DEF BotStep
<1>3. ReqTypeOK' /\ SysTypeOK'
  BY DEF BotReturns, BotStep, BotUnregister, BotDisowned, ExitRead, ExitSave, ExitEvent,
         ReqTypeOK, SysTypeOK, reqVars, sysVars
<1> QED BY <1>1, <1>2, <1>3

(* So do a crash and the recovery after it.                                 *)
LEMMA RecoveryTypes ==
  ASSUME TypeOK, Crash \/ Recover
  PROVE  TypeOK'
<1> USE DEF TypeOK
<1>1. CASE Crash
  <2>1. ReqTypeOK'
    BY <1>1, AnySessionType, UnbornType DEF Crash, ReqTypeOK, Ops, PCs
  <2>2. RegTypeOK'
    BY <1>1, AnySessionType DEF Crash, RegTypeOK, LaunchStates
  <2> QED BY <1>1, <2>1, <2>2, UnbornType DEF Crash, DBTypeOK, SysTypeOK
<1>2. CASE Restart \/ Recovered
  BY <1>2 DEF Restart, Recovered, DBTypeOK, RegTypeOK, ReqTypeOK, SysTypeOK, regVars, reqVars
<1>3. ASSUME NEW s \in Sessions, RecoverSave(s) \/ RecoverEvent(s)
      PROVE  TypeOK'
  <2>1. db[s] \in SessionRow /\ "stopped" \in Statuses /\ db[s].saved \in BOOLEAN
    BY DEF DBTypeOK, Statuses, SessionRow
  <2>2. DBTypeOK'
    <3>1. CASE RecoverSave(s)
      BY <2>1, <3>1, UpdateSessionType DEF RecoverSave, DBTypeOK
    <3>2. CASE RecoverEvent(s)
      <4>1. \A l \in Logs : [db[s] EXCEPT !.log = l] \in SessionRow
        BY <2>1 DEF SessionRow
      <4> QED BY <3>2, <4>1 DEF RecoverEvent, DBTypeOK, Logs
    <3> QED BY <1>3, <3>1, <3>2
  <2>3. SysTypeOK'
    BY <1>3, <2>1 DEF RecoverSave, RecoverEvent, SysTypeOK
  <2> QED BY <1>3, <2>2, <2>3 DEF RecoverSave, RecoverEvent, RegTypeOK, ReqTypeOK, regVars, reqVars
<1> QED BY <1>1, <1>2, <1>3 DEF Recover

-----------------------------------------------------------------------------
(* A step that leaves the registry alone, and in which a request holds or   *)
(* has drawn a launch only if it did before, preserves the invariant.       *)
LEMMA QuietStep ==
  ASSUME RegistryInv, TypeOK', UNCHANGED regVars,
         \A g \in Handlers :
            /\ pc'[g] \in HoldingPCs =>
                 pc[g] \in HoldingPCs /\ tok'[g] = tok[g] /\ on'[g] = on[g]
            /\ pc'[g] \in ClaimingPCs => pc[g] \in ClaimingPCs /\ tok'[g] = tok[g]
  PROVE  RegistryInv'
<1> USE DEF RegistryInv, regVars
<1>1. RegistryExclusive' /\ NoOrphanBot' /\ RegisteredBotIsWanted' /\ StartingIsReserved'
  BY DEF RegistryExclusive, NoOrphanBot, RegisteredBotIsWanted, StartingIsReserved
<1>2. ReservationHeld'
  BY DEF ReservationHeld
<1>3. ClaimsAreFresh'
  BY DEF ClaimsAreFresh
<1>4. ClaimsDiffer'
  BY DEF ClaimsDiffer
<1> QED BY <1>1, <1>2, <1>3, <1>4

(* What Return, Goto and the like do to the control state of a request.     *)
LEMMA ReturnControl ==
  ASSUME ReqTypeOK, NEW h \in Handlers, Return(h)
  PROVE  /\ pc'[h] = "idle"
         /\ \A g \in Handlers \ {h} : pc'[g] = pc[g] /\ tok'[g] = tok[g] /\ on'[g] = on[g]
  BY DEF Return, Enter, ReqTypeOK

LEMMA GotoControl ==
  ASSUME ReqTypeOK, NEW h \in Handlers, NEW next, Goto(h, next)
  PROVE  /\ pc'[h] = next
         /\ tok' = tok /\ on' = on
         /\ \A g \in Handlers \ {h} : pc'[g] = pc[g]
  BY DEF Goto, ReqTypeOK

(* The steps of a request that do not touch the registry.                   *)
LEMMA QuietRequest ==
  ASSUME RegistryInv, TypeOK', NEW h \in Handlers,
         \/ StartEvent(h) \/ ReserveBusy(h) \/ ResumeSave(h) \/ ResumeEvent(h)
         \/ MarkFailed(h) \/ BotDone(h) \/ StopTimeout(h) \/ StopGetFails(h) \/ StopGet(h)
         \/ StopSave(h) \/ StopEvent(h) \/ DeleteEvents(h) \/ DeleteRow(h) \/ AlertSave(h)
  PROVE  RegistryInv'
<1>t. ReqTypeOK
  BY DEF RegistryInv, TypeOK
<1>r. UNCHANGED regVars
  BY DEF StartEvent, ReserveBusy, ResumeSave, ResumeEvent, MarkFailed, BotDone, StopTimeout,
         StopGetFails, StopGet, StopSave, StopEvent, DeleteEvents, DeleteRow, AlertSave
<1>1. CASE StartEvent(h)
  BY <1>t, <1>r, <1>1, GotoControl, QuietStep DEF StartEvent, At, HoldingPCs, ClaimingPCs
<1>2. CASE ResumeSave(h) \/ ResumeEvent(h)
  <2>1. /\ pc[h] \in HoldingPCs
        /\ Goto(h, "resumeEvent") \/ Goto(h, "unreserve") \/ Goto(h, "build")
    BY <1>2 DEF ResumeSave, ResumeEvent, At, HoldingPCs
  <2> QED BY <1>t, <1>r, <2>1, GotoControl, QuietStep DEF HoldingPCs, ClaimingPCs
<1>3. CASE ReserveBusy(h) \/ MarkFailed(h) \/ StopGetFails(h) \/ DeleteRow(h) \/ AlertSave(h)
  <2>1. Return(h)
    BY <1>3 DEF ReserveBusy, MarkFailed, StopGetFails, DeleteRow, AlertSave
  <2> QED BY <1>t, <1>r, <2>1, ReturnControl, QuietStep DEF HoldingPCs, ClaimingPCs
<1>4. CASE BotDone(h) \/ StopTimeout(h) \/ StopGet(h) \/ StopSave(h) \/ StopEvent(h) \/ DeleteEvents(h)
  <2>1. \/ Return(h)
        \/ Goto(h, "deleteEvents") \/ Goto(h, "stopEvent") \/ Goto(h, "deleteRow")
        \/ AfterWait(h)
        \/ Enter(h, op[h], on[h], NoLaunch, Copy(on[h]), found[h], "stopSave")
    BY <1>4 DEF BotDone, StopTimeout, StopGet, StopSave, StopEvent, DeleteEvents, Stopped
  <2>2. /\ pc'[h] \in {"idle", "deleteEvents", "stopEvent", "deleteRow", "stopGet", "stopSave"}
        /\ \A g \in Handlers \ {h} : pc'[g] = pc[g] /\ tok'[g] = tok[g] /\ on'[g] = on[g]
    BY <1>t, <2>1, ReturnControl, GotoControl DEF AfterWait, Enter, ReqTypeOK
  <2> QED BY <1>r, <2>2, QuietStep DEF HoldingPCs, ClaimingPCs
<1> QED BY <1>1, <1>2, <1>3, <1>4

(* A request that begins: one that will launch draws a launch of its own.   *)
LEMMA BeginStep ==
  ASSUME RegistryInv, TypeOK', NEW h \in Handlers, NEW s \in Sessions,
         \/ \E t \in Launches, a \in AlertValues : BeginStart(h, s, t, a)
         \/ \E t \in Launches : BeginResume(h, s, t)
         \/ \E a \in AlertValues : BeginAlerts(h, s, a)
  PROVE  RegistryInv'
<1>t. ReqTypeOK
  BY DEF RegistryInv, TypeOK
<1>1. ASSUME NEW a \in AlertValues, BeginAlerts(h, s, a)
      PROVE  RegistryInv'
  <2>1. /\ pc'[h] = "alertSave" /\ UNCHANGED regVars
        /\ \A g \in Handlers \ {h} : pc'[g] = pc[g] /\ tok'[g] = tok[g] /\ on'[g] = on[g]
    BY <1>t, <1>1 DEF BeginAlerts, Enter, ReqTypeOK
  <2> QED BY <2>1, QuietStep DEF HoldingPCs, ClaimingPCs
<1>2. ASSUME NEW t \in Launches, Free(t), UNCHANGED regVars,
             pc'[h] \in ClaimingPCs, tok'[h] = t,
             \A g \in Handlers \ {h} : pc'[g] = pc[g] /\ tok'[g] = tok[g] /\ on'[g] = on[g]
      PROVE  RegistryInv'
  <2> USE <1>2 DEF RegistryInv, regVars
  <2>1. RegistryExclusive' /\ NoOrphanBot' /\ RegisteredBotIsWanted' /\ StartingIsReserved'
    BY DEF RegistryExclusive, NoOrphanBot, RegisteredBotIsWanted, StartingIsReserved
  <2>2. ReservationHeld'
    BY DEF ReservationHeld, HoldingPCs, ClaimingPCs
  <2>3. ClaimsAreFresh'
    BY DEF ClaimsAreFresh, Free
  <2>4. ClaimsDiffer'
    BY DEF ClaimsDiffer, Free
  <2> QED BY <2>1, <2>2, <2>3, <2>4
<1>3. ASSUME NEW t \in Launches, NEW a \in AlertValues, BeginStart(h, s, t, a)
      PROVE  RegistryInv'
  <2>1. /\ Free(t) /\ UNCHANGED regVars /\ pc'[h] \in ClaimingPCs /\ tok'[h] = t
        /\ \A g \in Handlers \ {h} : pc'[g] = pc[g] /\ tok'[g] = tok[g] /\ on'[g] = on[g]
    BY <1>t, <1>3 DEF BeginStart, Enter, ReqTypeOK, ClaimingPCs
  <2> QED BY <1>2, <2>1
<1>4. ASSUME NEW t \in Launches, BeginResume(h, s, t)
      PROVE  RegistryInv'
  <2>1. /\ Free(t) /\ UNCHANGED regVars /\ pc'[h] \in ClaimingPCs /\ tok'[h] = t
        /\ \A g \in Handlers \ {h} : pc'[g] = pc[g] /\ tok'[g] = tok[g] /\ on'[g] = on[g]
    BY <1>t, <1>4 DEF BeginResume, Enter, ReqTypeOK, ClaimingPCs
  <2> QED BY <1>2, <2>1
<1> QED BY <1>1, <1>3, <1>4

-----------------------------------------------------------------------------
(* The critical sections that change the registry, one lemma each.          *)
LEMMA ReserveStep ==
  ASSUME RegistryInv, TypeOK', NEW h \in Handlers, Reserve(h)
  PROVE  RegistryInv'
<1> USE DEF RegistryInv
<1>1. /\ tok[h] \in Launches /\ launch[tok[h]] = "gone"
      /\ bots[on[h]] = NoLaunch /\ starting[on[h]] = NoLaunch
      /\ on[h] \in Sessions
  BY DEF Reserve, At, Busy, ClaimsAreFresh, ClaimingPCs, TypeOK, ReqTypeOK
<1>2. /\ starting' = [starting EXCEPT ![on[h]] = tok[h]]
      /\ launch' = [launch EXCEPT ![tok[h]] = "reserved"]
      /\ owner' = [owner EXCEPT ![tok[h]] = on[h]]
      /\ cancelled' = cancelled \ {tok[h]} /\ bots' = bots
  BY DEF Reserve, Set
<1>3. /\ pc'[h] \in HoldingPCs /\ pc[h] \in ClaimingPCs /\ tok' = tok /\ on' = on
      /\ \A g \in Handlers \ {h} : pc'[g] = pc[g]
  BY GotoControl DEF Reserve, At, HoldingPCs, ClaimingPCs, TypeOK
<1>4. RegistryExclusive' /\ StartingIsReserved'
  BY <1>1, <1>2 DEF RegistryExclusive, StartingIsReserved, TypeOK, RegTypeOK
<1>5. NoOrphanBot' /\ RegisteredBotIsWanted'
  BY <1>1, <1>2 DEF NoOrphanBot, RegisteredBotIsWanted, TypeOK, RegTypeOK
<1>6. \A g \in Handlers \ {h} : pc[g] \in HoldingPCs \cup ClaimingPCs => tok[g] # tok[h]
  BY <1>3 DEF ClaimsDiffer
<1>7. ReservationHeld'
  <2> SUFFICES ASSUME NEW g \in Handlers, pc'[g] \in HoldingPCs
               PROVE  /\ tok'[g] \in Launches /\ launch'[tok'[g]] = "reserved"
                      /\ owner'[tok'[g]] = on'[g] /\ starting'[on'[g]] = tok'[g]
    BY DEF ReservationHeld
  <2>1. CASE g = h
    BY <1>1, <1>2, <1>3, <2>1 DEF TypeOK, RegTypeOK
  <2>2. CASE g # h
    <3>1. /\ tok[g] \in Launches /\ launch[tok[g]] = "reserved" /\ owner[tok[g]] = on[g]
          /\ starting[on[g]] = tok[g]
      BY <1>3, <2>2 DEF ReservationHeld
    <3>2. on[g] # on[h]
      BY <1>1, <3>1, ManagerAssumption
    <3>3. on[g] \in Sessions /\ tok[g] # tok[h]
      BY <1>3, <1>6, <2>2 DEF TypeOK, ReqTypeOK
    <3> QED BY <1>1, <1>2, <1>3, <3>1, <3>2, <3>3 DEF TypeOK, RegTypeOK
  <2> QED BY <2>1, <2>2
<1>8. ClaimsAreFresh'
  BY <1>1, <1>2, <1>3, <1>6 DEF ClaimsAreFresh, TypeOK, RegTypeOK, HoldingPCs, ClaimingPCs
<1>9. ClaimsDiffer'
  BY <1>3 DEF ClaimsDiffer
<1> QED BY <1>4, <1>5, <1>7, <1>8, <1>9

(* The end of a reservation: registered, cancelled, failed or taken back.   *)
LEMMA LaunchStep ==
  ASSUME RegistryInv, TypeOK', NEW h \in Handlers,
         Unreserve(h) \/ LaunchBot(h) \/ LaunchCancelled(h) \/ LaunchFails(h)
  PROVE  RegistryInv'
<1> USE DEF RegistryInv
<1>1. /\ pc[h] \in HoldingPCs
      /\ tok[h] \in Launches /\ launch[tok[h]] = "reserved" /\ owner[tok[h]] = on[h]
      /\ starting[on[h]] = tok[h] /\ on[h] \in Sessions /\ tok[h] # NoLaunch
  BY ManagerAssumption
     DEF Unreserve, LaunchBot, LaunchCancelled, LaunchFails, At, HoldingPCs, ReservationHeld,
         TypeOK, ReqTypeOK
<1>2. /\ starting' = [starting EXCEPT ![on[h]] = NoLaunch] /\ owner' = owner
      /\ \/ /\ launch' = [launch EXCEPT ![tok[h]] = "live"]
            /\ bots' = [bots EXCEPT ![on[h]] = tok[h]]
            /\ tok[h] \notin cancelled /\ cancelled' = cancelled
         \/ /\ launch' = [launch EXCEPT ![tok[h]] = "gone"]
            /\ bots' = bots
            /\ cancelled' = cancelled \/ cancelled' = cancelled \cup {tok[h]}
  BY DEF Unreserve, LaunchBot, LaunchCancelled, LaunchFails, Set, MayRegister
<1>3. /\ pc'[h] \in {"idle", "markFailed"}
      /\ \A g \in Handlers \ {h} : pc'[g] = pc[g] /\ tok'[g] = tok[g] /\ on'[g] = on[g]
  BY ReturnControl, GotoControl DEF Unreserve, LaunchBot, LaunchCancelled, LaunchFails, TypeOK
<1>4. \A g \in Handlers \ {h} : pc[g] \in HoldingPCs \cup ClaimingPCs => tok[g] # tok[h]
  BY <1>1 DEF ClaimsDiffer
<1>5. RegistryExclusive' /\ StartingIsReserved'
  BY <1>1, <1>2 DEF RegistryExclusive, StartingIsReserved, TypeOK, RegTypeOK
<1>6. bots[on[h]] = NoLaunch
  BY <1>1 DEF RegistryExclusive
<1>7. NoOrphanBot'
  BY <1>1, <1>2, <1>6, ManagerAssumption DEF NoOrphanBot, TypeOK, RegTypeOK
<1>8. RegisteredBotIsWanted'
  BY <1>1, <1>2 DEF RegisteredBotIsWanted, TypeOK, RegTypeOK
<1>9. \A g \in Handlers \ {h} : pc[g] \in HoldingPCs => on[g] # on[h]
  BY <1>1, <1>4 DEF ReservationHeld
<1>10. ReservationHeld'
  BY <1>2, <1>3, <1>4, <1>9 DEF ReservationHeld, TypeOK, RegTypeOK, ReqTypeOK, HoldingPCs
<1>11. ClaimsAreFresh'
  BY <1>2, <1>3, <1>4 DEF ClaimsAreFresh, TypeOK, RegTypeOK, ClaimingPCs
<1>12. ClaimsDiffer'
  BY <1>3 DEF ClaimsDiffer, HoldingPCs, ClaimingPCs
<1> QED BY <1>5, <1>7, <1>8, <1>10, <1>11, <1>12

LEMMA BeginStopStep ==
  ASSUME RegistryInv, TypeOK', NEW h \in Handlers, NEW s \in Sessions,
         NEW o \in {"stop", "delete"}, BeginStop(h, s, o)
  PROVE  RegistryInv'
<1> USE DEF RegistryInv
<1>1. /\ bots' = [bots EXCEPT ![s] = NoLaunch]
      /\ cancelled' = cancelled \cup ({bots[s], starting[s]} \ {NoLaunch})
      /\ starting' = starting /\ launch' = launch /\ owner' = owner
  BY DEF BeginStop, Set
<1>2. /\ pc'[h] \in {"wait", "stopGet"}
      /\ \A g \in Handlers \ {h} : pc'[g] = pc[g] /\ tok'[g] = tok[g] /\ on'[g] = on[g]
  BY DEF BeginStop, Enter, TypeOK, ReqTypeOK
<1>3. RegistryExclusive' /\ StartingIsReserved'
  BY <1>1 DEF RegistryExclusive, StartingIsReserved, TypeOK, RegTypeOK
<1>4. NoOrphanBot'
  BY <1>1, ManagerAssumption DEF NoOrphanBot, TypeOK, RegTypeOK
<1>5. RegisteredBotIsWanted'
  <2> SUFFICES ASSUME NEW r \in Sessions, bots'[r] # NoLaunch
               PROVE  /\ bots'[r] \notin cancelled' /\ launch'[bots'[r]] \in {"live", "returned"}
                      /\ owner'[bots'[r]] = r
    BY DEF RegisteredBotIsWanted
  <2>1. r # s /\ bots'[r] = bots[r] /\ bots[r] # NoLaunch
    BY <1>1 DEF TypeOK, RegTypeOK
  <2>2. bots[r] \notin cancelled /\ launch[bots[r]] \in {"live", "returned"} /\ owner[bots[r]] = r
    BY <2>1 DEF RegisteredBotIsWanted
  <2>3. bots[r] # bots[s]
    BY <2>1, <2>2 DEF RegisteredBotIsWanted
  <2>4. bots[r] # starting[s]
    BY <2>1, <2>2 DEF StartingIsReserved
  <2> QED BY <1>1, <2>1, <2>2, <2>3, <2>4
<1>6. ReservationHeld' /\ ClaimsAreFresh' /\ ClaimsDiffer'
  BY <1>1, <1>2 DEF ReservationHeld, ClaimsAreFresh, ClaimsDiffer, HoldingPCs, ClaimingPCs
<1> QED BY <1>3, <1>4, <1>5, <1>6

LEMMA BotStepStep ==
  ASSUME RegistryInv, TypeOK', NEW t \in Launches, BotReturns(t) \/ BotStep(t)
  PROVE  RegistryInv'
<1> USE DEF RegistryInv
<1>1. /\ starting' = starting /\ owner' = owner /\ UNCHANGED reqVars
      /\ launch[t] \notin {"gone", "reserved"}
      /\ \E x \in LaunchStates \ {"live", "reserved"} : launch' = [launch EXCEPT ![t] = x]
  BY DEF BotReturns, BotStep, BotUnregister, BotDisowned, ExitRead, ExitSave, ExitEvent, Set,
         LaunchStates
<1>2. \/ bots' = bots /\ cancelled' = cancelled
      \/ /\ bots' = [bots EXCEPT ![owner[t]] = NoLaunch] /\ cancelled' = cancelled \cup {t}
         /\ bots[owner[t]] = t
  BY DEF BotReturns, BotStep, BotUnregister, BotDisowned, ExitRead, ExitSave, ExitEvent, Set,
         Owned
<1>3. RegistryExclusive' /\ StartingIsReserved'
  BY <1>1, <1>2 DEF RegistryExclusive, StartingIsReserved, TypeOK, RegTypeOK
<1>4. NoOrphanBot'
  BY <1>1, <1>2 DEF NoOrphanBot, TypeOK, RegTypeOK
<1>5. RegisteredBotIsWanted'
  <2> SUFFICES ASSUME NEW s \in Sessions, bots'[s] # NoLaunch
               PROVE  /\ bots'[s] \notin cancelled' /\ launch'[bots'[s]] \in {"live", "returned"}
                      /\ owner'[bots'[s]] = s
    BY DEF RegisteredBotIsWanted
  <2>1. bots'[s] = bots[s]
    BY <1>2 DEF TypeOK, RegTypeOK
  <2>2. bots[s] \notin cancelled /\ launch[bots[s]] \in {"live", "returned"} /\ owner[bots[s]] = s
    BY <2>1 DEF RegisteredBotIsWanted
  <2>3. CASE bots[s] # t
    BY <1>1, <1>2, <2>1, <2>2, <2>3 DEF TypeOK, RegTypeOK
  <2>4. CASE bots[s] = t
    <3>1. BotReturns(t)
      BY <1>2, <2>1, <2>2, <2>4
         DEF BotStep, BotUnregister, BotDisowned, Owned, ExitRead, ExitSave, ExitEvent, Set,
             TypeOK, RegTypeOK
    <3> QED BY <2>1, <2>2, <2>4, <3>1 DEF BotReturns, Set, TypeOK, RegTypeOK
  <2> QED BY <2>3, <2>4
<1>6. ReservationHeld' /\ ClaimsAreFresh' /\ ClaimsDiffer'
  BY <1>1 DEF ReservationHeld, ClaimsAreFresh, ClaimsDiffer, reqVars, TypeOK, RegTypeOK
<1> QED BY <1>3, <1>4, <1>5, <1>6

LEMMA RecoveryStep ==
  ASSUME RegistryInv, TypeOK', Crash \/ Recover
  PROVE  RegistryInv'
<1> USE DEF RegistryInv
<1>1. CASE Crash
  BY <1>1 DEF Crash, RegistryExclusive, NoOrphanBot, RegisteredBotIsWanted, ReservationHeld,
              StartingIsReserved, ClaimsAreFresh, ClaimsDiffer, HoldingPCs, ClaimingPCs
<1>2. CASE Recover
  <2>1. UNCHANGED regVars /\ UNCHANGED reqVars
    BY <1>2 DEF Recover, Restart, Recovered, RecoverSave, RecoverEvent
  <2> QED BY <2>1, QuietStep DEF reqVars
<1> QED BY <1>1, <1>2

-----------------------------------------------------------------------------
LEMMA InitInv == Init => RegistryInv
<1> SUFFICES ASSUME Init PROVE RegistryInv
  OBVIOUS
<1>1. DBTypeOK
  BY UnbornType DEF Init, DBTypeOK
<1>2. RegTypeOK /\ SysTypeOK
  BY AnySessionType DEF Init, RegTypeOK, SysTypeOK, LaunchStates
<1>3. ReqTypeOK
  BY AnySessionType, UnbornType DEF Init, ReqTypeOK, Ops, PCs
<1>4. /\ RegistryExclusive /\ NoOrphanBot /\ RegisteredBotIsWanted
      /\ ReservationHeld /\ StartingIsReserved /\ ClaimsAreFresh /\ ClaimsDiffer
  BY DEF Init, RegistryExclusive, NoOrphanBot, RegisteredBotIsWanted, ReservationHeld,
         StartingIsReserved, ClaimsAreFresh, ClaimsDiffer, HoldingPCs, ClaimingPCs
<1> QED BY <1>1, <1>2, <1>3, <1>4 DEF RegistryInv, TypeOK

LEMMA NextInv == RegistryInv /\ [Next]_vars => RegistryInv'
<1> SUFFICES ASSUME RegistryInv, [Next]_vars PROVE RegistryInv'
  OBVIOUS
<1>t. TypeOK /\ ClaimsAreFresh /\ ReservationHeld
  BY DEF RegistryInv
<1>1. ASSUME NEW h \in Handlers, Begin(h)
      PROVE  RegistryInv'
  <2>1. PICK s \in Sessions :
           \/ \E t \in Launches, a \in AlertValues : BeginStart(h, s, t, a)
           \/ \E t \in Launches : BeginResume(h, s, t)
           \/ \E o \in {"stop", "delete"} : BeginStop(h, s, o)
           \/ \E a \in AlertValues : BeginAlerts(h, s, a)
    BY <1>1 DEF Begin
  <2>2. TypeOK'
    BY <1>t, <2>1, LaunchingTypes, StoppingTypes
  <2> QED BY <2>1, <2>2, BeginStep, BeginStopStep
<1>2. ASSUME NEW h \in Handlers, RequestStep(h)
      PROVE  RegistryInv'
  <2>1. TypeOK'
    BY <1>t, <1>2, LaunchingTypes, StoppingTypes DEF RequestStep
  <2> QED BY <1>2, <2>1, QuietRequest, ReserveStep, LaunchStep DEF RequestStep
<1>3. ASSUME NEW t \in Launches, BotReturns(t) \/ BotStep(t)
      PROVE  RegistryInv'
  BY <1>t, <1>3, BotTypes, BotStepStep
<1>4. CASE Crash \/ Recover
  BY <1>t, <1>4, RecoveryTypes, RecoveryStep
<1>5. CASE UNCHANGED vars
  <2>1. UNCHANGED regVars /\ UNCHANGED reqVars /\ TypeOK'
    BY <1>t, <1>5
       DEF vars, regVars, reqVars, sysVars, TypeOK, DBTypeOK, RegTypeOK, ReqTypeOK, SysTypeOK
  <2> QED BY <2>1, QuietStep DEF reqVars
<1> QED BY <1>1, <1>2, <1>3, <1>4, <1>5 DEF Next

(* The registry of the signal manager stays consistent, whatever requests,  *)
(* bots, database failures and crashes do.                                  *)
THEOREM RegistryCorrect == Spec => []RegistryInv
  BY InitInv, NextInv, PTL DEF Spec

(* Every variable keeps its type.                                           *)
THEOREM TypeCorrect == Spec => []TypeOK
<1>1. RegistryInv => TypeOK
  BY DEF RegistryInv
<1> QED BY <1>1, RegistryCorrect, PTL

(* A session is never registered and starting at the same time.             *)
THEOREM ExclusiveCorrect == Spec => []RegistryExclusive
<1>1. RegistryInv => RegistryExclusive
  BY DEF RegistryInv
<1> QED BY <1>1, RegistryCorrect, PTL

(* Every bot that trades without being cancelled is in m.bots under its     *)
(* session, so StopSession reaches it.                                      *)
THEOREM NoOrphanCorrect == Spec => []NoOrphanBot
<1>1. RegistryInv => NoOrphanBot
  BY DEF RegistryInv
<1> QED BY <1>1, RegistryCorrect, PTL

(* A registered bot is live or has just returned, and nobody cancelled it.  *)
THEOREM WantedCorrect == Spec => []RegisteredBotIsWanted
<1>1. RegistryInv => RegisteredBotIsWanted
  BY DEF RegistryInv
<1> QED BY <1>1, RegistryCorrect, PTL

-----------------------------------------------------------------------------
(* One request at a time, bots that end only when they are told to, and     *)
(* writes that do not fail; crashes may come at any time.  Without these    *)
(* the row and the registry do part.                                        *)
OneAtATime == (\A g, h \in Handlers : g = h) /\ ~SelfExit /\ ~DBFaults

(* The row of a session agrees with the registry.                           *)
InStep(s) ==
    /\ db[s].status = "running" <=> bots[s] # NoLaunch
    /\ db[s].status = "running" => db[s].log \in {"open", "reopened"}

(* So does that of every session that no request works on.                  *)
SettledInStep ==
    phase = "up" =>
        \A s \in Sessions : (\A h \in Handlers : pc[h] = "idle" \/ on[h] # s) => InStep(s)

(* What the request that works on a session has made of it so far.          *)
AsidePCs == PCs \ {"idle", "reserve", "unreserve", "alertSave"}

Doing(h) ==
    /\ pc[h] # "unreserve"
    /\ pc[h] \in AsidePCs => bots[on[h]] = NoLaunch
    /\ pc[h] \in {"startEvent", "resumeEvent", "build"} => db[on[h]].status = "running"
    /\ pc[h] = "build" => db[on[h]].log \in {"open", "reopened"}
    /\ pc[h] = "startEvent" => op[h] = "start"
    /\ pc[h] = "reserve" =>
          \/ op[h] = "resume" /\ InStep(on[h])
          \/ /\ op[h] = "start" /\ bots[on[h]] = NoLaunch
             /\ db[on[h]].status = "running" /\ db[on[h]].log \in {"open", "reopened"}
    /\ pc[h] = "alertSave" =>
          InStep(on[h]) /\ snap[h].status = db[on[h]].status /\ snap[h].log = db[on[h]].log
    /\ pc[h] \in {"wait", "stopGet"} /\ db[on[h]].status = "running" => found[h]
    /\ pc[h] \in {"stopEvent", "deleteEvents", "deleteRow"} => db[on[h]].status # "running"

UnderWay == \A h \in Handlers : Doing(h)

(* Reservations belong to requests, and nobody has cancelled them.          *)
StartingIsHeld ==
    \A s \in Sessions : starting[s] # NoLaunch =>
        starting[s] \notin cancelled /\ \E h \in Handlers : pc[h] \in HoldingPCs /\ on[h] = s

(* Bots have returned because they were cancelled, so run() has no row to   *)
(* write.                                                                   *)
BotsAreTold ==
    \A t \in Launches :
        /\ launch[t] \in {"gone", "reserved", "live", "returned"}
        /\ launch[t] = "returned" => t \in cancelled

(* While the process is down or recovering there are no bots and requests,  *)
(* and recovery leaves no row that says running.                            *)
NothingRuns ==
    phase # "up" =>
        /\ \A h \in Handlers : pc[h] = "idle"
        /\ \A s \in Sessions : bots[s] = NoLaunch
        /\ phase = "recovering" => \A s \in Sessions \ todo : db[s].status # "running"

SequentialInv ==
    /\ RegistryInv
    /\ SettledInStep /\ UnderWay /\ StartingIsHeld /\ BotsAreTold /\ NothingRuns


(* The database operations when no write fails.                             *)
LEMMA RowUpdated ==
  ASSUME db \in [Sessions -> SessionRow], NEW s \in Sessions, NEW row, NEW status,
         UpdateSession(s, row, status)
  PROVE  /\ db'[s].status = status
         /\ row.log = db[s].log => db'[s].log = db[s].log
         /\ \A r \in Sessions \ {s} : db'[r] = db[r]
<1>1. db'[s] = [status |-> status, alerts |-> row.alerts, log |-> Merged(row.log, db[s].log),
                saved |-> TRUE]
      /\ \A r \in Sessions \ {s} : db'[r] = db[r]
  BY DEF UpdateSession
<1>2. Merged(db[s].log, db[s].log) = db[s].log
  BY DEF Merged, HasStop
<1> QED BY <1>1, <1>2

LEMMA EventRecorded ==
  ASSUME OneAtATime, db \in [Sessions -> SessionRow], NEW s \in Sessions, NEW type,
         RecordSessionEvent(s, type)
  PROVE  /\ db'[s].status = db[s].status
         /\ type # "STOP" => db'[s].log \in {"open", "reopened"}
         /\ \A r \in Sessions \ {s} : db'[r] = db[r]
<1>1. CreateSessionEvent(s, type)
  BY DEF RecordSessionEvent, OneAtATime
<1> QED BY <1>1, CreateSessionEventType DEF Opened

(* A step of the only request, on one session.                              *)
LEMMA RequestKeeps ==
  ASSUME OneAtATime, SequentialInv, RegistryInv', StartingIsHeld', BotsAreTold',
         NEW h \in Handlers, NEW s \in Sessions, phase = "up", phase' = "up",
         pc[h] = "idle" \/ on[h] = s,
         pc'[h] # "idle" => on'[h] = s,
         \A r \in Sessions \ {s} : db'[r] = db[r] /\ bots'[r] = bots[r],
         pc'[h] = "idle" => InStep(s)', Doing(h)'
  PROVE  SequentialInv'
<1>1. \A g \in Handlers : g = h
  BY DEF OneAtATime
<1>2. SettledInStep'
  <2> SUFFICES ASSUME NEW r \in Sessions, \A g \in Handlers : pc'[g] = "idle" \/ on'[g] # r
               PROVE  InStep(r)'
    BY DEF SettledInStep
  <2>1. CASE r = s
    BY <2>1
  <2>2. CASE r # s
    <3>1. InStep(r)
      BY <1>1, <2>2 DEF SequentialInv, SettledInStep
    <3> QED BY <2>2, <3>1 DEF InStep
  <2> QED BY <2>1, <2>2
<1>3. UnderWay'
  BY <1>1 DEF UnderWay
<1> QED BY <1>2, <1>3 DEF SequentialInv, NothingRuns

(* One that leaves the registry to whoever holds a reservation.             *)
LEMMA QuietKeeps ==
  ASSUME OneAtATime, SequentialInv, NEW h \in Handlers, UNCHANGED <<starting, launch, cancelled>>,
         pc[h] \in HoldingPCs => pc'[h] \in HoldingPCs /\ on'[h] = on[h]
  PROVE  StartingIsHeld' /\ BotsAreTold'
<1>1. \A g \in Handlers : g = h
  BY DEF OneAtATime
<1>2. StartingIsHeld'
  BY <1>1 DEF SequentialInv, StartingIsHeld
<1>3. BotsAreTold'
  BY DEF SequentialInv, BotsAreTold
<1> QED BY <1>2, <1>3

(* Who holds no reservation finds no start in progress.                     *)
LEMMA NobodyStarts ==
  ASSUME OneAtATime, SequentialInv, NEW h \in Handlers, pc[h] \notin HoldingPCs
  PROVE  \A s \in Sessions : starting[s] = NoLaunch
  BY DEF OneAtATime, SequentialInv, StartingIsHeld

(* What is known of a request and its session when it makes a step.         *)
LEMMA RequestKnows ==
  ASSUME SequentialInv, NEW h \in Handlers
  PROVE  /\ on[h] \in Sessions /\ db \in [Sessions -> SessionRow]
         /\ ReqTypeOK /\ RegTypeOK /\ Doing(h)
  BY DEF SequentialInv, RegistryInv, TypeOK, DBTypeOK, ReqTypeOK, UnderWay


LEMMA EnterControl ==
  ASSUME ReqTypeOK, NEW h \in Handlers, NEW o, NEW s, NEW t, NEW row, NEW f, NEW next,
         Enter(h, o, s, t, row, f, next)
  PROVE  /\ op'[h] = o /\ on'[h] = s /\ tok'[h] = t /\ snap'[h] = row /\ found'[h] = f
         /\ pc'[h] = next
  BY DEF Enter, ReqTypeOK

(* A request begins.                                                        *)
LEMMA BeginKeeps ==
  ASSUME OneAtATime, SequentialInv, RegistryInv', NEW h \in Handlers, Begin(h)
  PROVE  SequentialInv'
<1>1. ReqTypeOK /\ RegTypeOK /\ db \in [Sessions -> SessionRow]
  BY RequestKnows
<1>2. PICK s \in Sessions :
         \/ \E t \in Launches, a \in AlertValues : BeginStart(h, s, t, a)
         \/ \E t \in Launches : BeginResume(h, s, t)
         \/ \E o \in {"stop", "delete"} : BeginStop(h, s, o)
         \/ \E a \in AlertValues : BeginAlerts(h, s, a)
  BY DEF Begin
<1>3. phase = "up" /\ phase' = "up" /\ pc[h] = "idle"
  BY <1>2 DEF BeginStart, BeginResume, BeginStop, BeginAlerts, At, sysVars
<1>4. InStep(s) /\ \A r \in Sessions : starting[r] = NoLaunch
  <2>1. \A g \in Handlers : pc[g] = "idle"
    BY <1>3 DEF OneAtATime
  <2>2. InStep(s)
    BY <1>3, <2>1 DEF SequentialInv, SettledInStep
  <2> QED BY <1>3, <2>2, NobodyStarts DEF HoldingPCs
<1>5. ASSUME NEW t \in Launches, NEW a \in AlertValues, BeginStart(h, s, t, a)
      PROVE  SequentialInv'
  <2>a. /\ db[s].status = "unborn" /\ db' = [db EXCEPT ![s] = NewRow(a)]
        /\ Enter(h, "start", s, t, NewRow(a), FALSE, "startEvent")
        /\ UNCHANGED <<bots, starting, launch, cancelled>>
    BY <1>5 DEF BeginStart, Set, regVars
  <2>b. db'[s].status = "running" /\ bots[s] = NoLaunch /\ \A r \in Sessions \ {s} : db'[r] = db[r]
    BY <1>1, <1>4, <2>a DEF NewRow, InStep
  <2>1. /\ pc'[h] = "startEvent" /\ op'[h] = "start" /\ on'[h] = s
        /\ db'[s].status = "running" /\ bots'[s] = NoLaunch
        /\ UNCHANGED <<bots, starting, launch, cancelled>>
        /\ \A r \in Sessions \ {s} : db'[r] = db[r]
    <3> DEFINE row == NewRow(a)
    <3> HIDE DEF row
    <3>2. Enter(h, "start", s, t, row, FALSE, "startEvent")
      BY <2>a DEF row
    <3>3. pc'[h] = "startEvent" /\ op'[h] = "start" /\ on'[h] = s
      BY ONLY <1>1, <3>2, EnterControl
    <3> QED BY <2>a, <2>b, <3>3
  <2>2. Doing(h)'
    BY <2>1 DEF Doing, AsidePCs
  <2> QED BY <1>3, <2>1, <2>2, QuietKeeps, RequestKeeps DEF HoldingPCs
<1>6. ASSUME NEW t \in Launches, BeginResume(h, s, t)
      PROVE  SequentialInv'
  <2>1. /\ pc'[h] = "reserve" /\ op'[h] = "resume" /\ on'[h] = s
        /\ UNCHANGED <<db, bots, starting, launch, cancelled>>
    BY <1>1, <1>6, EnterControl DEF BeginResume, regVars
  <2>2. Doing(h)'
    BY <1>4, <2>1 DEF Doing, AsidePCs, InStep
  <2> QED BY <1>3, <2>1, <2>2, QuietKeeps, RequestKeeps DEF HoldingPCs
<1>7. ASSUME NEW a \in AlertValues, BeginAlerts(h, s, a)
      PROVE  SequentialInv'
  <2>1. /\ pc'[h] = "alertSave" /\ on'[h] = s /\ snap'[h] = [Copy(s) EXCEPT !.alerts = a]
        /\ UNCHANGED <<db, bots, starting, launch, cancelled>>
    <3>1. /\ Enter(h, "alerts", s, NoLaunch, [Copy(s) EXCEPT !.alerts = a], FALSE, "alertSave")
          /\ UNCHANGED <<db, bots, starting, launch, cancelled>>
      BY <1>7 DEF BeginAlerts, regVars
    <3> DEFINE row == [Copy(s) EXCEPT !.alerts = a]
    <3> HIDE DEF row
    <3>3. Enter(h, "alerts", s, NoLaunch, row, FALSE, "alertSave")
      BY <3>1 DEF row
    <3>4. pc'[h] = "alertSave" /\ on'[h] = s /\ snap'[h] = row
      BY ONLY <1>1, <3>3, EnterControl
    <3> QED BY <3>1, <3>4 DEF row
  <2>2. snap'[h].status = db[s].status /\ snap'[h].log = db[s].log
    BY <1>1, <2>1, CopyType, ManagerAssumption
  <2>3. Doing(h)'
    BY <1>4, <2>1, <2>2 DEF Doing, AsidePCs, InStep
  <2> QED BY <1>3, <2>1, <2>3, QuietKeeps, RequestKeeps DEF HoldingPCs
<1>8. ASSUME NEW o \in {"stop", "delete"}, BeginStop(h, s, o)
      PROVE  SequentialInv'
  <2>1. /\ pc'[h] \in {"stopGet", "wait"} /\ on'[h] = s
        /\ found'[h] = (({bots[s], starting[s]} \ {NoLaunch}) # {})
        /\ bots' = [bots EXCEPT ![s] = NoLaunch] /\ UNCHANGED <<db, starting, launch>>
        /\ cancelled \subseteq cancelled'
    BY <1>1, <1>8, EnterControl DEF BeginStop, Set
  <2>2. /\ bots'[s] = NoLaunch /\ \A r \in Sessions \ {s} : bots'[r] = bots[r]
        /\ db[s].status = "running" => found'[h]
    BY <1>1, <1>4, <2>1 DEF InStep, RegTypeOK
  <2>3. Doing(h)'
    BY <2>1, <2>2 DEF Doing, AsidePCs
  <2>4. StartingIsHeld' /\ BotsAreTold'
    BY <1>4, <2>1 DEF StartingIsHeld, BotsAreTold, SequentialInv
  <2> QED BY <1>3, <2>1, <2>2, <2>3, <2>4, RequestKeeps
<1> QED BY <1>2, <1>5, <1>6, <1>7, <1>8

(* It launches a bot.                                                       *)
LEMMA LaunchKeeps ==
  ASSUME OneAtATime, SequentialInv, RegistryInv', NEW h \in Handlers,
         \/ StartEvent(h) \/ ReserveBusy(h) \/ ResumeSave(h) \/ ResumeEvent(h) \/ MarkFailed(h)
  PROVE  SequentialInv'
<1>1. on[h] \in Sessions /\ db \in [Sessions -> SessionRow] /\ ReqTypeOK /\ RegTypeOK /\ Doing(h)
  BY RequestKnows
<1>2. PICK s \in Sessions : s = on[h]
  BY <1>1
<1>3. phase = "up" /\ phase' = "up" /\ UNCHANGED <<bots, starting, launch, cancelled>>
  BY DEF StartEvent, ReserveBusy, ResumeSave, ResumeEvent, MarkFailed, At, sysVars, regVars
<1>4. CASE StartEvent(h)
  <2>1. /\ pc[h] = "startEvent" /\ pc'[h] = "reserve" /\ UNCHANGED <<op, on>>
        /\ RecordSessionEvent(s, "START")
    BY <1>1, <1>2, <1>4, GotoControl DEF StartEvent, At, Goto
  <2>2. /\ db'[s].status = db[s].status /\ db'[s].log \in {"open", "reopened"}
        /\ \A r \in Sessions \ {s} : db'[r] = db[r]
    BY <1>1, <2>1, EventRecorded
  <2>3. Doing(h)'
    BY <1>1, <1>2, <1>3, <2>1, <2>2 DEF Doing, AsidePCs, PCs
  <2> QED BY <1>2, <1>3, <2>1, <2>2, <2>3, QuietKeeps, RequestKeeps DEF HoldingPCs
<1>5. CASE ReserveBusy(h)
  <2>1. pc[h] = "reserve" /\ pc'[h] = "idle" /\ Busy(s) /\ UNCHANGED db
    BY <1>1, <1>2, <1>5, ReturnControl DEF ReserveBusy, At
  <2>2. starting[s] = NoLaunch
    BY <2>1, NobodyStarts DEF HoldingPCs
  <2>3. InStep(s)
    BY <1>1, <1>2, <2>1, <2>2 DEF Doing, Busy
  <2>4. InStep(s)' /\ Doing(h)'
    BY <1>3, <2>1, <2>3 DEF Doing, AsidePCs, InStep
  <2> QED BY <1>2, <1>3, <2>1, <2>4, QuietKeeps, RequestKeeps DEF HoldingPCs
<1>6. CASE ResumeSave(h)
  <2>1. /\ pc[h] = "resumeSave" /\ pc'[h] = "resumeEvent" /\ UNCHANGED on
        /\ UpdateSession(s, snap[h], "running")
    BY <1>1, <1>2, <1>6, GotoControl DEF ResumeSave, At, Goto, OneAtATime
  <2>2. db'[s].status = "running" /\ \A r \in Sessions \ {s} : db'[r] = db[r]
    BY <1>1, <2>1, RowUpdated
  <2>3. Doing(h)'
    BY <1>1, <1>2, <1>3, <2>1, <2>2 DEF Doing, AsidePCs, PCs
  <2> QED BY <1>2, <1>3, <2>1, <2>2, <2>3, QuietKeeps, RequestKeeps DEF HoldingPCs
<1>7. CASE ResumeEvent(h)
  <2>1. /\ pc[h] = "resumeEvent" /\ pc'[h] = "build" /\ UNCHANGED on
        /\ RecordSessionEvent(s, "RESUME")
    BY <1>1, <1>2, <1>7, GotoControl DEF ResumeEvent, At, Goto
  <2>2. /\ db'[s].status = db[s].status /\ db'[s].log \in {"open", "reopened"}
        /\ \A r \in Sessions \ {s} : db'[r] = db[r]
    BY <1>1, <2>1, EventRecorded
  <2>3. Doing(h)'
    BY <1>1, <1>2, <1>3, <2>1, <2>2 DEF Doing, AsidePCs, PCs
  <2> QED BY <1>2, <1>3, <2>1, <2>2, <2>3, QuietKeeps, RequestKeeps DEF HoldingPCs
<1>8. CASE MarkFailed(h)
  <2>1. /\ pc[h] = "markFailed" /\ pc'[h] = "idle"
        /\ UpdateSession(s, snap[h], "error")
    BY <1>1, <1>2, <1>8, ReturnControl DEF MarkFailed, FailedStatus, At, OneAtATime
  <2>2. db'[s].status = "error" /\ \A r \in Sessions \ {s} : db'[r] = db[r]
    BY <1>1, <2>1, RowUpdated
  <2>3. InStep(s)' /\ Doing(h)'
    BY <1>1, <1>2, <1>3, <2>1, <2>2 DEF Doing, AsidePCs, PCs, InStep
  <2> QED BY <1>2, <1>3, <2>1, <2>2, <2>3, QuietKeeps, RequestKeeps DEF HoldingPCs
<1> QED BY <1>4, <1>5, <1>6, <1>7, <1>8

(* It reserves a launch, and registers the bot or gives it up.              *)
LEMMA ReservationKeeps ==
  ASSUME OneAtATime, SequentialInv, RegistryInv', NEW h \in Handlers,
         Reserve(h) \/ Unreserve(h) \/ LaunchBot(h) \/ LaunchCancelled(h) \/ LaunchFails(h)
  PROVE  SequentialInv'
<1>1. on[h] \in Sessions /\ db \in [Sessions -> SessionRow] /\ ReqTypeOK /\ RegTypeOK /\ Doing(h)
  BY RequestKnows
<1>2. PICK s \in Sessions : s = on[h]
  BY <1>1
<1>3. phase = "up" /\ phase' = "up" /\ UNCHANGED db
  BY DEF Reserve, Unreserve, LaunchBot, LaunchCancelled, LaunchFails, At, sysVars
<1>4. \A g \in Handlers : g = h
  BY DEF OneAtATime
<1>5. CASE Reserve(h)
  <2>1. /\ pc[h] = "reserve" /\ pc'[h] = (IF op[h] = "start" THEN "build" ELSE "resumeSave")
        /\ UNCHANGED <<on, tok, bots>> /\ ~Busy(s)
        /\ starting' = [starting EXCEPT ![s] = tok[h]]
        /\ launch' = [launch EXCEPT ![tok[h]] = "reserved"]
        /\ cancelled' = cancelled \ {tok[h]}
    BY <1>1, <1>2, <1>5, GotoControl DEF Reserve, At, Goto, Set
  <2>2. tok[h] \in Launches /\ launch[tok[h]] = "gone"
    BY <2>1 DEF SequentialInv, RegistryInv, ClaimsAreFresh, ClaimingPCs
  <2>3. \A r \in Sessions : starting[r] = NoLaunch
    BY <2>1, NobodyStarts DEF HoldingPCs
  <2>4. StartingIsHeld'
    <3>1. pc'[h] \in HoldingPCs /\ on'[h] = s
      BY <1>2, <2>1 DEF HoldingPCs
    <3>2. \A r \in Sessions : starting'[r] # NoLaunch => r = s /\ starting'[r] \notin cancelled'
      BY <1>1, <2>1, <2>3 DEF RegTypeOK
    <3> QED BY <3>1, <3>2 DEF StartingIsHeld
  <2>5. BotsAreTold'
    BY <1>1, <2>1, <2>2 DEF SequentialInv, BotsAreTold, RegTypeOK
  <2>6. Doing(h)'
    BY <1>1, <1>2, <1>3, <2>1 DEF Doing, AsidePCs, PCs, Busy
  <2> QED BY <1>2, <1>3, <2>1, <2>4, <2>5, <2>6, RequestKeeps
<1>6. CASE Unreserve(h) \/ LaunchBot(h) \/ LaunchCancelled(h) \/ LaunchFails(h)
  <2>1. pc[h] = "build"
    BY <1>1, <1>6 DEF Unreserve, LaunchBot, LaunchCancelled, LaunchFails, At, Doing
  <2>2. /\ tok[h] \in Launches /\ tok[h] # NoLaunch /\ starting[s] = tok[h]
        /\ tok[h] \notin cancelled
    BY <1>2, <2>1, ManagerAssumption
       DEF SequentialInv, RegistryInv, ReservationHeld, StartingIsHeld, HoldingPCs
  <2>3. /\ db[s].status = "running" /\ db[s].log \in {"open", "reopened"} /\ bots[s] = NoLaunch
    BY <1>1, <1>2, <2>1 DEF Doing, AsidePCs, PCs
  <2>4. LaunchBot(h) \/ LaunchFails(h)
    BY <1>6, <2>1, <2>2 DEF Unreserve, LaunchCancelled, At
  <2>5. /\ starting' = [starting EXCEPT ![s] = NoLaunch]
        /\ \/ /\ bots' = [bots EXCEPT ![s] = tok[h]] /\ pc'[h] = "idle"
              /\ launch' = [launch EXCEPT ![tok[h]] = "live"]
              /\ UNCHANGED cancelled
           \/ /\ bots' = bots /\ pc'[h] = "markFailed" /\ UNCHANGED on
              /\ launch' = [launch EXCEPT ![tok[h]] = "gone"]
              /\ cancelled' = cancelled \cup {tok[h]}
    BY <1>1, <1>2, <2>4, ReturnControl, GotoControl DEF LaunchBot, LaunchFails, Set
  <2>6. StartingIsHeld'
    <3>1. \A r \in Sessions : r # s => starting[r] = NoLaunch
      BY <1>2, <1>4 DEF SequentialInv, StartingIsHeld
    <3>2. \A r \in Sessions : starting'[r] = NoLaunch
      BY <1>1, <2>5, <3>1 DEF RegTypeOK
    <3> QED BY <3>2 DEF StartingIsHeld
  <2>7. BotsAreTold'
    BY <1>1, <2>2, <2>5 DEF SequentialInv, BotsAreTold, RegTypeOK
  <2>8. pc'[h] = "idle" => InStep(s)'
    BY <1>1, <1>3, <2>2, <2>3, <2>5 DEF InStep, RegTypeOK
  <2>9. Doing(h)'
    BY <1>2, <1>3, <2>3, <2>5 DEF Doing, AsidePCs, PCs
  <2>10. \A r \in Sessions \ {s} : db'[r] = db[r] /\ bots'[r] = bots[r]
    BY <1>1, <1>3, <2>5 DEF RegTypeOK
  <2> QED BY <1>2, <1>3, <2>5, <2>6, <2>7, <2>8, <2>9, <2>10, RequestKeeps
<1> QED BY <1>5, <1>6


(* It stops a bot, deletes the session or saves its flag.                   *)
LEMMA StopKeeps ==
  ASSUME OneAtATime, SequentialInv, RegistryInv', NEW h \in Handlers,
         \/ BotDone(h) \/ StopTimeout(h) \/ StopGetFails(h) \/ StopGet(h) \/ StopSave(h)
         \/ StopEvent(h) \/ DeleteEvents(h) \/ DeleteRow(h) \/ AlertSave(h)
  PROVE  SequentialInv'
<1>1. on[h] \in Sessions /\ db \in [Sessions -> SessionRow] /\ ReqTypeOK /\ RegTypeOK /\ Doing(h)
  BY RequestKnows
<1>2. PICK s \in Sessions : s = on[h]
  BY <1>1
<1>3. phase = "up" /\ phase' = "up" /\ UNCHANGED <<bots, starting, launch, cancelled>>
  BY DEF BotDone, StopTimeout, StopGetFails, StopGet, StopSave, StopEvent, DeleteEvents, DeleteRow,
         AlertSave, At, sysVars, regVars
<1>4. SUFFICES ASSUME /\ pc[h] \in {"wait", "stopGet", "stopSave", "stopEvent", "deleteEvents",
                                    "deleteRow", "alertSave"}
                      /\ pc'[h] # "idle" => on'[h] = s
                      /\ \A r \in Sessions \ {s} : db'[r] = db[r]
                      /\ pc'[h] = "idle" => InStep(s)'
                      /\ Doing(h)'
                      => SequentialInv'
               PROVE  SequentialInv'
  BY <1>2, <1>3, QuietKeeps, RequestKeeps DEF HoldingPCs
<1>5. CASE BotDone(h) \/ StopTimeout(h)
  <2>1. pc[h] = "wait" /\ pc'[h] = "stopGet" /\ on'[h] = s /\ found'[h] /\ UNCHANGED db
    <3>1. /\ pc[h] = "wait" /\ UNCHANGED db
          /\ Enter(h, op[h], s, NoLaunch, Unborn, TRUE, "stopGet")
      BY <1>2, <1>5 DEF BotDone, StopTimeout, AfterWait, At
    <3>2. pc'[h] = "stopGet" /\ on'[h] = s /\ found'[h] = TRUE
      BY <1>1, <3>1 DEF Enter, ReqTypeOK
    <3> QED BY <3>1, <3>2
  <2>2. Doing(h)'
    BY <1>1, <1>2, <1>3, <2>1 DEF Doing, AsidePCs, PCs
  <2> QED BY <1>4, <2>1, <2>2
<1>6. CASE StopGetFails(h)
  <2>1. pc[h] = "stopGet" /\ pc'[h] = "idle" /\ ~Exists(s) /\ UNCHANGED db
    BY <1>1, <1>2, <1>6, ReturnControl DEF StopGetFails, At, OneAtATime
  <2>2. InStep(s)' /\ Doing(h)'
    BY <1>1, <1>2, <1>3, <2>1 DEF Doing, AsidePCs, PCs, InStep, Exists
  <2> QED BY <1>4, <2>1, <2>2
<1>7. CASE StopGet(h)
  <2>1. /\ pc[h] = "stopGet" /\ UNCHANGED db /\ bots[s] = NoLaunch
        /\ \/ pc'[h] = "stopSave" /\ on'[h] = s
           \/ db[s].status # "running" /\ Stopped(h)
    <3>1. pc[h] = "stopGet" /\ UNCHANGED db /\ bots[s] = NoLaunch
      BY <1>1, <1>2, <1>7 DEF StopGet, At, Doing, AsidePCs, PCs
    <3>2. \/ Enter(h, op[h], on[h], NoLaunch, Copy(on[h]), found[h], "stopSave")
          \/ db[s].status # "running" /\ Stopped(h)
      BY <1>2, <1>7 DEF StopGet
    <3>3. CASE Enter(h, op[h], on[h], NoLaunch, Copy(on[h]), found[h], "stopSave")
      BY <1>1, <1>2, <3>1, <3>3 DEF Enter, ReqTypeOK
    <3> QED BY <3>1, <3>2, <3>3
  <2>2. CASE pc'[h] = "stopSave" /\ on'[h] = s
    <3>1. Doing(h)'
      BY <1>3, <2>1, <2>2 DEF Doing, AsidePCs, PCs
    <3> QED BY <1>4, <2>1, <2>2, <3>1
  <2>3. CASE db[s].status # "running" /\ Stopped(h)
    <3>1. pc'[h] = "idle" \/ (pc'[h] = "deleteEvents" /\ UNCHANGED on)
      BY <1>1, <2>3, ReturnControl, GotoControl DEF Stopped
    <3>2. InStep(s)'
      BY <1>3, <2>1, <2>3 DEF InStep
    <3>3. Doing(h)'
      BY <1>2, <1>3, <2>1, <2>3, <3>1 DEF Doing, AsidePCs, PCs
    <3> QED BY <1>2, <1>4, <2>1, <3>1, <3>2, <3>3
  <2> QED BY <2>1, <2>2, <2>3
<1>8. CASE StopSave(h)
  <2>1. /\ pc[h] = "stopSave" /\ pc'[h] = "stopEvent" /\ UNCHANGED on
        /\ UpdateSession(s, snap[h], "stopped")
    BY <1>1, <1>2, <1>8, GotoControl DEF StopSave, At, OneAtATime
  <2>2. db'[s].status = "stopped" /\ \A r \in Sessions \ {s} : db'[r] = db[r]
    BY <1>1, <2>1, RowUpdated
  <2>3. Doing(h)'
    BY <1>1, <1>2, <1>3, <2>1, <2>2 DEF Doing, AsidePCs, PCs
  <2> QED BY <1>2, <1>4, <2>1, <2>2, <2>3
<1>9. CASE StopEvent(h)
  <2>1. /\ pc[h] = "stopEvent" /\ RecordSessionEvent(s, "STOP")
        /\ pc'[h] = "idle" \/ (pc'[h] = "deleteEvents" /\ UNCHANGED on)
    BY <1>1, <1>2, <1>9, ReturnControl, GotoControl DEF StopEvent, Stopped, At
  <2>2. db'[s].status = db[s].status /\ \A r \in Sessions \ {s} : db'[r] = db[r]
    BY <1>1, <2>1, EventRecorded
  <2>3. db[s].status # "running" /\ bots[s] = NoLaunch
    BY <1>1, <1>2, <2>1 DEF Doing, AsidePCs, PCs
  <2>4. InStep(s)'
    BY <1>3, <2>2, <2>3 DEF InStep
  <2>5. Doing(h)'
    BY <1>2, <1>3, <2>1, <2>2, <2>3 DEF Doing, AsidePCs, PCs
  <2> QED BY <1>2, <1>4, <2>1, <2>2, <2>4, <2>5
<1>10. CASE DeleteEvents(h)
  <2>1. /\ pc[h] = "deleteEvents" /\ pc'[h] = "deleteRow" /\ UNCHANGED on
        /\ db' = [db EXCEPT ![s].log = "empty"]
    BY <1>1, <1>2, <1>10, GotoControl DEF DeleteEvents, At, OneAtATime
  <2>2. db'[s].status = db[s].status /\ \A r \in Sessions \ {s} : db'[r] = db[r]
    BY <1>1, <2>1 DEF SessionRow
  <2>3. Doing(h)'
    BY <1>1, <1>2, <1>3, <2>1, <2>2 DEF Doing, AsidePCs, PCs
  <2> QED BY <1>2, <1>4, <2>1, <2>2, <2>3
<1>11. CASE DeleteRow(h)
  <2>1. /\ pc[h] = "deleteRow" /\ pc'[h] = "idle"
        /\ db' = [db EXCEPT ![s].status = "absent", ![s].alerts = FALSE]
    BY <1>1, <1>2, <1>11, ReturnControl DEF DeleteRow, At, OneAtATime
  <2>2. db'[s].status = "absent" /\ \A r \in Sessions \ {s} : db'[r] = db[r]
    BY <1>1, <2>1 DEF SessionRow
  <2>3. InStep(s)' /\ Doing(h)'
    BY <1>1, <1>2, <1>3, <2>1, <2>2 DEF Doing, AsidePCs, PCs, InStep
  <2> QED BY <1>4, <2>1, <2>2, <2>3
<1>12. CASE AlertSave(h)
  <2>1. /\ pc[h] = "alertSave" /\ pc'[h] = "idle"
        /\ UpdateSession(s, snap[h], snap[h].status)
    BY <1>1, <1>2, <1>12, ReturnControl DEF AlertSave, At, OneAtATime
  <2>2. InStep(s) /\ snap[h].status = db[s].status /\ snap[h].log = db[s].log
    BY <1>1, <1>2, <2>1 DEF Doing
  <2>3. db'[s].status = db[s].status /\ db'[s].log = db[s].log
        /\ \A r \in Sessions \ {s} : db'[r] = db[r]
    BY <1>1, <2>1, <2>2, RowUpdated
  <2>4. InStep(s)' /\ Doing(h)'
    BY <1>3, <2>1, <2>2, <2>3 DEF Doing, AsidePCs, PCs, InStep
  <2> QED BY <1>4, <2>1, <2>3, <2>4
<1> QED BY <1>5, <1>6, <1>7, <1>8, <1>9, <1>10, <1>11, <1>12

(* What the bots do concerns neither rows nor requests.                     *)
LEMMA BotsKeep ==
  ASSUME OneAtATime, SequentialInv, RegistryInv', NEW t \in Launches, BotReturns(t) \/ BotStep(t)
  PROVE  SequentialInv'
<1>1. RegTypeOK /\ launch[t] \in {"gone", "reserved", "live", "returned"}
      /\ (launch[t] = "returned" => t \in cancelled)
  BY DEF SequentialInv, RegistryInv, TypeOK, BotsAreTold
<1>2. ~BotUnregister(t)
  <2> SUFFICES ASSUME BotUnregister(t) PROVE FALSE
    OBVIOUS
  <2>1. t \in cancelled /\ bots[owner[t]] = t /\ owner[t] \in Sessions /\ t # NoLaunch
    BY <1>1, ManagerAssumption DEF BotUnregister, Owned, RegTypeOK
  <2> QED BY <2>1 DEF SequentialInv, RegistryInv, RegisteredBotIsWanted
<1>3. BotReturns(t) \/ BotDisowned(t)
  BY <1>1, <1>2 DEF BotStep, ExitRead, ExitSave, ExitEvent
<1>4. UNCHANGED <<db, bots, starting, cancelled, op, pc, on, tok, snap, found, phase, todo>>
  BY <1>3 DEF BotReturns, BotDisowned, reqVars, sysVars
<1>5. BotsAreTold'
  BY <1>1, <1>3 DEF BotReturns, BotDisowned, Set, OneAtATime, SequentialInv, BotsAreTold, RegTypeOK
<1>6. SettledInStep' /\ StartingIsHeld' /\ NothingRuns'
  BY <1>4 DEF SequentialInv, SettledInStep, StartingIsHeld, NothingRuns, InStep
<1>7. UnderWay'
  BY <1>4 DEF SequentialInv, UnderWay, Doing, InStep
<1> QED BY <1>5, <1>6, <1>7 DEF SequentialInv


(* A crash leaves no bot, and recovery no row that says running.            *)
LEMMA RecoveryKeeps ==
  ASSUME OneAtATime, SequentialInv, RegistryInv', Crash \/ Recover
  PROVE  SequentialInv'
<1>1. CASE Crash
  <2>1. /\ phase' = "down" /\ \A s \in Sessions : bots'[s] = NoLaunch /\ starting'[s] = NoLaunch
        /\ \A t \in Launches : launch'[t] = "gone"
        /\ \A h \in Handlers : pc'[h] = "idle"
    BY <1>1 DEF Crash
  <2>2. UnderWay'
    BY <2>1 DEF UnderWay, Doing, AsidePCs
  <2>3. SettledInStep' /\ StartingIsHeld' /\ BotsAreTold' /\ NothingRuns'
    BY <2>1 DEF SettledInStep, StartingIsHeld, BotsAreTold, NothingRuns
  <2> QED BY <2>2, <2>3 DEF SequentialInv
<1>2. CASE Recover
  <2>1. /\ phase # "up" /\ \A h \in Handlers : pc[h] = "idle"
        /\ \A s \in Sessions : bots[s] = NoLaunch
        /\ phase = "recovering" => \A s \in Sessions \ todo : db[s].status # "running"
    BY <1>2 DEF Recover, Restart, Recovered, RecoverSave, RecoverEvent, SequentialInv, NothingRuns
  <2>2. UNCHANGED <<bots, starting, cancelled, launch, op, pc, on, tok, snap, found>>
    BY <1>2 DEF Recover, Restart, Recovered, RecoverSave, RecoverEvent, regVars, reqVars
  <2>3. UnderWay'
    BY <2>1, <2>2 DEF UnderWay, Doing, AsidePCs
  <2>4. StartingIsHeld' /\ BotsAreTold'
    BY <2>2 DEF SequentialInv, StartingIsHeld, BotsAreTold
  <2>5. db \in [Sessions -> SessionRow]
    BY DEF SequentialInv, RegistryInv, TypeOK, DBTypeOK
  <2>6. CASE Restart
    <3>1. todo' = {s \in Sessions : db[s].status = "running"} /\ phase' = "recovering" /\ UNCHANGED db
      BY <2>6 DEF Restart, OneAtATime
    <3>2. SettledInStep' /\ NothingRuns'
      BY <2>1, <2>2, <3>1 DEF SettledInStep, NothingRuns
    <3> QED BY <2>3, <2>4, <3>2 DEF SequentialInv
  <2>7. CASE Recovered
    <3>1. phase' = "up" /\ UNCHANGED db /\ \A s \in Sessions : db[s].status # "running"
      BY <2>1, <2>7 DEF Recovered
    <3>2. \A s \in Sessions : InStep(s)'
      BY <2>1, <2>2, <3>1 DEF InStep
    <3>3. SettledInStep' /\ NothingRuns'
      BY <3>1, <3>2 DEF SettledInStep, NothingRuns
    <3> QED BY <2>3, <2>4, <3>3 DEF SequentialInv
  <2>8. ASSUME NEW s \in Sessions, RecoverSave(s) \/ RecoverEvent(s)
        PROVE  SequentialInv'
    <3>1. phase = "recovering" /\ phase' = "recovering"
      BY <2>8 DEF RecoverSave, RecoverEvent
    <3>2. \A r \in Sessions \ todo' : db'[r].status # "running"
      <4>1. CASE RecoverSave(s)
        <5>1. UpdateSession(s, db[s], "stopped") /\ todo' = todo \ {s}
          BY <4>1 DEF RecoverSave, OneAtATime
        <5>2. db'[s].status = "stopped" /\ \A r \in Sessions \ {s} : db'[r] = db[r]
          BY <2>5, <5>1, RowUpdated
        <5> QED BY <2>1, <3>1, <5>1, <5>2
      <4>2. CASE RecoverEvent(s)
        <5>1. \A r \in Sessions : db'[r].status = db[r].status
          BY <2>5, <4>2 DEF RecoverEvent, CreateSessionEvent, SessionRow
        <5> QED BY <2>1, <3>1, <4>2, <5>1 DEF RecoverEvent
      <4> QED BY <2>8, <4>1, <4>2
    <3>3. SettledInStep' /\ NothingRuns'
      BY <2>1, <2>2, <3>1, <3>2 DEF SettledInStep, NothingRuns
    <3> QED BY <2>3, <2>4, <3>3 DEF SequentialInv
  <2> QED BY <1>2, <2>6, <2>7, <2>8 DEF Recover
<1> QED BY <1>1, <1>2

LEMMA InitSequential == Init => SequentialInv
<1> SUFFICES ASSUME Init PROVE SequentialInv
  OBVIOUS
<1>1. /\ phase = "up" /\ \A s \in Sessions : bots[s] = NoLaunch /\ starting[s] = NoLaunch
      /\ \A s \in Sessions : db[s] = Unborn
      /\ \A t \in Launches : launch[t] = "gone"
      /\ \A h \in Handlers : pc[h] = "idle"
  BY DEF Init
<1>2. SettledInStep
  BY <1>1 DEF SettledInStep, InStep, Unborn
<1>3. UnderWay
  BY <1>1 DEF UnderWay, Doing, AsidePCs
<1>4. StartingIsHeld /\ BotsAreTold /\ NothingRuns
  BY <1>1 DEF StartingIsHeld, BotsAreTold, NothingRuns
<1> QED BY <1>2, <1>3, <1>4, InitInv DEF SequentialInv

LEMMA NextSequential ==
  ASSUME OneAtATime, SequentialInv, [Next]_vars
  PROVE  SequentialInv'
<1>r. RegistryInv'
  BY NextInv DEF SequentialInv
<1>1. ASSUME NEW h \in Handlers, Begin(h) \/ RequestStep(h)
      PROVE  SequentialInv'
  BY <1>r, <1>1, BeginKeeps, LaunchKeeps, ReservationKeeps, StopKeeps DEF RequestStep
<1>2. CASE Crash \/ Recover
  BY <1>r, <1>2, RecoveryKeeps
<1>3. CASE UNCHANGED vars
  <2>1. UNCHANGED <<db, bots, starting, cancelled, launch, op, pc, on, tok, snap, found, phase, todo>>
    BY <1>3 DEF vars, regVars, reqVars, sysVars
  <2>2. UnderWay'
    BY <2>1 DEF SequentialInv, UnderWay, Doing, InStep
  <2> QED BY <1>r, <2>1, <2>2
          DEF SequentialInv, SettledInStep, StartingIsHeld, BotsAreTold, NothingRuns, InStep
<1> QED BY <1>r, <1>1, <1>2, <1>3, BotsKeep DEF Next

(* With one request at a time, whatever crashes and failed launches there   *)
(* are, the row, the registry and the log of a session tell the same story. *)
THEOREM SequentialCorrect ==
  ASSUME OneAtATime
  PROVE  Spec => []SequentialInv
<1>1. SequentialInv /\ [Next]_vars => SequentialInv'
  BY NextSequential
<1> QED BY <1>1, InitSequential, PTL DEF Spec

(* "the DB is kept in sync by the signal manager": a session at rest has a  *)
(* running row exactly when a bot is registered for it.                     *)
THEOREM RowInSyncCorrect ==
  ASSUME OneAtATime
  PROVE  Spec => []RowInSync
<1>1. SequentialInv => RowInSync
  BY DEF SequentialInv, SettledInStep, RowInSync, Quiescent, InStep
<1> QED BY <1>1, SequentialCorrect, PTL

(* The newest event shown of a running session is a START or a RESUME.      *)
THEOREM RunningIsOpenCorrect ==
  ASSUME OneAtATime
  PROVE  Spec => []RunningSessionIsOpen
<1>1. SequentialInv => RunningSessionIsOpen
  <2> SUFFICES ASSUME SequentialInv, NEW s \in Sessions, Quiescent(s), ShownStatus(s) = "running"
               PROVE  EventsForDisplay(db[s], ShownStatus(s)) \in {"open", "reopened"}
    BY DEF RunningSessionIsOpen
  <2>1. Busy(s)
    BY DEF ShownStatus
  <2>2. phase = "up" /\ \A h \in Handlers : pc[h] = "idle" \/ on[h] # s
    BY DEF Quiescent
  <2>3. starting[s] = NoLaunch
    BY <2>2 DEF SequentialInv, StartingIsHeld, HoldingPCs
  <2>4. bots[s] # NoLaunch /\ InStep(s)
    BY <2>1, <2>2, <2>3 DEF Busy, SequentialInv, SettledInStep
  <2>5. db[s].status = "running" /\ db[s].log \in {"open", "reopened"}
    BY <2>4 DEF InStep
  <2>6. ShownStatus(s) = "running"
    OBVIOUS
  <2> QED BY <2>5, <2>6 DEF EventsForDisplay, HasStop
<1> QED BY <1>1, SequentialCorrect, PTL

=============================================================================
