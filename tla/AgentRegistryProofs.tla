------------------------ MODULE AgentRegistryProofs ------------------------
(***************************************************************************)
(* Theorems about AgentRegistry, for any number of requests and monitors,  *)
(* every threshold and every environment.  Heartbeats and monitors write   *)
(* whole records back that they read earlier, so each property needs an    *)
(* invariant about the copies that are under way beside one about the      *)
(* stored record.                                                          *)
(***************************************************************************)
EXTENDS AgentRegistry, TLAPS

USE RegistryAssumption

CallType == [pc : {"idle", "register", "read", "write"}, rec : Record]
MonitorType == [pc : {"idle", "judge", "write"}, rec : Record]

-----------------------------------------------------------------------------
(* Type correctness. *)

LEMMA NoRecordType == NoRecord \in Record /\ NoRecord.age = 0
  BY DEF NoRecord, Record, Age

LEMMA OlderType ==
    ASSUME NEW t \in Age
    PROVE  /\ Older(t) \in Age
           /\ Older(t) >= t
           /\ t > Threshold => Older(t) > Threshold
  BY DEF Older, Age

\* What a step makes of a record is a record: only the age or the status
\* differs.
LEMMA RecordOps ==
    ASSUME NEW rec \in Record, NEW t \in Age
    PROVE  /\ Beaten(rec, t) \in Record
           /\ Beaten(rec, t).addr = rec.addr
           /\ Beaten(rec, t).status = "active"
           /\ Beaten(rec, t).age = t
           /\ Marked(rec) \in Record
           /\ Marked(rec).addr = rec.addr
           /\ Marked(rec).age = rec.age
           /\ OlderRecord(rec) \in Record
           /\ OlderRecord(rec).addr = rec.addr
           /\ OlderRecord(rec).status = rec.status
           /\ rec # NoRecord => OlderRecord(rec).age = Older(rec.age)
  BY OlderType DEF Beaten, Marked, OlderRecord, Record, Status

\* The copy of a request, a tick older.
OlderCall(x) == IF x.pc = "idle" THEN x ELSE [x EXCEPT !.rec.age = Older(@)]

LEMMA OlderCallType ==
    ASSUME NEW x \in CallType
    PROVE  /\ OlderCall(x) \in CallType
           /\ OlderCall(x).pc = x.pc
           /\ OlderCall(x).rec.addr = x.rec.addr
           /\ OlderCall(x).rec.status = x.rec.status
  <1>1. x.rec \in Record /\ Older(x.rec.age) \in Age
    BY OlderType DEF CallType, Record
  <1>2. [x.rec EXCEPT !.age = Older(@)] \in Record
    BY <1>1 DEF Record
  <1> QED
    BY <1>1, <1>2 DEF OlderCall, CallType, Record

LEMMA TypeStep == TypeOK /\ [Next]_vars => TypeOK'
  <1> SUFFICES ASSUME TypeOK, [Next]_vars PROVE TypeOK'
    OBVIOUS
  <1> USE DEF history, envVars
  <1>0. /\ stored \in Record
        /\ call \in [Call -> CallType]
        /\ monitor \in [Monitor -> MonitorType]
        /\ Idle \in CallType /\ Idle \in MonitorType
    BY NoRecordType DEF TypeOK, CallType, MonitorType, Idle
  <1>1. ASSUME NEW c \in Call, NEW a \in Addr, Register(c, a) PROVE TypeOK'
    <2>1. [addr |-> a, status |-> "active", age |-> 0] \in Record
      BY DEF Record, Status, Age
    <2> QED
      BY <1>1, <2>1 DEF Register, TypeOK
  <1>2. ASSUME NEW c \in Call, Heartbeat(c) PROVE TypeOK'
    BY <1>2, NoRecordType DEF Heartbeat, TypeOK
  <1>3. ASSUME NEW c \in Call, StoreRegistration(c) PROVE TypeOK'
    <2>1. call[c].rec \in Record /\ call[c].rec.age \in Age
          /\ call[c].rec.addr \in Addr \cup {"none"}
      BY <1>0 DEF CallType, Record
    <2>2. silence' \in Age
      BY <1>3, <2>1 DEF StoreRegistration, Heard, TypeOK
    <2>3. call' \in [Call -> CallType]
      BY <1>3, <1>0 DEF StoreRegistration
    <2>4. raced' \in BOOLEAN
      BY <1>3 DEF StoreRegistration, Copied
    <2> QED
      BY <1>3, <2>1, <2>2, <2>3, <2>4 DEF StoreRegistration, TypeOK, CallType
  <1>4. ASSUME NEW c \in Call, GetAgent(c) PROVE TypeOK'
    <2>1. Beaten(stored, call[c].rec.age) \in Record
      BY <1>0, RecordOps DEF CallType, Record
    <2>2. call' \in [Call -> CallType]
      BY <1>4, <1>0, <2>1 DEF GetAgent, CallType
    <2> QED
      BY <1>4, <2>2 DEF GetAgent, TypeOK, CallType
  <1>5. ASSUME NEW c \in Call, StoreHeartbeat(c) PROVE TypeOK'
    <2>1. call[c].rec \in Record /\ call[c].rec.age \in Age
      BY <1>0 DEF CallType, Record
    <2>2. silence' \in Age
      BY <1>5, <2>1 DEF StoreHeartbeat, Heard, TypeOK
    <2>3. call' \in [Call -> CallType]
      BY <1>5, <1>0 DEF StoreHeartbeat
    <2> QED
      BY <1>5, <2>1, <2>2, <2>3 DEF StoreHeartbeat, TypeOK, CallType
  <1>6. ASSUME NEW c \in Call, CallFails(c) PROVE TypeOK'
    <2>1. call' \in [Call -> CallType]
      BY <1>6, <1>0 DEF CallFails
    <2>2. errors' \in 0..MaxErrors
      BY <1>6 DEF CallFails, Error, TypeOK
    <2> QED
      BY <1>6, <2>1, <2>2 DEF CallFails, TypeOK, CallType
  <1>7. ASSUME NEW m \in Monitor, MonitorStep(m) PROVE TypeOK'
    <2>1. Marked(monitor[m].rec) \in Record
      <3>1. monitor[m].rec \in Record /\ 0 \in Age
        BY <1>0 DEF MonitorType, Age
      <3> QED
        BY <3>1, RecordOps
    <2>2. monitor' \in [Monitor -> MonitorType]
      <3>1. CASE ListAgents(m)
        BY <3>1, <1>0 DEF ListAgents, MonitorType
      <3>2. CASE Judge(m)
        BY <3>2, <1>0 DEF Judge, MonitorType
      <3>3. CASE MarkOffline(m)
        BY <3>3, <1>0 DEF MarkOffline
      <3> QED
        BY <1>7, <3>1, <3>2, <3>3 DEF MonitorStep
    <2>3. stored' \in Record
      BY <1>7, <1>0, <2>1 DEF MonitorStep, ListAgents, Judge, MarkOffline
    <2> QED
      BY <1>7, <2>2, <2>3
      DEF MonitorStep, ListAgents, Judge, MarkOffline, TypeOK, MonitorType
  <1>8. ASSUME NEW m \in Monitor, MonitorFails(m) PROVE TypeOK'
    <2>1. monitor' \in [Monitor -> MonitorType]
      BY <1>8, <1>0 DEF MonitorFails
    <2>2. errors' \in 0..MaxErrors
      BY <1>8 DEF MonitorFails, Error, TypeOK
    <2> QED
      BY <1>8, <2>1, <2>2 DEF MonitorFails, TypeOK, MonitorType
  <1>9. CASE Tick
    <2>1. stored' \in Record
      BY <1>9, <1>0, RecordOps DEF Tick, Record
    <2>2. call' = [c \in Call |-> OlderCall(call[c])]
      BY <1>9 DEF Tick, OlderCall
    <2>3. call' \in [Call -> CallType]
      BY <2>2, <1>0, OlderCallType
    <2>4. monitor' \in [Monitor -> MonitorType]
      <3>1. ASSUME NEW m \in Monitor
            PROVE  [monitor[m] EXCEPT !.rec = OlderRecord(@)] \in MonitorType
        <4>1. monitor[m] \in MonitorType
          BY <1>0
        <4>2. OlderRecord(monitor[m].rec) \in Record
          BY <4>1, RecordOps DEF MonitorType, Record
        <4> QED
          BY <4>1, <4>2 DEF MonitorType
      <3> QED
        BY <1>9, <3>1 DEF Tick
    <2>5. silence' \in Age
      <3>1. Older(silence) \in Age /\ MaxAge \in Age
        BY OlderType DEF TypeOK, Age
      <3> QED
        BY <1>9, <3>1 DEF Tick, TypeOK
    <2> QED
      BY <1>9, <2>1, <2>3, <2>4, <2>5 DEF Tick, TypeOK, CallType, MonitorType
  <1>10. CASE AgentStops
    BY <1>10 DEF AgentStops, TypeOK
  <1>11. CASE UNCHANGED vars
    BY <1>11 DEF vars, TypeOK
  <1>12. ASSUME NEW c \in Call, Heartbeat(c) \/ CallStep(c) \/ CallFails(c)
         PROVE  TypeOK'
    BY <1>12, <1>2, <1>3, <1>4, <1>5, <1>6 DEF CallStep
  <1> QED
    BY <1>1, <1>7, <1>8, <1>9, <1>10, <1>11, <1>12, Zenon DEF Next

LEMMA TypeInit == Init => TypeOK
  <1> SUFFICES ASSUME Init PROVE TypeOK
    OBVIOUS
  <1>1. Idle \in CallType /\ Idle \in MonitorType
    BY NoRecordType DEF Idle, CallType, MonitorType
  <1>2. call \in [Call -> CallType] /\ monitor \in [Monitor -> MonitorType]
    BY <1>1 DEF Init
  <1>3. /\ stored \in Record
        /\ alive \in BOOLEAN /\ raced \in BOOLEAN
        /\ registered \in Addr \cup {"none"}
    BY NoRecordType DEF Init
  <1>4. errors \in 0..MaxErrors /\ silence \in Age
    BY DEF Init, Age
  <1> QED
    BY <1>2, <1>3, <1>4 DEF TypeOK, CallType, MonitorType

(* Every action keeps every variable in its type; the ages of all copies   *)
(* stay within the bound where they saturate.                              *)
THEOREM TypeCorrect == Spec => []TypeOK
  BY TypeInit, TypeStep, PTL DEF Spec

-----------------------------------------------------------------------------
(* How steps change copies. *)

\* What a tick does to each copy.
LEMMA TickCopies ==
    ASSUME TypeOK, Tick
    PROVE  /\ stored' = OlderRecord(stored)
           /\ \A c \in Call : call'[c] = OlderCall(call[c])
           /\ \A m \in Monitor : /\ monitor'[m].pc = monitor[m].pc
                                 /\ monitor'[m].rec = OlderRecord(monitor[m].rec)
  BY DEF Tick, TypeOK, OlderCall

\* Records keep their fields, and NoRecord its emptiness, through a tick.
LEMMA TickRecord ==
    ASSUME NEW rec \in Record
    PROVE  /\ OlderRecord(rec).addr = rec.addr
           /\ OlderRecord(rec).status = rec.status
           /\ OlderRecord(rec) # NoRecord => rec # NoRecord
           /\ rec.age > Threshold => OlderRecord(rec).age > Threshold
  <1>1. rec.age \in Age /\ rec.age \in Nat
    BY DEF Record, Age
  <1>2. rec.age > Threshold => rec # NoRecord
    BY <1>1, NoRecordType
  <1> QED
    BY <1>1, <1>2, RecordOps, OlderType DEF OlderRecord

-----------------------------------------------------------------------------
(* Offline records are stale. *)

\* Requests write active records, and monitors only write records whose
\* heartbeat has expired.
StaleInv ==
    /\ OfflineIsStale
    /\ \A c \in Call : call[c].pc \in {"register", "write"}
                          => call[c].rec.status = "active"
    /\ \A m \in Monitor : monitor[m].pc = "write"
                             => monitor[m].rec.age > Threshold

LEMMA StaleStep == TypeOK /\ StaleInv /\ [Next]_vars => StaleInv'
  <1> SUFFICES ASSUME TypeOK, StaleInv, [Next]_vars PROVE StaleInv'
    OBVIOUS
  <1> USE DEF history, envVars
  <1>0. /\ stored \in Record
        /\ call \in [Call -> CallType]
        /\ monitor \in [Monitor -> MonitorType]
        /\ Idle.pc = "idle"
    BY DEF TypeOK, CallType, MonitorType, Idle
  <1>1. ASSUME NEW c \in Call, NEW a \in Addr, Register(c, a) PROVE StaleInv'
    BY <1>0, <1>1 DEF Register, StaleInv, OfflineIsStale, CallType
  <1>2. ASSUME NEW c \in Call, Heartbeat(c) PROVE StaleInv'
    BY <1>0, <1>2 DEF Heartbeat, StaleInv, OfflineIsStale, CallType
  <1>3. ASSUME NEW c \in Call, StoreRegistration(c) \/ StoreHeartbeat(c)
        PROVE  StaleInv'
    <2>1. stored'.status = "active"
      BY <1>3 DEF StoreRegistration, StoreHeartbeat, StaleInv
    <2>2. OfflineIsStale'
      BY <2>1 DEF OfflineIsStale
    <2>3. call' = [call EXCEPT ![c] = Idle] /\ monitor' = monitor
      BY <1>3 DEF StoreRegistration, StoreHeartbeat
    <2> QED
      BY <1>0, <2>2, <2>3 DEF StaleInv, CallType
  <1>4. ASSUME NEW c \in Call, GetAgent(c) PROVE StaleInv'
    <2>1. Beaten(stored, call[c].rec.age).status = "active"
      <3>1. call[c].rec.age \in Age
        BY <1>0 DEF CallType, Record
      <3> QED
        BY <1>0, <3>1, RecordOps
    <2>2. call'[c].pc = "write" => call'[c].rec.status = "active"
      BY <1>0, <1>4, <2>1 DEF GetAgent, CallType
    <2>3. call'[c].pc \in {"idle", "write"}
      BY <1>0, <1>4 DEF GetAgent, CallType
    <2>4. \A d \in Call \ {c} : call'[d] = call[d]
      BY <1>0, <1>4 DEF GetAgent
    <2>5. stored' = stored /\ monitor' = monitor
      BY <1>4 DEF GetAgent
    <2> QED
      BY <2>2, <2>3, <2>4, <2>5 DEF StaleInv, OfflineIsStale
  <1>5. ASSUME NEW c \in Call, CallFails(c) PROVE StaleInv'
    BY <1>0, <1>5 DEF CallFails, StaleInv, OfflineIsStale, CallType
  <1>6. ASSUME NEW m \in Monitor, ListAgents(m) PROVE StaleInv'
    BY <1>0, <1>6 DEF ListAgents, StaleInv, OfflineIsStale, MonitorType
  <1>7. ASSUME NEW m \in Monitor, Judge(m) PROVE StaleInv'
    <2>1. monitor'[m].pc = "write" => monitor'[m].rec.age > Threshold
      BY <1>0, <1>7 DEF Judge, Expired, MonitorType
    <2>2. \A k \in Monitor \ {m} : monitor'[k] = monitor[k]
      BY <1>0, <1>7 DEF Judge
    <2> QED
      BY <1>7, <2>1, <2>2 DEF Judge, StaleInv, OfflineIsStale
  <1>8. ASSUME NEW m \in Monitor, MarkOffline(m) PROVE StaleInv'
    <2>1. stored'.age > Threshold
      <3>1. monitor[m].rec \in Record /\ 0 \in Age
        BY <1>0 DEF MonitorType, Age
      <3>2. Marked(monitor[m].rec).age = monitor[m].rec.age
        BY <3>1, RecordOps
      <3> QED
        BY <1>8, <3>2 DEF MarkOffline, StaleInv
    <2>2. monitor' = [monitor EXCEPT ![m] = Idle] /\ call' = call
      BY <1>8 DEF MarkOffline
    <2> QED
      BY <1>0, <2>1, <2>2 DEF StaleInv, OfflineIsStale, MonitorType
  <1>9. ASSUME NEW m \in Monitor, MonitorFails(m) PROVE StaleInv'
    BY <1>0, <1>9 DEF MonitorFails, StaleInv, OfflineIsStale, MonitorType
  <1>10. CASE Tick
    <2>1. OfflineIsStale'
      BY <1>0, <1>10, TickCopies, TickRecord DEF StaleInv, OfflineIsStale
    <2>2. ASSUME NEW c \in Call, call'[c].pc \in {"register", "write"}
          PROVE  call'[c].rec.status = "active"
      BY <1>0, <1>10, <2>2, TickCopies, OlderCallType DEF StaleInv
    <2>3. ASSUME NEW m \in Monitor, monitor'[m].pc = "write"
          PROVE  monitor'[m].rec.age > Threshold
      <3>1. monitor[m].rec \in Record
        BY <1>0 DEF MonitorType
      <3> QED
        BY <1>10, <2>3, <3>1, TickCopies, TickRecord DEF StaleInv
    <2> QED
      BY <2>1, <2>2, <2>3 DEF StaleInv
  <1>11. CASE AgentStops \/ UNCHANGED vars
    BY <1>11 DEF AgentStops, vars, StaleInv, OfflineIsStale
  <1>12. ASSUME NEW c \in Call, Heartbeat(c) \/ CallStep(c) \/ CallFails(c)
         PROVE  StaleInv'
    BY <1>12, <1>2, <1>3, <1>4, <1>5 DEF CallStep
  <1>13. ASSUME NEW m \in Monitor, MonitorStep(m) \/ MonitorFails(m)
         PROVE  StaleInv'
    BY <1>13, <1>6, <1>7, <1>8, <1>9 DEF MonitorStep
  <1> QED
    BY <1>1, <1>10, <1>11, <1>12, <1>13, Zenon DEF Next

LEMMA StaleInit == Init => StaleInv
  BY DEF Init, StaleInv, OfflineIsStale, Idle, NoRecord

(* No mixture of a fresh heartbeat and the status offline is ever stored,  *)
(* however many requests and monitors overwrite each other's records.      *)
THEOREM OfflineRecordsAreStale == Spec => []OfflineIsStale
  <1>1. Init => TypeOK /\ StaleInv
    BY TypeInit, StaleInit
  <1>2. TypeOK /\ StaleInv /\ [Next]_vars => (TypeOK /\ StaleInv)'
    BY TypeStep, StaleStep
  <1>3. StaleInv => OfflineIsStale
    BY DEF StaleInv
  <1> QED
    BY <1>1, <1>2, <1>3, PTL DEF Spec

-----------------------------------------------------------------------------
(* Offline needs silence. *)

\* While no operation has taken longer than a tick and the newest heartbeat
\* is within the threshold, whatever is under way began in this tick: requests
\* carry the present time and monitors a record that has not expired.
SilenceInv ==
    silence <= Threshold =>
        /\ Known => stored.age <= silence
        /\ \A c \in Call : call[c].pc # "idle" => call[c].rec.age = 0
        /\ \A m \in Monitor : monitor[m].pc # "idle"
                                 => monitor[m].rec.age <= Threshold

LEMMA SilenceStep ==
    TypeOK /\ StaleInv /\ SilenceInv /\ [Next]_vars => SilenceInv'
  <1> SUFFICES ASSUME TypeOK, StaleInv, SilenceInv, [Next]_vars
               PROVE  SilenceInv'
    OBVIOUS
  <1> USE DEF history, envVars
  <1>0. /\ stored \in Record /\ stored.age \in Nat
        /\ call \in [Call -> CallType]
        /\ monitor \in [Monitor -> MonitorType]
        /\ silence \in Age /\ silence \in Nat
        /\ Idle.pc = "idle"
    BY DEF TypeOK, CallType, MonitorType, Idle, Record, Age
  <1>1. ASSUME NEW c \in Call, NEW a \in Addr, Register(c, a)
        PROVE  SilenceInv'
    BY <1>0, <1>1 DEF Register, SilenceInv, Known, CallType
  <1>2. ASSUME NEW c \in Call, Heartbeat(c) PROVE SilenceInv'
    BY <1>0, <1>2, NoRecordType DEF Heartbeat, SilenceInv, Known, CallType
  <1>3. ASSUME NEW c \in Call, StoreRegistration(c) \/ StoreHeartbeat(c)
        PROVE  SilenceInv'
    <2> SUFFICES ASSUME silence' <= Threshold PROVE SilenceInv'
      BY DEF SilenceInv
    <2>1. /\ call' = [call EXCEPT ![c] = Idle]
          /\ monitor' = monitor
          /\ stored' = call[c].rec
          /\ call[c].pc # "idle"
          /\ Heard(call[c].rec.age)
      BY <1>3 DEF StoreRegistration, StoreHeartbeat
    <2>2. silence <= Threshold
      BY <1>0, <2>1 DEF Heard
    <2>3. stored'.age = 0
      BY <2>1, <2>2 DEF SilenceInv
    <2>4. silence' \in Nat
      BY <1>0, <2>1, <2>3 DEF Heard
    <2>5. stored'.age <= silence'
      BY <2>3, <2>4
    <2>6. \A d \in Call : call'[d].pc # "idle" => call'[d].rec.age = 0
      BY <1>0, <2>1, <2>2 DEF SilenceInv, CallType
    <2> QED
      BY <2>1, <2>2, <2>5, <2>6 DEF SilenceInv
  <1>4. ASSUME NEW c \in Call, GetAgent(c) PROVE SilenceInv'
    <2> SUFFICES ASSUME silence' <= Threshold PROVE SilenceInv'
      BY DEF SilenceInv
    <2>1. silence' = silence /\ stored' = stored /\ monitor' = monitor
          /\ call[c].pc # "idle"
      BY <1>4 DEF GetAgent
    <2>2. call[c].rec.age = 0 /\ 0 \in Age
      BY <2>1 DEF SilenceInv, Age
    <2>3. Beaten(stored, call[c].rec.age).age = 0
      BY <1>0, <2>2, RecordOps
    <2>4. call'[c].pc # "idle" => call'[c].rec.age = 0
      BY <1>0, <1>4, <2>3 DEF GetAgent, CallType
    <2>5. \A d \in Call \ {c} : call'[d] = call[d]
      BY <1>0, <1>4 DEF GetAgent
    <2> QED
      BY <2>1, <2>4, <2>5 DEF SilenceInv, Known
  <1>5. ASSUME NEW c \in Call, CallFails(c) PROVE SilenceInv'
    BY <1>0, <1>5 DEF CallFails, SilenceInv, Known, CallType
  <1>6. ASSUME NEW m \in Monitor, ListAgents(m) PROVE SilenceInv'
    BY <1>0, <1>6 DEF ListAgents, SilenceInv, Known, MonitorType
  <1>7. ASSUME NEW m \in Monitor, Judge(m) PROVE SilenceInv'
    <2>1. /\ monitor'[m].pc # "idle" => monitor'[m].rec = monitor[m].rec
          /\ monitor[m].pc # "idle"
      BY <1>0, <1>7 DEF Judge, MonitorType
    <2>2. \A k \in Monitor \ {m} : monitor'[k] = monitor[k]
      BY <1>0, <1>7 DEF Judge
    <2>3. silence' = silence /\ stored' = stored /\ call' = call
      BY <1>7 DEF Judge
    <2> QED
      BY <2>1, <2>2, <2>3 DEF SilenceInv, Known
  <1>8. ASSUME NEW m \in Monitor, MarkOffline(m) PROVE SilenceInv'
    <2>1. monitor[m].rec.age \in Nat /\ monitor[m].rec.age > Threshold
      BY <1>0, <1>8 DEF MarkOffline, StaleInv, MonitorType, Record, Age
    <2>2. ~(silence <= Threshold)
      BY <1>8, <2>1 DEF MarkOffline, SilenceInv
    <2> QED
      BY <1>8, <2>2 DEF MarkOffline, SilenceInv
  <1>9. ASSUME NEW m \in Monitor, MonitorFails(m) PROVE SilenceInv'
    BY <1>0, <1>9 DEF MonitorFails, SilenceInv, Known, MonitorType
  <1>10. CASE Tick
    <2> SUFFICES ASSUME silence' <= Threshold PROVE SilenceInv'
      BY DEF SilenceInv
    <2>1. /\ ~Busy
          /\ silence' = IF Known THEN Older(silence) ELSE silence
          /\ silence <= Threshold
      <3>1. ~Busy
        BY <1>10 DEF Tick
      <3>2. silence' = IF Known THEN Older(silence) ELSE silence
        BY <1>10, <3>1 DEF Tick
      <3>3. silence <= Threshold
        BY <1>0, <3>2 DEF Older, Age
      <3> QED
        BY <3>1, <3>2, <3>3
    <2>2. stored' # NoRecord => stored'.age <= silence'
      <3> SUFFICES ASSUME stored' # NoRecord PROVE stored'.age <= silence'
        OBVIOUS
      <3>1. Known /\ stored' = OlderRecord(stored)
        BY <1>0, <1>10, TickCopies, TickRecord DEF Known
      <3>2. stored'.age = Older(stored.age)
        BY <1>0, <3>1 DEF OlderRecord, Known, Record
      <3>3. stored.age <= silence
        BY <2>1, <3>1 DEF SilenceInv
      <3> QED
        BY <1>0, <2>1, <3>1, <3>2, <3>3 DEF Older, Age
    <2>3. \A c \in Call : call'[c].pc = "idle"
      BY <1>0, <1>10, <2>1, TickCopies, OlderCallType DEF Busy
    <2>4. \A m \in Monitor : monitor'[m].pc = "idle"
      BY <1>10, <2>1, TickCopies DEF Busy
    <2> QED
      BY <2>2, <2>3, <2>4 DEF SilenceInv, Known
  <1>11. CASE AgentStops \/ UNCHANGED vars
    BY <1>11 DEF AgentStops, vars, SilenceInv, Known
  <1>12. ASSUME NEW c \in Call, Heartbeat(c) \/ CallStep(c) \/ CallFails(c)
         PROVE  SilenceInv'
    BY <1>12, <1>2, <1>3, <1>4, <1>5 DEF CallStep
  <1>13. ASSUME NEW m \in Monitor, MonitorStep(m) \/ MonitorFails(m)
         PROVE  SilenceInv'
    BY <1>13, <1>6, <1>7, <1>8, <1>9 DEF MonitorStep
  <1> QED
    BY <1>1, <1>10, <1>11, <1>12, <1>13, Zenon DEF Next

LEMMA SilenceInit == Init => SilenceInv
  BY DEF Init, SilenceInv, Known, Idle

LEMMA OfflineFromInv ==
    TypeOK /\ StaleInv /\ SilenceInv => OfflineNeedsSilence
  <1> SUFFICES ASSUME TypeOK, StaleInv, SilenceInv, stored.status = "offline"
               PROVE  silence > Threshold
    BY DEF OfflineNeedsSilence
  <1>1. stored.age > Threshold /\ stored.age \in Nat /\ silence \in Nat
    BY DEF TypeOK, StaleInv, OfflineIsStale, Record, Age
  <1>2. Known
    BY DEF Known, NoRecord
  <1> QED
    BY <1>1, <1>2 DEF SilenceInv

(* For every threshold, and any number of requests and monitors: as long   *)
(* as operations end within a tick, an agent whose heartbeats arrive       *)
(* within the threshold is never shown offline.                            *)
THEOREM OfflineOnlyIfSilent == Spec => []OfflineNeedsSilence
  <1> DEFINE Inv == TypeOK /\ StaleInv /\ SilenceInv
  <1>1. Init => Inv
    BY TypeInit, StaleInit, SilenceInit
  <1>2. Inv /\ [Next]_vars => Inv'
    BY TypeStep, StaleStep, SilenceStep
  <1>3. Inv => OfflineNeedsSilence
    BY OfflineFromInv
  <1> HIDE DEF Inv
  <1> QED
    BY <1>1, <1>2, <1>3, PTL DEF Spec

-----------------------------------------------------------------------------
(* Registrations are kept. *)

\* Unless the last registration raced with a copy, every copy carries it.
KeptInv ==
    ~raced =>
        /\ Known => stored.addr = registered
        /\ \A c \in Call : call[c].pc = "write" => call[c].rec.addr = registered
        /\ \A m \in Monitor : monitor[m].pc # "idle"
                                 => monitor[m].rec.addr = registered

LEMMA KeptStep == TypeOK /\ KeptInv /\ [Next]_vars => KeptInv'
  <1> SUFFICES ASSUME TypeOK, KeptInv, [Next]_vars PROVE KeptInv'
    OBVIOUS
  <1> USE DEF history, envVars
  <1>0. /\ stored \in Record
        /\ call \in [Call -> CallType]
        /\ monitor \in [Monitor -> MonitorType]
        /\ Idle.pc = "idle"
    BY DEF TypeOK, CallType, MonitorType, Idle
  <1>1. ASSUME NEW c \in Call, NEW a \in Addr, Register(c, a) PROVE KeptInv'
    BY <1>0, <1>1 DEF Register, KeptInv, Known, CallType
  <1>2. ASSUME NEW c \in Call, Heartbeat(c) PROVE KeptInv'
    BY <1>0, <1>2 DEF Heartbeat, KeptInv, Known, CallType
  <1>3. ASSUME NEW c \in Call, StoreRegistration(c) PROVE KeptInv'
    <2> SUFFICES ASSUME ~raced' PROVE KeptInv'
      BY DEF KeptInv
    <2>1. /\ \A d \in Call : call[d].pc # "write"
          /\ \A m \in Monitor : monitor[m].pc = "idle"
      BY <1>3 DEF StoreRegistration, Copied
    <2>2. /\ call' = [call EXCEPT ![c] = Idle]
          /\ monitor' = monitor
          /\ stored'.addr = registered'
      BY <1>3 DEF StoreRegistration
    <2> QED
      BY <1>0, <2>1, <2>2 DEF KeptInv, CallType
  <1>4. ASSUME NEW c \in Call, GetAgent(c) PROVE KeptInv'
    <2>1. Beaten(stored, call[c].rec.age).addr = stored.addr
      <3>1. call[c].rec.age \in Age
        BY <1>0 DEF CallType, Record
      <3> QED
        BY <1>0, <3>1, RecordOps
    <2>2. call'[c].pc = "write" => Known /\ call'[c].rec.addr = stored.addr
      BY <1>0, <1>4, <2>1 DEF GetAgent, CallType
    <2>3. \A d \in Call \ {c} : call'[d] = call[d]
      BY <1>0, <1>4 DEF GetAgent
    <2>4. UNCHANGED <<stored, monitor, registered, raced>>
      BY <1>4 DEF GetAgent
    <2> QED
      BY <2>2, <2>3, <2>4 DEF KeptInv, Known
  <1>5. ASSUME NEW c \in Call, StoreHeartbeat(c) PROVE KeptInv'
    BY <1>0, <1>5 DEF StoreHeartbeat, KeptInv, CallType
  <1>6. ASSUME NEW c \in Call, CallFails(c) PROVE KeptInv'
    BY <1>0, <1>6 DEF CallFails, KeptInv, Known, CallType
  <1>7. ASSUME NEW m \in Monitor, ListAgents(m) PROVE KeptInv'
    BY <1>0, <1>7 DEF ListAgents, KeptInv, Known, MonitorType
  <1>8. ASSUME NEW m \in Monitor, Judge(m) PROVE KeptInv'
    <2>1. /\ monitor'[m].pc # "idle" => monitor'[m].rec = monitor[m].rec
          /\ monitor[m].pc # "idle"
      BY <1>0, <1>8 DEF Judge, MonitorType
    <2>2. \A k \in Monitor \ {m} : monitor'[k] = monitor[k]
      BY <1>0, <1>8 DEF Judge
    <2>3. UNCHANGED <<stored, call, registered, raced>>
      BY <1>8 DEF Judge
    <2> QED
      BY <2>1, <2>2, <2>3 DEF KeptInv, Known
  <1>9. ASSUME NEW m \in Monitor, MarkOffline(m) PROVE KeptInv'
    <2>1. Marked(monitor[m].rec).addr = monitor[m].rec.addr
      <3>1. monitor[m].rec \in Record /\ 0 \in Age
        BY <1>0 DEF MonitorType, Age
      <3> QED
        BY <3>1, RecordOps
    <2> QED
      BY <1>0, <1>9, <2>1 DEF MarkOffline, KeptInv, MonitorType
  <1>10. ASSUME NEW m \in Monitor, MonitorFails(m) PROVE KeptInv'
    BY <1>0, <1>10 DEF MonitorFails, KeptInv, Known, MonitorType
  <1>11. CASE Tick
    <2>1. registered' = registered /\ raced' = raced
      BY <1>11 DEF Tick
    <2>2. stored' # NoRecord => Known /\ stored'.addr = stored.addr
      BY <1>0, <1>11, TickCopies, TickRecord DEF Known
    <2>3. \A c \in Call : /\ call'[c].pc = call[c].pc
                          /\ call'[c].rec.addr = call[c].rec.addr
      BY <1>0, <1>11, TickCopies, OlderCallType
    <2>4. ASSUME NEW m \in Monitor
          PROVE  /\ monitor'[m].pc = monitor[m].pc
                 /\ monitor'[m].rec.addr = monitor[m].rec.addr
      <3>1. monitor[m].rec \in Record
        BY <1>0 DEF MonitorType
      <3> QED
        BY <1>11, <3>1, TickCopies, TickRecord
    <2> QED
      BY <2>1, <2>2, <2>3, <2>4 DEF KeptInv, Known
  <1>12. CASE AgentStops \/ UNCHANGED vars
    BY <1>12 DEF AgentStops, vars, KeptInv, Known
  <1>13. ASSUME NEW c \in Call, Heartbeat(c) \/ CallStep(c) \/ CallFails(c)
         PROVE  KeptInv'
    BY <1>13, <1>2, <1>3, <1>4, <1>5, <1>6 DEF CallStep
  <1>14. ASSUME NEW m \in Monitor, MonitorStep(m) \/ MonitorFails(m)
         PROVE  KeptInv'
    BY <1>14, <1>7, <1>8, <1>9, <1>10 DEF MonitorStep
  <1> QED
    BY <1>1, <1>11, <1>12, <1>13, <1>14, Zenon DEF Next

LEMMA KeptInit == Init => KeptInv
  BY DEF Init, KeptInv, Known, Idle

(* Only an operation that read the record before a registration can undo   *)
(* it, whatever else happens and however much later it writes.             *)
THEOREM RegistrationsAreKept == Spec => []RegistrationKept
  <1>1. Init => TypeOK /\ KeptInv
    BY TypeInit, KeptInit
  <1>2. TypeOK /\ KeptInv /\ [Next]_vars => (TypeOK /\ KeptInv)'
    BY TypeStep, KeptStep
  <1>3. KeptInv => RegistrationKept
    BY DEF KeptInv, RegistrationKept
  <1> QED
    BY <1>1, <1>2, <1>3, PTL DEF Spec
=============================================================================
