--------------------------- MODULE LocalMeshProofs ---------------------------
(***************************************************************************)
(* Theorems about the local mesh: the election of its broker, and what     *)
(* becomes of a message between two agents.                                *)
(***************************************************************************)
EXTENDS LeaderElection, MeshDelivery, SequenceTheorems, TLAPS

-----------------------------------------------------------------------------
(***************************************************************************)
(* The inductive invariant of the broker election, for any number of       *)
(* processes and every value of the bounds.                                *)
(***************************************************************************)

\* The constructor's fields and an empty or stale path satisfy the invariant.
LEMMA InitElection == Init => ElectionInv
  <1> SUFFICES ASSUME Init PROVE ElectionInv
    OBVIOUS
  <1> USE ElectionConstants
  <1>1. TypeOK
    <2>1. NoConn \in Conn /\ NotRunning \in [Kinds -> Points] /\ "start" \in Kinds
      BY DEF NoConn, Conn, Kinds, NotRunning, Points
    <2>2. published \in [Procs -> BOOLEAN] /\ watching \in [Procs -> BOOLEAN]
          /\ left \in [Procs -> BOOLEAN] /\ lost \in [Procs -> BOOLEAN]
      BY Zenon DEF Init
    <2> QED
      BY <2>1, <2>2 DEF Init, TypeOK, FilesOK, FieldsOK, ConnsOK, TasksOK, HistoryOK
  <1>2. OneOwner /\ BrokersServe /\ LinksLive
    BY DEF Init, OneOwner, BrokersServe, LinksLive
  <1>3. VerdictsSound
    BY DEF Init, VerdictsSound, NotRunning
  <1> QED
    BY <1>1, <1>2, <1>3 DEF ElectionInv

\* Every step keeps each field within its type.
LEMMA NextType == ElectionInv /\ [Next]_vars => TypeOK'
  <1> SUFFICES ASSUME ElectionInv, [Next]_vars PROVE TypeOK'
    OBVIOUS
  <1> USE ElectionConstants DEF files, fields, conns, tasks, history
  <1>1. FilesOK /\ FieldsOK /\ ConnsOK /\ TasksOK /\ HistoryOK
    BY DEF ElectionInv, TypeOK
  <1>k. /\ "start" \in Kinds /\ "watch" \in Kinds /\ Rejoins \subseteq Kinds
        /\ \A c \in Conn : c[2] \in Kinds
    BY DEF Kinds, Conn
  <1>t. /\ NoConn \in Conn /\ NotRunning \in [Kinds -> Points]
        /\ \A k \in Kinds : <<path, k>> \in Conn
        /\ \A p \in Procs : {broker[p]} \ {0} \subseteq Listeners
        /\ \A p \in Procs, k \in Kinds :
              /\ target[p][k] \in Conn
              /\ ({target[p][k][1]} \cap orphans) \subseteq Listeners
    BY <1>1 DEF NoConn, Conn, Kinds, NotRunning, Points, Listeners, FilesOK,
                FieldsOK, TasksOK
  <1>2. CASE UNCHANGED vars
    BY <1>1, <1>2 DEF vars, TypeOK, FilesOK, FieldsOK, ConnsOK, TasksOK, HistoryOK
  <1>3. ASSUME NEW p \in Procs, NEW k \in Kinds, joinOrLead(p, k) PROVE TypeOK'
    <2>1. CASE Exists(p, k)
      <3>1. FilesOK'
        BY <1>1, <2>1 DEF FilesOK, Exists
      <3>2. FieldsOK'
        BY <1>1, <2>1 DEF FieldsOK, Exists
      <3>3. ConnsOK'
        BY <1>1, <2>1 DEF ConnsOK, Exists
      <3>4. TasksOK'
        BY <1>1, <1>t, <2>1 DEF TasksOK, Exists, Goto, Points
      <3>5. HistoryOK'
        BY <1>1, <2>1 DEF HistoryOK, Exists
      <3> QED
        BY <3>1, <3>2, <3>3, <3>4, <3>5 DEF TypeOK
    <2>2. CASE Connect(p, k)
      <3>1. FilesOK'
        BY <1>1, <2>2 DEF FilesOK, Connect
      <3>2. FieldsOK'
        BY <1>1, <2>2 DEF FieldsOK, Connect
      <3>3. ConnsOK'
        BY <1>1, <2>2 DEF ConnsOK, Connect
      <3>4. TasksOK'
        BY <1>1, <1>t, <2>2 DEF TasksOK, Connect, Goto, Points
      <3>5. HistoryOK'
        BY <1>1, <2>2 DEF HistoryOK, Connect
      <3> QED
        BY <3>1, <3>2, <3>3, <3>4, <3>5 DEF TypeOK
    <2>3. CASE ProbeLive(p, k)
      <3>1. FilesOK'
        BY <1>1, <2>3 DEF FilesOK, ProbeLive
      <3>2. FieldsOK'
        BY <1>1, <1>t, <1>k, <2>3 DEF FieldsOK, ProbeLive, Wire
      <3>3. ConnsOK'
        BY <1>1, <1>t, <2>3 DEF ConnsOK, ProbeLive, Wire
      <3>4. TasksOK'
        BY <1>1, <1>t, <2>3 DEF TasksOK, ProbeLive, Goto, Points
      <3>5. HistoryOK'
        BY <1>1, <1>t, <2>3 DEF HistoryOK, ProbeLive, Abandon, Listeners
      <3> QED
        BY <3>1, <3>2, <3>3, <3>4, <3>5 DEF TypeOK
    <2>4. CASE ProbeDead(p, k)
      <3>1. FilesOK'
        BY <1>1, <2>4 DEF FilesOK, ProbeDead
      <3>2. FieldsOK'
        BY <1>1, <2>4 DEF FieldsOK, ProbeDead
      <3>3. ConnsOK'
        BY <1>1, <2>4 DEF ConnsOK, ProbeDead
      <3>4. TasksOK'
        BY <1>1, <1>t, <2>4 DEF TasksOK, ProbeDead, Goto, Points
      <3>5. HistoryOK'
        BY <1>1, <2>4 DEF HistoryOK, ProbeDead
      <3> QED
        BY <3>1, <3>2, <3>3, <3>4, <3>5 DEF TypeOK
    <2>5. CASE ProbeBusy(p, k)
      <3>1. FilesOK'
        BY <1>1, <2>5 DEF FilesOK, ProbeBusy
      <3>2. FieldsOK'
        BY <1>1, <2>5 DEF FieldsOK, ProbeBusy
      <3>3. ConnsOK'
        BY <1>1, <2>5 DEF ConnsOK, ProbeBusy
      <3>4. TasksOK'
        BY <1>1, <1>t, <2>5 DEF TasksOK, ProbeBusy, Goto, Points
      <3>5. HistoryOK'
        BY <1>1, <2>5 DEF HistoryOK, ProbeBusy
      <3> QED
        BY <3>1, <3>2, <3>3, <3>4, <3>5 DEF TypeOK
    <2>6. CASE ProbeTooBusy(p, k)
      <3>1. FilesOK'
        BY <1>1, <2>6 DEF FilesOK, ProbeTooBusy
      <3>2. FieldsOK'
        BY <1>1, <2>6 DEF FieldsOK, ProbeTooBusy
      <3>3. ConnsOK'
        BY <1>1, <2>6 DEF ConnsOK, ProbeTooBusy
      <3>4. TasksOK'
        BY <1>1, <1>t, <2>6 DEF TasksOK, ProbeTooBusy, Goto, EndJoin, GiveUp, Points
      <3>5. HistoryOK'
        BY <1>1, <1>t, <2>6 DEF HistoryOK, ProbeTooBusy, GiveUp, Listeners
      <3> QED
        BY <3>1, <3>2, <3>3, <3>4, <3>5 DEF TypeOK
    <2>7. CASE removeStaleSock(p, k)
      <3>1. FilesOK'
        BY <1>1, <1>t, <2>7 DEF FilesOK, removeStaleSock
      <3>2. FieldsOK'
        BY <1>1, <2>7 DEF FieldsOK, removeStaleSock
      <3>3. ConnsOK'
        BY <1>1, <2>7 DEF ConnsOK, removeStaleSock
      <3>4. TasksOK'
        BY <1>1, <1>t, <2>7 DEF TasksOK, removeStaleSock, Goto, Points
      <3>5. HistoryOK'
        BY <1>1, <2>7 DEF HistoryOK, removeStaleSock
      <3> QED
        BY <3>1, <3>2, <3>3, <3>4, <3>5 DEF TypeOK
    <2>8. CASE BindOk(p, k)
      <3>1. FilesOK'
        BY <1>1, <1>t, <2>8 DEF FilesOK, BindOk
      <3>2. FieldsOK'
        BY <1>1, <2>8 DEF FieldsOK, FilesOK, BindOk
      <3>3. ConnsOK'
        BY <1>1, <2>8 DEF ConnsOK, BindOk
      <3>4. TasksOK'
        BY <1>1, <1>t, <2>8 DEF TasksOK, BindOk, Goto, Points
      <3>5. HistoryOK'
        BY <1>1, <1>t, <2>8 DEF HistoryOK, BindOk, Abandon, Listeners
      <3> QED
        BY <3>1, <3>2, <3>3, <3>4, <3>5 DEF TypeOK
    <2>9. CASE BindInUse(p, k)
      <3>1. FilesOK'
        BY <1>1, <2>9 DEF FilesOK, BindInUse
      <3>2. FieldsOK'
        BY <1>1, <2>9 DEF FieldsOK, BindInUse
      <3>3. ConnsOK'
        BY <1>1, <2>9 DEF ConnsOK, BindInUse
      <3>4. TasksOK'
        BY <1>1, <1>t, <2>9 DEF TasksOK, BindInUse, Goto, Points
      <3>5. HistoryOK'
        BY <1>1, <2>9 DEF HistoryOK, BindInUse
      <3> QED
        BY <3>1, <3>2, <3>3, <3>4, <3>5 DEF TypeOK
    <2>10. CASE BindTooOften(p, k)
      <3>1. FilesOK'
        BY <1>1, <2>10 DEF FilesOK, BindTooOften
      <3>2. FieldsOK'
        BY <1>1, <2>10 DEF FieldsOK, BindTooOften
      <3>3. ConnsOK'
        BY <1>1, <2>10 DEF ConnsOK, BindTooOften
      <3>4. TasksOK'
        BY <1>1, <1>t, <2>10 DEF TasksOK, BindTooOften, Goto, EndJoin, GiveUp, Points
      <3>5. HistoryOK'
        BY <1>1, <1>t, <2>10 DEF HistoryOK, BindTooOften, GiveUp, Listeners
      <3> QED
        BY <3>1, <3>2, <3>3, <3>4, <3>5 DEF TypeOK
    <2>11. CASE LoopbackOk(p, k)
      <3>1. FilesOK'
        BY <1>1, <2>11 DEF FilesOK, LoopbackOk
      <3>2. FieldsOK'
        BY <1>1, <1>t, <2>11 DEF FieldsOK, LoopbackOk, Wire
      <3>3. ConnsOK'
        BY <1>1, <1>t, <2>11 DEF ConnsOK, LoopbackOk, Wire
      <3>4. TasksOK'
        BY <1>1, <1>t, <2>11 DEF TasksOK, LoopbackOk, Goto, Points
      <3>5. HistoryOK'
        BY <1>1, <2>11 DEF HistoryOK, LoopbackOk
      <3> QED
        BY <3>1, <3>2, <3>3, <3>4, <3>5 DEF TypeOK
    <2>12. CASE LoopbackRefused(p, k)
      <3>1. FilesOK'
        BY <1>1, <2>12 DEF FilesOK, LoopbackRefused
      <3>2. FieldsOK'
        BY <1>1, <2>12 DEF FieldsOK, LoopbackRefused
      <3>3. ConnsOK'
        BY <1>1, <2>12 DEF ConnsOK, LoopbackRefused
      <3>4. TasksOK'
        BY <1>1, <1>t, <2>12 DEF TasksOK, LoopbackRefused, Goto, EndJoin, GiveUp, Points
      <3>5. HistoryOK'
        BY <1>1, <1>t, <2>12 DEF HistoryOK, LoopbackRefused, Abandon, GiveUp, Listeners
      <3> QED
        BY <3>1, <3>2, <3>3, <3>4, <3>5 DEF TypeOK
    <2>13. CASE LoopbackDestroyed(p, k)
      <3>1. FilesOK'
        BY <1>1, <2>13 DEF FilesOK, LoopbackDestroyed
      <3>2. FieldsOK'
        BY <1>1, <1>t, <2>13 DEF FieldsOK, LoopbackDestroyed
      <3>3. ConnsOK'
        BY <1>1, <1>t, <2>13 DEF ConnsOK, LoopbackDestroyed
      <3>4. TasksOK'
        BY <1>1, <1>t, <2>13 DEF TasksOK, LoopbackDestroyed, Goto, EndJoin, Points
      <3>5. HistoryOK'
        BY <1>1, <1>t, <2>13 DEF HistoryOK, LoopbackDestroyed, Abandon, Listeners
      <3> QED
        BY <3>1, <3>2, <3>3, <3>4, <3>5 DEF TypeOK
    <2>14. CASE RegisterAck(p, k)
      <3>1. FilesOK'
        BY <1>1, <2>14 DEF FilesOK, RegisterAck
      <3>2. FieldsOK'
        BY <1>1, <2>14 DEF FieldsOK, FilesOK, RegisterAck
      <3>3. ConnsOK'
        BY <1>1, <2>14 DEF ConnsOK, RegisterAck
      <3>4. TasksOK'
        BY <1>1, <1>t, <2>14 DEF TasksOK, RegisterAck, Goto, EndJoin, Points
      <3>5. HistoryOK'
        BY <1>1, <1>t, <2>14 DEF HistoryOK, RegisterAck, Listeners
      <3> QED
        BY <3>1, <3>2, <3>3, <3>4, <3>5 DEF TypeOK
    <2>15. CASE RegisterClosed(p, k)
      <3>1. FilesOK'
        BY <1>1, <2>15 DEF FilesOK, RegisterClosed
      <3>2. FieldsOK'
        BY <1>1, <2>15 DEF FieldsOK, RegisterClosed
      <3>3. ConnsOK'
        BY <1>1, <1>t, <2>15 DEF ConnsOK, RegisterClosed
      <3>4. TasksOK'
        BY <1>1, <1>t, <2>15 DEF TasksOK, RegisterClosed, Goto, EndJoin, Points
      <3>5. HistoryOK'
        BY <1>1, <1>t, <2>15 DEF HistoryOK, RegisterClosed, Listeners
      <3> QED
        BY <3>1, <3>2, <3>3, <3>4, <3>5 DEF TypeOK
    <2>16. CASE RegisterUnheard(p, k)
      <3>1. FilesOK'
        BY <1>1, <2>16 DEF FilesOK, RegisterUnheard
      <3>2. FieldsOK'
        BY <1>1, <2>16 DEF FieldsOK, RegisterUnheard
      <3>3. ConnsOK'
        BY <1>1, <2>16 DEF ConnsOK, RegisterUnheard
      <3>4. TasksOK'
        BY <1>1, <1>t, <2>16 DEF TasksOK, RegisterUnheard, Goto, EndJoin, GiveUp, Points
      <3>5. HistoryOK'
        BY <1>1, <1>t, <2>16 DEF HistoryOK, RegisterUnheard, GiveUp, Listeners
      <3> QED
        BY <3>1, <3>2, <3>3, <3>4, <3>5 DEF TypeOK
    <2> QED
      BY <1>3, <2>1, <2>2, <2>3, <2>4, <2>5, <2>6, <2>7, <2>8, <2>9, <2>10, <2>11,
         <2>12, <2>13, <2>14, <2>15, <2>16 DEF joinOrLead
  <1>4. ASSUME NEW p \in Procs, NEW k \in Kinds, RegisterRejected(p, k) PROVE TypeOK'
    <2>1. FilesOK'
      BY <1>1, <1>4 DEF FilesOK, RegisterRejected
    <2>2. FieldsOK'
      BY <1>1, <1>4 DEF FieldsOK, RegisterRejected
    <2>3. ConnsOK'
      BY <1>1, <1>4 DEF ConnsOK, RegisterRejected
    <2>4. TasksOK'
      BY <1>1, <1>t, <1>4 DEF TasksOK, RegisterRejected, Goto, EndJoin, GiveUp, Points, Fault
    <2>5. HistoryOK'
      BY <1>1, <1>t, <1>4 DEF HistoryOK, RegisterRejected, GiveUp, Listeners
    <2> QED
      BY <2>1, <2>2, <2>3, <2>4, <2>5 DEF TypeOK
  <1>d. ASSUME NEW p \in Procs, NEW Cs, NEW L, Destroy(p, Cs, L) PROVE ConnsOK'
    BY <1>1, <1>d DEF ConnsOK, Destroy
  <1>5. ASSUME NEW p \in Procs, teardownConn(p)
        PROVE  /\ path' = path /\ orphans' \subseteq 1..binds
               /\ broker' \in [Procs -> 0..MaxBinds] /\ sock' \in [Procs -> Conn]
               /\ ino' \in [Procs -> 0..MaxBinds]
               /\ watching' \in [Procs -> BOOLEAN]
               /\ ConnsOK'
    <2>1. ConnsOK'
      BY <1>5, <1>d DEF teardownConn
    <2>2. orphans' \subseteq 1..binds
      <3>1. broker[p] # 0 => broker[p] \in mine[p]
        BY DEF ElectionInv, BrokersServe
      <3> QED
        BY <1>1, <1>5, <3>1 DEF FilesOK, teardownConn
    <2> QED
      BY <1>1, <1>t, <1>5, <2>1, <2>2 DEF FieldsOK, teardownConn
  <1>6. ASSUME NEW p \in Procs, start(p) PROVE TypeOK'
    <2>1. FilesOK'
      BY <1>1, <1>6 DEF FilesOK, start
    <2>2. FieldsOK'
      BY <1>1, <1>6 DEF FieldsOK, start
    <2>3. ConnsOK'
      BY <1>1, <1>6 DEF ConnsOK, start
    <2>4. TasksOK'
      BY <1>1, <1>t, <1>k, <1>6 DEF TasksOK, start, Goto, Points, BeginJoin
    <2>5. HistoryOK'
      BY <1>1, <1>6 DEF HistoryOK, start
    <2> QED
      BY <2>1, <2>2, <2>3, <2>4, <2>5 DEF TypeOK
  <1>7. ASSUME NEW p \in Procs, NEW k \in Rejoins, rename(p, k) PROVE TypeOK'
    <2>1. FilesOK'
      BY <1>1, <1>t, <1>7, <1>5 DEF FilesOK, rename
    <2>2. FieldsOK'
      BY <1>1, <1>t, <1>7, <1>5 DEF FieldsOK, rename
    <2>3. ConnsOK'
      BY <1>1, <1>t, <1>7, <1>5 DEF ConnsOK, rename
    <2>4. TasksOK'
      BY <1>1, <1>t, <1>k, <1>7 DEF TasksOK, rename, Goto, Points, BeginJoin, Fault
    <2>5. HistoryOK'
      BY <1>1, <1>7 DEF HistoryOK, rename
    <2> QED
      BY <2>1, <2>2, <2>3, <2>4, <2>5 DEF TypeOK
  <1>8. ASSUME NEW p \in Procs, leave(p) PROVE TypeOK'
    <2>1. FilesOK'
      BY <1>1, <1>t, <1>8, <1>5 DEF FilesOK, leave
    <2>2. FieldsOK'
      BY <1>1, <1>t, <1>8, <1>5 DEF FieldsOK, leave
    <2>3. ConnsOK'
      BY <1>1, <1>t, <1>8, <1>5 DEF ConnsOK, leave
    <2>4. TasksOK'
      BY <1>1, <1>t, <1>8, <1>5 DEF TasksOK, leave, Points, Fault
    <2>5. HistoryOK'
      BY <1>1, <1>8 DEF HistoryOK, leave
    <2> QED
      BY <2>1, <2>2, <2>3, <2>4, <2>5 DEF TypeOK
  <1>9. ASSUME NEW p \in Procs, exit(p) PROVE TypeOK'
    <2>1. FilesOK'
      BY <1>1, <1>9 DEF FilesOK, exit
    <2>2. FieldsOK'
      BY <1>1, <1>t, <1>k, <1>9 DEF FieldsOK, exit
    <2>3. ConnsOK'
      BY <1>9, <1>d DEF exit
    <2>4. TasksOK'
      BY <1>1, <1>t, <1>9 DEF TasksOK, exit, Fault
    <2>5. HistoryOK'
      BY <1>1, <1>9 DEF HistoryOK, exit
    <2> QED
      BY <2>1, <2>2, <2>3, <2>4, <2>5 DEF TypeOK
  <1>10. ASSUME NEW p \in Procs, Recover(p) PROVE TypeOK'
    <2>1. ASSUME NEW k \in Rejoins, onSocketClose(p, k) PROVE TypeOK'
      <3>1. FilesOK'
        BY <1>1, <2>1 DEF FilesOK, onSocketClose
      <3>2. FieldsOK'
        BY <1>1, <2>1 DEF FieldsOK, onSocketClose
      <3>3. ConnsOK'
        BY <1>1, <1>t, <2>1 DEF ConnsOK, onSocketClose
      <3>4. TasksOK'
        BY <1>1, <2>1 DEF TasksOK, FieldsOK, onSocketClose, Goto, Points, Kinds
      <3>5. HistoryOK'
        BY <1>1, <2>1 DEF HistoryOK, onSocketClose
      <3> QED
        BY <3>1, <3>2, <3>3, <3>4, <3>5 DEF TypeOK
    <2>2. ASSUME NEW k \in Rejoins, Failover(p, k) PROVE TypeOK'
      <3>1. FilesOK'
        BY <1>1, <2>2 DEF FilesOK, Failover
      <3>2. FieldsOK'
        BY <1>1, <2>2 DEF FieldsOK, Failover
      <3>3. ConnsOK'
        BY <1>1, <2>2 DEF ConnsOK, Failover
      <3>4. TasksOK'
        <4>1. CASE EndJoin(p, k)
          BY <1>1, <1>t, <1>k, <2>2, <4>1 DEF TasksOK, Failover, Goto, EndJoin, Points
        <4>2. CASE BeginJoin(p, k)
          BY <1>1, <1>t, <1>k, <2>2, <4>2 DEF TasksOK, Failover, Goto, BeginJoin, Points
        <4> QED
          BY <2>2, <4>1, <4>2 DEF Failover
      <3>5. HistoryOK'
        BY <1>1, <2>2 DEF HistoryOK, Failover
      <3> QED
        BY <3>1, <3>2, <3>3, <3>4, <3>5 DEF TypeOK
    <2>3. CASE checkDisplacement(p)
      <3>1. FilesOK'
        BY <1>1, <1>t, <2>3, <1>5 DEF FilesOK, checkDisplacement
      <3>2. FieldsOK'
        BY <1>1, <1>t, <2>3, <1>5 DEF FieldsOK, checkDisplacement
      <3>3. ConnsOK'
        BY <1>1, <1>t, <2>3, <1>5 DEF ConnsOK, checkDisplacement
      <3>4. TasksOK'
        BY <1>1, <1>t, <2>3, <1>5 DEF TasksOK, checkDisplacement, Goto, Points, Kinds
      <3>5. HistoryOK'
        BY <1>1, <2>3 DEF HistoryOK, checkDisplacement
      <3> QED
        BY <3>1, <3>2, <3>3, <3>4, <3>5 DEF TypeOK
    <2>4. CASE Reelect(p)
      <3>1. FilesOK'
        BY <1>1, <2>4 DEF FilesOK, Reelect
      <3>2. FieldsOK'
        BY <1>1, <2>4 DEF FieldsOK, Reelect
      <3>3. ConnsOK'
        BY <1>1, <2>4 DEF ConnsOK, Reelect
      <3>4. TasksOK'
        <4>1. CASE EndJoin(p, "watch")
          BY <1>1, <1>t, <1>k, <2>4, <4>1 DEF TasksOK, Reelect, Goto, EndJoin, Points
        <4>2. CASE BeginJoin(p, "watch")
          BY <1>1, <1>t, <1>k, <2>4, <4>2 DEF TasksOK, Reelect, Goto, BeginJoin, Points
        <4> QED
          BY <2>4, <4>1, <4>2 DEF Reelect
      <3>5. HistoryOK'
        BY <1>1, <2>4 DEF HistoryOK, Reelect
      <3> QED
        BY <3>1, <3>2, <3>3, <3>4, <3>5 DEF TypeOK
    <2> QED
      BY <1>10, <2>1, <2>2, <2>3, <2>4 DEF Recover
  <1> QED
    BY <1>2, <1>3, <1>4, <1>6, <1>7, <1>8, <1>9, <1>10 DEF Next

\* Listeners are never shared, and a process's broker is never an orphan.
LEMMA NextOwners == ElectionInv /\ [Next]_vars => OneOwner' /\ BrokersServe'
  <1> SUFFICES ASSUME ElectionInv, [Next]_vars PROVE OneOwner' /\ BrokersServe'
    OBVIOUS
  <1> USE DEF files, fields, OneOwner, BrokersServe
  <1>1. FilesOK /\ FieldsOK /\ OneOwner /\ BrokersServe
    BY DEF ElectionInv, TypeOK
  <1>2. CASE UNCHANGED <<mine, broker, orphans>>
    BY <1>1, <1>2
  <1>3. ASSUME NEW p \in Procs, teardownConn(p), mine' = mine
        PROVE  OneOwner' /\ BrokersServe'
    BY <1>1, <1>3 DEF teardownConn, FieldsOK
  <1>4. ASSUME NEW p \in Procs, NEW k \in Kinds, BindOk(p, k)
        PROVE  OneOwner' /\ BrokersServe'
    <2>1. /\ mine' = [mine EXCEPT ![p] = @ \cup {binds + 1}]
          /\ broker' = [broker EXCEPT ![p] = binds + 1]
          /\ orphans' = orphans
      BY <1>4 DEF BindOk
    <2>2. binds + 1 \notin 1..binds /\ binds \in Nat
      BY <1>1, ElectionConstants DEF FilesOK
    <2>3. binds + 1 \notin orphans /\ \A q \in Procs : binds + 1 \notin mine[q]
      BY <1>1, <2>2 DEF FilesOK
    <2> QED
      BY <1>1, <2>1, <2>3 DEF FilesOK, FieldsOK
  <1>5. ASSUME NEW p \in Procs, exit(p) PROVE OneOwner' /\ BrokersServe'
    BY <1>1, <1>5 DEF exit, FilesOK, FieldsOK
  <1>6. ASSUME NEW p \in Procs, NEW k \in Kinds, joinOrLead(p, k)
        PROVE  OneOwner' /\ BrokersServe'
    BY <1>2, <1>4, <1>6
       DEF joinOrLead, Exists, Connect, ProbeLive, ProbeDead, ProbeBusy,
           ProbeTooBusy, removeStaleSock, BindInUse, BindTooOften, LoopbackOk,
           LoopbackRefused, LoopbackDestroyed, RegisterAck, RegisterUnheard,
           RegisterClosed
  <1>7. ASSUME NEW p \in Procs, Recover(p) PROVE OneOwner' /\ BrokersServe'
    BY <1>2, <1>3, <1>7
       DEF Recover, onSocketClose, Failover, checkDisplacement, Reelect
  <1>8. ASSUME NEW p \in Procs,
               start(p) \/ (\E k \in Rejoins : rename(p, k)) \/ leave(p)
                  \/ \E k \in Kinds : RegisterRejected(p, k)
        PROVE  OneOwner' /\ BrokersServe'
    BY <1>2, <1>3, <1>8 DEF start, rename, leave, RegisterRejected
  <1> QED
    BY <1>2, <1>5, <1>6, <1>7, <1>8 DEF Next, vars

\* A step of a task that is not waiting for its ack takes no connection out of
\* registration.
LEMMA StillRegistering ==
  ASSUME TasksOK, NEW p \in Procs, NEW k \in Kinds, NEW point, NEW c,
         pc[p][k] \notin {"register", "selfRegister"},
         pc' = [pc EXCEPT ![p][k] = point],
         target' \in {target, [target EXCEPT ![p][k] = c]}
  PROVE  \A q \in Procs : \A d : Registering(q, d) => Registering(q, d)'
  BY DEF TasksOK, Registering

\* The slot of a rename or a failover is not in use.
LEMMA FreeIdle ==
  ASSUME NEW p, NEW k, FreeSlot(p, k)
  PROVE  pc[p][k] = "idle"
  BY DEF FreeSlot

\* A step that opens no connection, ends no registration, and neither closes
\* nor orphans a listener keeps the links alive.
LEMMA LinksKept ==
  ASSUME LinksLive, open' = open, orphans' = orphans,
         \A q \in Procs : mine[q] \subseteq mine'[q],
         islands \subseteq islands',
         \A q \in Procs : \A d : Registering(q, d) => Registering(q, d)'
  PROVE  LinksLive'
  BY DEF LinksLive, Accepting

\* Only a joiner that was still registering when its broker was orphaned can be
\* left with a connection to it.
LEMMA NextLinks == ElectionInv /\ [Next]_vars => LinksLive'
  <1> SUFFICES ASSUME ElectionInv, [Next]_vars PROVE LinksLive'
    OBVIOUS
  <1> USE DEF files, fields, conns, tasks, history
  <1>1. FilesOK /\ FieldsOK /\ ConnsOK /\ TasksOK /\ BrokersServe /\ LinksLive
    BY DEF ElectionInv, TypeOK
  <1>2. CASE UNCHANGED vars
    BY <1>1, <1>2 DEF vars, LinksLive, Registering, Accepting
  <1>r. ASSUME NEW p \in Procs, NEW k \in Kinds, EndJoin(p, k)
        PROVE  \A q \in Procs : \A d :
                  Registering(q, d) =>
                      Registering(q, d)' \/ (q = p /\ d = target[p][k])
    BY <1>1, <1>r DEF EndJoin, Goto, Registering, TasksOK
  <1>3. ASSUME NEW p \in Procs, NEW k \in Kinds, joinOrLead(p, k) PROVE LinksLive'
    <2>1. CASE Exists(p, k)
      <3>1. \A q \in Procs : \A d : Registering(q, d) => Registering(q, d)'
        BY <1>1, <2>1, StillRegistering DEF Exists, Goto
      <3> QED
        BY <1>1, <2>1, <3>1, LinksKept DEF Exists
    <2>2. CASE Connect(p, k)
      <3>1. \A q \in Procs : \A d : Registering(q, d) => Registering(q, d)'
        BY <1>1, <2>2, StillRegistering DEF Connect, Goto
      <3> QED
        BY <1>1, <2>2, <3>1, LinksKept DEF Connect
    <2>3. CASE ProbeDead(p, k)
      <3>1. \A q \in Procs : \A d : Registering(q, d) => Registering(q, d)'
        BY <1>1, <2>3, StillRegistering DEF ProbeDead, Goto
      <3> QED
        BY <1>1, <2>3, <3>1, LinksKept DEF ProbeDead
    <2>4. CASE ProbeBusy(p, k)
      <3>1. \A q \in Procs : \A d : Registering(q, d) => Registering(q, d)'
        BY <1>1, <2>4, StillRegistering DEF ProbeBusy, Goto
      <3> QED
        BY <1>1, <2>4, <3>1, LinksKept DEF ProbeBusy
    <2>5. CASE ProbeTooBusy(p, k)
      <3>1. \A q \in Procs : \A d : Registering(q, d) => Registering(q, d)'
        BY <1>1, <2>5, StillRegistering DEF ProbeTooBusy, GiveUp, EndJoin, Goto
      <3> QED
        BY <1>1, <2>5, <3>1, LinksKept DEF ProbeTooBusy
    <2>6. CASE removeStaleSock(p, k)
      <3>1. \A q \in Procs : \A d : Registering(q, d) => Registering(q, d)'
        BY <1>1, <2>6, StillRegistering DEF removeStaleSock, Goto
      <3> QED
        BY <1>1, <2>6, <3>1, LinksKept DEF removeStaleSock
    <2>7. CASE BindOk(p, k)
      <3>1. \A q \in Procs : \A d : Registering(q, d) => Registering(q, d)'
        BY <1>1, <2>7, StillRegistering DEF BindOk, Goto
      <3> QED
        BY <1>1, <2>7, <3>1, LinksKept DEF BindOk, Abandon, FilesOK
    <2>8. CASE BindInUse(p, k)
      <3>1. \A q \in Procs : \A d : Registering(q, d) => Registering(q, d)'
        BY <1>1, <2>8, StillRegistering DEF BindInUse, Goto
      <3> QED
        BY <1>1, <2>8, <3>1, LinksKept DEF BindInUse
    <2>9. CASE BindTooOften(p, k)
      <3>1. \A q \in Procs : \A d : Registering(q, d) => Registering(q, d)'
        BY <1>1, <2>9, StillRegistering DEF BindTooOften, GiveUp, EndJoin, Goto
      <3> QED
        BY <1>1, <2>9, <3>1, LinksKept DEF BindTooOften
    <2>10. CASE LoopbackRefused(p, k)
      <3>1. \A q \in Procs : \A d : Registering(q, d) => Registering(q, d)'
        BY <1>1, <2>10, StillRegistering DEF LoopbackRefused, GiveUp, EndJoin, Goto
      <3> QED
        BY <1>1, <2>10, <3>1, LinksKept DEF LoopbackRefused, Abandon
    <2>11. CASE LoopbackDestroyed(p, k)
      <3>1. \A q \in Procs : \A d : Registering(q, d) => Registering(q, d)'
        BY <1>1, <2>11, StillRegistering DEF LoopbackDestroyed, EndJoin, Goto
      <3> QED
        BY <1>1, <2>11, <3>1, LinksKept DEF LoopbackDestroyed, Abandon
    <2>12. ASSUME NEW c, open' = [open EXCEPT ![p] = @ \cup {c}],
                  mine' = mine, orphans' = orphans, islands \subseteq islands',
                  Registering(p, c)',
                  \A q \in Procs : \A d : Registering(q, d) => Registering(q, d)'
           PROVE  LinksLive'
      BY <1>1, <2>12 DEF LinksLive, Accepting, ConnsOK
    <2>13. CASE ProbeLive(p, k)
      <3>1. \A q \in Procs : \A d : Registering(q, d) => Registering(q, d)'
        BY <1>1, <2>13, StillRegistering DEF ProbeLive, Goto
      <3>2. Registering(p, target[p][k])'
        BY <1>1, <2>13 DEF ProbeLive, Goto, Registering, TasksOK
      <3> QED
        BY <2>12, <2>13, <3>1, <3>2 DEF ProbeLive, Wire, Abandon
    <2>14. CASE LoopbackOk(p, k)
      <3>1. \A q \in Procs : \A d : Registering(q, d) => Registering(q, d)'
        BY <1>1, <2>14, StillRegistering DEF LoopbackOk, Goto
      <3>2. Registering(p, <<path, k>>)'
        BY <1>1, <2>14 DEF LoopbackOk, Goto, Registering, TasksOK
      <3> QED
        BY <2>12, <2>14, <3>1, <3>2 DEF LoopbackOk, Wire
    <2>15. CASE RegisterAck(p, k)
      <3>1. /\ islands \subseteq islands'
            /\ target[p][k][1] \in orphans => target[p][k][1] \in islands'
            /\ EndJoin(p, k)
        BY <2>15 DEF RegisterAck
      <3> QED
        BY <1>1, <1>r, <2>15, <3>1 DEF RegisterAck, LinksLive, Accepting
    <2>16. CASE RegisterClosed(p, k)
      <3>1. islands \subseteq islands' /\ EndJoin(p, k)
        BY <2>16 DEF RegisterClosed
      <3> QED
        BY <1>1, <1>r, <2>16, <3>1 DEF RegisterClosed, LinksLive, Accepting, ConnsOK
    <2>17. CASE RegisterUnheard(p, k)
      <3>1. /\ islands \subseteq islands'
            /\ target[p][k][1] \in orphans => target[p][k][1] \in islands'
            /\ EndJoin(p, k) /\ Accepting(target[p][k][1])
        BY <2>17 DEF RegisterUnheard, GiveUp
      <3> QED
        BY <1>1, <1>r, <2>17, <3>1 DEF RegisterUnheard, LinksLive, Accepting
    <2> QED
      BY <1>3, <2>1, <2>2, <2>3, <2>4, <2>5, <2>6, <2>7, <2>8, <2>9, <2>10, <2>11,
         <2>13, <2>14, <2>15, <2>16, <2>17 DEF joinOrLead
  <1>4. ASSUME NEW p \in Procs, NEW k \in Kinds, RegisterRejected(p, k)
        PROVE  LinksLive'
    <2>1. EndJoin(p, k) /\ islands \subseteq islands' /\ Serving(target[p][k][1])
      BY <1>4 DEF RegisterRejected, GiveUp
    <2> QED
      BY <1>1, <1>4, <1>r, <2>1 DEF RegisterRejected, Serving, LinksLive, Accepting
  <1>5. ASSUME NEW p \in Procs, teardownConn(p), mine' = mine, islands' = islands,
               \A q \in Procs : \A d : Registering(q, d) => Registering(q, d)'
        PROVE  LinksLive'
    <2>1. \A q \in Procs : \A c \in open'[q] :
             c \in open[q] /\ (c[1] # broker[p] \/ Registering(q, c))
      BY <1>1, <1>5 DEF teardownConn, Destroy, ConnsOK
    <2>2. orphans' \subseteq orphans \cup {broker[p]}
      BY <1>5 DEF teardownConn
    <2> QED
      BY <1>1, <1>5, <2>1, <2>2 DEF LinksLive, Accepting
  <1>6. ASSUME NEW p \in Procs, exit(p) PROVE LinksLive'
    <2>1. /\ mine' = [mine EXCEPT ![p] = {}]
          /\ orphans' = orphans \ mine[p] /\ islands' = islands \ mine[p]
          /\ pc' = [pc EXCEPT ![p] = NotRunning]
          /\ target' = [target EXCEPT ![p] = [k \in Kinds |-> NoConn]]
          /\ Destroy(p, open[p], mine[p])
      BY <1>6 DEF exit
    <2>2. /\ open'[p] = {}
          /\ \A q \in Procs \ {p} : \A c \in open'[q] :
                c \in open[q] /\ (c[1] \notin mine[p] \/ Registering(q, c))
      BY <1>1, <2>1 DEF Destroy, ConnsOK
    <2>3. \A q \in Procs \ {p} : \A d : Registering(q, d) => Registering(q, d)'
      BY <1>1, <2>1 DEF Registering, TasksOK
    <2>4. ASSUME NEW q \in Procs, NEW c \in open'[q], ~Registering(q, c)'
          PROVE  Accepting(c[1])' /\ (c[1] \in orphans' => c[1] \in islands')
      <3>1. q # p /\ c \in open[q] /\ c[1] \notin mine[p] /\ ~Registering(q, c)
        BY <2>2, <2>3, <2>4
      <3>2. Accepting(c[1]) /\ (c[1] \in orphans => c[1] \in islands)
        BY <1>1, <3>1 DEF LinksLive
      <3> QED
        BY <1>1, <2>1, <3>1, <3>2 DEF Accepting, FilesOK
    <2> QED
      BY <2>4 DEF LinksLive
  <1>7. ASSUME NEW p \in Procs, start(p) \/ (\E k \in Rejoins : rename(p, k)) \/ leave(p) PROVE LinksLive'
    <2>1. CASE start(p)
      <3>1. \A q \in Procs : \A d : Registering(q, d) => Registering(q, d)'
        BY <1>1, <2>1, StillRegistering DEF start, BeginJoin, Goto, Kinds
      <3> QED
        BY <1>1, <2>1, <3>1, LinksKept DEF start
    <2>2. ASSUME NEW k \in Rejoins, rename(p, k) PROVE LinksLive'
      <3>1. \A q \in Procs : \A d : Registering(q, d) => Registering(q, d)'
        BY <1>1, <2>2, StillRegistering, FreeIdle DEF rename, BeginJoin, Goto, Kinds
      <3> QED
        BY <1>5, <2>2, <3>1 DEF rename
    <2>3. CASE leave(p)
      BY <1>5, <2>3 DEF leave, Registering
    <2> QED
      BY <1>7, <2>1, <2>2, <2>3
  <1>8. ASSUME NEW p \in Procs, Recover(p) PROVE LinksLive'
    <2>1. ASSUME NEW k \in Rejoins, onSocketClose(p, k) PROVE LinksLive'
      <3>1. \A q \in Procs : \A d : Registering(q, d) => Registering(q, d)'
        BY <1>1, <2>1, StillRegistering, FreeIdle DEF onSocketClose, Goto, Kinds
      <3> QED
        BY <1>1, <2>1, <3>1, LinksKept DEF onSocketClose
    <2>2. ASSUME NEW k \in Rejoins, Failover(p, k) PROVE LinksLive'
      <3>1. \A q \in Procs : \A d : Registering(q, d) => Registering(q, d)'
        <4>1. CASE EndJoin(p, k)
          BY <1>1, <2>2, <4>1, StillRegistering DEF Failover, EndJoin, Goto, Kinds
        <4>2. CASE BeginJoin(p, k)
          BY <1>1, <2>2, <4>2, StillRegistering DEF Failover, BeginJoin, Goto, Kinds
        <4> QED
          BY <2>2, <4>1, <4>2 DEF Failover
      <3> QED
        BY <1>1, <2>2, <3>1, LinksKept DEF Failover
    <2>3. CASE checkDisplacement(p)
      <3>1. \A q \in Procs : \A d : Registering(q, d) => Registering(q, d)'
        BY <1>1, <2>3, StillRegistering DEF checkDisplacement, Goto, Kinds
      <3> QED
        BY <1>5, <2>3, <3>1 DEF checkDisplacement
    <2>4. CASE Reelect(p)
      <3>1. \A q \in Procs : \A d : Registering(q, d) => Registering(q, d)'
        <4>1. CASE EndJoin(p, "watch")
          BY <1>1, <2>4, <4>1, StillRegistering DEF Reelect, EndJoin, Goto, Kinds
        <4>2. CASE BeginJoin(p, "watch")
          BY <1>1, <2>4, <4>2, StillRegistering DEF Reelect, BeginJoin, Goto, Kinds
        <4> QED
          BY <2>4, <4>1, <4>2 DEF Reelect
      <3> QED
        BY <1>1, <2>4, <3>1, LinksKept DEF Reelect
    <2> QED
      BY <1>8, <2>1, <2>2, <2>3, <2>4 DEF Recover
  <1> QED
    BY <1>2, <1>3, <1>4, <1>6, <1>7, <1>8 DEF Next

\* No step makes a listener serve that did not, but the bind that creates it.
LEMMA NoRevival ==
  ASSUME ElectionInv, [Next]_vars, NEW l \in 0..binds, ~Serving(l)
  PROVE  ~Serving(l)'
  <1> USE DEF files, Serving, Accepting
  <1>1. FilesOK
    BY DEF ElectionInv, TypeOK
  <1>2. CASE /\ mine' = mine
             /\ orphans \subseteq orphans'
    BY <1>2
  <1>3. ASSUME NEW p \in Procs, NEW k \in Kinds, BindOk(p, k) PROVE ~Serving(l)'
    <2>1. l # binds + 1
      BY <1>1, ElectionConstants DEF FilesOK
    <2> QED
      BY <1>1, <1>3, <2>1 DEF BindOk, FilesOK
  <1>4. ASSUME NEW p \in Procs, exit(p) PROVE ~Serving(l)'
    <2>1. OneOwner
      BY DEF ElectionInv
    <2>2. mine' = [mine EXCEPT ![p] = {}] /\ orphans' = orphans \ mine[p]
      BY <1>4 DEF exit
    <2> QED
      BY <1>1, <2>1, <2>2 DEF OneOwner, FilesOK
  <1>5. ASSUME NEW p \in Procs, NEW k \in Kinds, joinOrLead(p, k) PROVE ~Serving(l)'
    BY <1>2, <1>3, <1>5
       DEF joinOrLead, Exists, Connect, ProbeLive, ProbeDead, ProbeBusy,
           ProbeTooBusy, removeStaleSock, BindInUse, BindTooOften, LoopbackOk,
           LoopbackRefused, LoopbackDestroyed, RegisterAck, RegisterUnheard,
           RegisterClosed
  <1>6. ASSUME NEW p \in Procs, Recover(p) PROVE ~Serving(l)'
    BY <1>2, <1>6
       DEF Recover, onSocketClose, Failover, checkDisplacement, Reelect, teardownConn
  <1>7. ASSUME NEW p \in Procs,
               start(p) \/ (\E k \in Rejoins : rename(p, k)) \/ leave(p)
                  \/ \E k \in Kinds : RegisterRejected(p, k)
        PROVE  ~Serving(l)'
    BY <1>2, <1>7 DEF start, rename, leave, RegisterRejected, teardownConn
  <1> QED
    BY <1>2, <1>4, <1>5, <1>6, <1>7 DEF Next, vars

\* A step that takes its task to neither a verdict nor a ping leaves the tasks
\* that are there alone.
LEMMA OtherTasks ==
  ASSUME TasksOK, NEW p \in Procs, NEW k \in Kinds, NEW point, NEW c,
         point \notin {"ack", "unlink"},
         pc' = [pc EXCEPT ![p][k] = point],
         target' \in {target, [target EXCEPT ![p][k] = c]}
  PROVE  \A q \in Procs, j \in Kinds :
            pc'[q][j] \in {"ack", "unlink"} =>
                pc'[q][j] = pc[q][j] /\ target'[q][j] = target[q][j]
  BY DEF TasksOK

\* A verdict of "dead" stays true until the unlink that acts on it.
LEMMA NextVerdicts == ElectionInv /\ [Next]_vars => VerdictsSound'
  <1> SUFFICES ASSUME ElectionInv, [Next]_vars,
                      NEW q \in Procs, NEW j \in Kinds,
                      pc'[q][j] \in {"ack", "unlink"}
               PROVE  /\ target'[q][j][1] <= binds'
                      /\ pc'[q][j] = "unlink" => ~Serving(target[q][j][1])'
    BY DEF VerdictsSound
  <1> USE ElectionConstants DEF files, fields, conns, tasks, history
  <1>1. FilesOK /\ FieldsOK /\ TasksOK /\ VerdictsSound /\ binds \in Nat
    BY DEF ElectionInv, TypeOK, FilesOK
  <1>2. binds <= binds'
    <2>1. binds' = binds \/ binds' = binds + 1
      <3>1. ASSUME NEW p \in Procs, NEW k \in Kinds, joinOrLead(p, k)
            PROVE  binds' = binds \/ binds' = binds + 1
        BY <3>1 DEF joinOrLead, Exists, Connect, ProbeLive, ProbeDead, ProbeBusy,
            ProbeTooBusy, removeStaleSock, BindOk, BindInUse, BindTooOften,
            LoopbackOk, LoopbackRefused, LoopbackDestroyed, RegisterAck,
            RegisterUnheard, RegisterClosed
      <3>2. ASSUME NEW p \in Procs, Recover(p) PROVE binds' = binds
        BY <3>2 DEF Recover, onSocketClose, Failover, checkDisplacement, Reelect
      <3>3. ASSUME NEW p \in Procs,
                   \/ start(p) \/ (\E k \in Rejoins : rename(p, k)) \/ leave(p) \/ exit(p)
                   \/ \E k \in Kinds : RegisterRejected(p, k)
            PROVE  binds' = binds
        BY <3>3 DEF start, rename, leave, exit, RegisterRejected
      <3> QED
        BY <3>1, <3>2, <3>3 DEF Next, vars
    <2> QED
      BY <1>1, <2>1
  <1> DEFINE Sound == /\ target'[q][j][1] <= binds'
                      /\ pc'[q][j] = "unlink" => ~Serving(target[q][j][1])'
  <1>3. ASSUME pc[q][j] \in {"ack", "unlink"}, target'[q][j] = target[q][j],
               pc'[q][j] = "unlink" => ~Serving(target[q][j][1])
        PROVE  Sound
    <2>1. target[q][j][1] \in 0..binds /\ binds' \in Nat
      <3>1. target[q][j][1] <= binds /\ target[q][j][1] \in Nat
        BY <1>1, <1>3 DEF VerdictsSound, TasksOK, Conn
      <3>2. binds' \in Nat
        BY NextType DEF TypeOK, FilesOK
      <3> QED
        BY <1>1, <3>1, <3>2
    <2>2. \A n \in 0..binds : ~Serving(n) => ~Serving(n)'
      BY NoRevival
    <2> QED
      BY <1>1, <1>2, <1>3, <2>1, <2>2 DEF Serving, Accepting
  <1> DEFINE Same == pc'[q][j] = pc[q][j] /\ target'[q][j] = target[q][j]
  <1>4. ASSUME Same PROVE Sound
    BY <1>1, <1>3, <1>4 DEF VerdictsSound
  <1>6. CASE UNCHANGED vars
    BY <1>4, <1>6 DEF vars
  <1>7. ASSUME NEW p \in Procs, NEW k \in Kinds, Connect(p, k) PROVE Sound
    <2>1. CASE q = p /\ j = k
      <3>1. target'[q][j] = <<path, k>> /\ binds' = binds /\ path <= binds
        <4>1. target' = [target EXCEPT ![p][k] = <<path, k>>] /\ binds' = binds
          BY <1>7 DEF Connect
        <4> QED
          BY <1>1, <2>1, <4>1 DEF TasksOK, FilesOK
      <3>2. path # 0 /\ Serving(path) => pc'[q][j] = "ack"
        <4>1. path # 0 /\ Serving(path) => pc' = [pc EXCEPT ![p][k] = "ack"]
          BY <1>7 DEF Connect, Goto
        <4> QED
          BY <1>1, <2>1, <4>1 DEF TasksOK
      <3>3. path = 0 => ~Serving(path)
        BY <1>1 DEF Serving, Accepting, FilesOK
      <3>4. \A n \in 0..binds : ~Serving(n) => ~Serving(n)'
        BY NoRevival
      <3> QED
        BY <1>1, <3>1, <3>2, <3>3, <3>4 DEF FilesOK, Serving, Accepting
    <2>2. CASE q # p \/ j # k
      BY <1>1, <1>4, <1>7, <2>2 DEF Connect, Goto, TasksOK
    <2> QED
      BY <2>1, <2>2
  <1>8. ASSUME NEW p \in Procs, NEW k \in Kinds, ProbeDead(p, k) PROVE Sound
    <2>1. CASE q = p /\ j = k
      BY <1>1, <1>3, <1>8, <2>1 DEF ProbeDead, Goto, TasksOK
    <2>2. CASE q # p \/ j # k
      BY <1>1, <1>4, <1>8, <2>2 DEF ProbeDead, Goto, TasksOK
    <2> QED
      BY <2>1, <2>2
  <1>b. ASSUME NEW p \in Procs, NEW k \in Kinds, BeginJoin(p, k) PROVE Same
    <2>1. /\ pc' = [pc EXCEPT ![p][k] = "exists"]
          /\ target' = [target EXCEPT ![p][k] = NoConn]
      BY <1>b DEF BeginJoin, Goto
    <2> QED
      BY <1>1, <2>1 DEF TasksOK
  <1>e. ASSUME NEW p \in Procs, NEW k \in Kinds, EndJoin(p, k) PROVE Same
    <2>1. /\ pc' = [pc EXCEPT ![p][k] = "idle"]
          /\ target' = [target EXCEPT ![p][k] = NoConn]
      BY <1>e DEF EndJoin, Goto
    <2> QED
      BY <1>1, <2>1 DEF TasksOK
  <1>9. ASSUME NEW p \in Procs, NEW k \in Kinds, joinOrLead(p, k),
               ~Connect(p, k), ~ProbeDead(p, k)
        PROVE  Same
    <2>1. CASE Exists(p, k)
      BY <1>1, OtherTasks, <2>1 DEF Exists, Goto
    <2>2. CASE ProbeLive(p, k)
      BY <1>1, OtherTasks, <2>2 DEF ProbeLive, Goto
    <2>3. CASE ProbeBusy(p, k)
      BY <1>1, OtherTasks, <2>3 DEF ProbeBusy, Goto
    <2>4. CASE ProbeTooBusy(p, k)
      BY <1>e, <2>4 DEF ProbeTooBusy, GiveUp
    <2>5. CASE removeStaleSock(p, k)
      BY <1>1, OtherTasks, <2>5 DEF removeStaleSock, Goto
    <2>6. CASE BindOk(p, k)
      BY <1>1, OtherTasks, <2>6 DEF BindOk, Goto
    <2>7. CASE BindInUse(p, k)
      BY <1>1, OtherTasks, <2>7 DEF BindInUse, Goto
    <2>8. CASE BindTooOften(p, k)
      BY <1>e, <2>8 DEF BindTooOften, GiveUp
    <2>9. CASE LoopbackOk(p, k)
      BY <1>1, OtherTasks, <2>9 DEF LoopbackOk, Goto
    <2>10. CASE LoopbackRefused(p, k)
      BY <1>e, <2>10 DEF LoopbackRefused, GiveUp
    <2>11. CASE LoopbackDestroyed(p, k)
      BY <1>e, <2>11 DEF LoopbackDestroyed
    <2>12. CASE RegisterAck(p, k)
      BY <1>e, <2>12 DEF RegisterAck
    <2>13. CASE RegisterClosed(p, k)
      BY <1>e, <2>13 DEF RegisterClosed
    <2>14. CASE RegisterUnheard(p, k)
      BY <1>e, <2>14 DEF RegisterUnheard, GiveUp
    <2> QED
      BY <1>9, <2>1, <2>2, <2>3, <2>4, <2>5, <2>6, <2>7, <2>8, <2>9, <2>10, <2>11,
         <2>12, <2>13, <2>14 DEF joinOrLead
  <1>10. ASSUME NEW p \in Procs, NEW k \in Kinds, RegisterRejected(p, k) PROVE Same
    BY <1>e, <1>10 DEF RegisterRejected, GiveUp
  <1>11. ASSUME NEW p \in Procs, Recover(p) PROVE Same
    <2>1. ASSUME NEW k \in Rejoins, onSocketClose(p, k) PROVE Same
      <3> DEFINE point == IF left[p] THEN "idle" ELSE "failover"
      <3>1. /\ pc' = [pc EXCEPT ![p][k] = point] /\ point \notin {"ack", "unlink"}
            /\ target' = [target EXCEPT ![p][k] = sock[p]] /\ k \in Kinds
        BY <2>1 DEF onSocketClose, Goto, Kinds
      <3> HIDE DEF point
      <3>2. CASE q = p /\ j = k
        BY <1>1, <3>1, <3>2 DEF TasksOK
      <3>3. CASE q # p \/ j # k
        BY <1>1, <3>1, <3>3 DEF TasksOK
      <3> QED
        BY <3>2, <3>3
    <2>2. ASSUME NEW k \in Kinds, EndJoin(p, k) PROVE Same
      BY <1>e, <2>2 DEF Kinds
    <2>3. ASSUME NEW k \in Kinds, BeginJoin(p, k) PROVE Same
      BY <1>b, <2>3 DEF Kinds
    <2>4. CASE checkDisplacement(p)
      BY <1>1, OtherTasks, <2>4 DEF checkDisplacement, Goto, Kinds
    <2>5. ASSUME NEW k \in Rejoins, Failover(p, k) PROVE Same
      BY <2>2, <2>3, <2>5 DEF Failover, Kinds
    <2>6. CASE Reelect(p)
      BY <2>2, <2>3, <2>6 DEF Reelect, Kinds
    <2> QED
      BY <1>11, <2>1, <2>4, <2>5, <2>6 DEF Recover
  <1>12. ASSUME NEW p \in Procs, start(p) \/ (\E k \in Rejoins : rename(p, k))
        PROVE  Same
    BY <1>b, <1>12 DEF start, rename, Kinds
  <1>13. ASSUME NEW p \in Procs, leave(p) PROVE Sound
    BY <1>4, <1>13 DEF leave
  <1>14. ASSUME NEW p \in Procs, exit(p) PROVE Sound
    <2>1. q # p
      BY <1>1, <1>14 DEF exit, TasksOK, NotRunning
    <2> QED
      BY <1>1, <1>4, <1>14, <2>1 DEF exit, TasksOK
  <1> QED
    BY <1>4, <1>6, <1>7, <1>8, <1>9, <1>10, <1>11, <1>12, <1>13, <1>14 DEF Next

\* In every reachable state of the election, whatever joins, renames, leaves,
\* exits, thefts and re-elections came before: no listener has two owners, a
\* leader's broker serves, no registered connection dangles, and whoever is
\* about to unlink the session socket has probed a listener that is still dead.
THEOREM ElectionInvariant == Spec => []ElectionInv
  <1>1. ElectionInv /\ [Next]_vars => ElectionInv'
    BY NextType, NextOwners, NextLinks, NextVerdicts DEF ElectionInv
  <1> QED
    BY InitElection, <1>1, PTL DEF Spec

\* An unlink decided on a verdict about an earlier file is the only step that
\* takes the file of a serving broker away: neither a busy verdict, a teardown
\* nor the end of a process does.
THEOREM BusyLeaderSafe == Spec => BusyLeaderKept
  <1> DEFINE Kept == path # 0 /\ Serving(path) /\ path' # path
                       => \E p \in Procs, k \in Kinds :
                             /\ pc[p][k] = "unlink" /\ pc'[p][k] = "bind"
                             /\ target[p][k][1] # path
  <1>1. ElectionInv /\ [Next]_vars => Kept
    <2> SUFFICES ASSUME ElectionInv, [Next]_vars,
                        path # 0, Serving(path), path' # path
                 PROVE  \E p \in Procs, k \in Kinds :
                           /\ pc[p][k] = "unlink" /\ pc'[p][k] = "bind"
                           /\ target[p][k][1] # path
      OBVIOUS
    <2> USE DEF files, fields, conns, tasks, history
    <2>1. \E p \in Procs, k \in Kinds : removeStaleSock(p, k)
      <3>1. ASSUME NEW p \in Procs, NEW k \in Kinds, joinOrLead(p, k)
            PROVE  removeStaleSock(p, k)
        BY <3>1 DEF joinOrLead, Exists, Connect, ProbeLive, ProbeDead, ProbeBusy,
            ProbeTooBusy, BindOk, BindInUse, BindTooOften, LoopbackOk,
            LoopbackRefused, LoopbackDestroyed, RegisterAck, RegisterUnheard,
           RegisterClosed
      <3>2. ASSUME NEW p \in Procs PROVE ~Recover(p)
        BY DEF Recover, onSocketClose, Failover, checkDisplacement, Reelect,
            teardownConn
      <3>3. ASSUME NEW p \in Procs
            PROVE  /\ ~start(p) /\ (\A k \in Rejoins : ~rename(p, k)) /\ ~leave(p) /\ ~exit(p)
                   /\ \A k \in Kinds : ~RegisterRejected(p, k)
        BY DEF start, rename, leave, exit, RegisterRejected, teardownConn
      <3> QED
        BY <3>1, <3>2, <3>3 DEF Next, vars
    <2>2. PICK p \in Procs, k \in Kinds : removeStaleSock(p, k)
      BY <2>1
    <2>3. pc[p][k] = "unlink" /\ pc'[p][k] = "bind"
      BY <2>2 DEF removeStaleSock, Goto, ElectionInv, TypeOK, TasksOK
    <2>4. target[p][k][1] # path
      BY <2>3 DEF ElectionInv, VerdictsSound
    <2> QED
      BY <2>3, <2>4
  <1> QED
    BY ElectionInvariant, <1>1, PTL DEF Spec, BusyLeaderKept

-----------------------------------------------------------------------------
(***************************************************************************)
(* Proof that MeshDelivery implements the safety part of MeshPromise: for  *)
(* any number of agents and messages, and whatever sockets, brokers and    *)
(* relay connections are lost, every step of the sending tool, the         *)
(* brokers, the relay and the receivers is a step of the promise to the    *)
(* caller or changes nothing the caller can see.                           *)
(*                                                                         *)
(* The refinement needs to know that "received" is only on its way back    *)
(* for a message that was written once, and a refusal only for one that    *)
(* never will be.  The invariant follows each id to the one queue its      *)
(* message may still be written from (OnePlace): while it is there nobody  *)
(* wrote it and no answer is under way, and an answer under way means that *)
(* it is there no longer (AnswersTrue).                                    *)
(***************************************************************************)

(* Queues *)

\* r is q without some of its first lines.
Rest(r, q) == \E d \in Nat : \A k \in DOMAIN r : k + d \in DOMAIN q /\ r[k] = q[k + d]

LEMMA RestOfQueue ==
    ASSUME NEW S, NEW q \in Seq(S)
    PROVE  /\ Rest(q, q) /\ Rest(<<>>, q) /\ <<>> \in Seq(S)
           /\ q # <<>> => /\ Rest(Tail(q), q) /\ Tail(q) \in Seq(S) /\ Head(q) \in S
                          /\ 1 \in DOMAIN q /\ Head(q) = q[1]
                          /\ \A k \in DOMAIN Tail(q) : /\ k + 1 \in DOMAIN q /\ k + 1 # 1
                                                       /\ Tail(q)[k] = q[k + 1]
<1>1. Len(q) \in Nat /\ DOMAIN q = 1 .. Len(q)
  BY LenProperties
<1>2. Rest(q, q)
  <2>1. \A k \in DOMAIN q : k + 0 \in DOMAIN q /\ q[k] = q[k + 0]
    BY <1>1
  <2> QED
    BY <2>1 DEF Rest
<1>3. Rest(<<>>, q) /\ <<>> \in Seq(S)
  <2>1. DOMAIN <<>> = {}
    OBVIOUS
  <2> QED
    BY <2>1, EmptySeq DEF Rest
<1>4. ASSUME q # <<>>
      PROVE  /\ Tail(q) \in Seq(S) /\ Head(q) \in S /\ 1 \in DOMAIN q /\ Head(q) = q[1]
             /\ \A k \in DOMAIN Tail(q) : /\ k + 1 \in DOMAIN q /\ k + 1 # 1
                                          /\ Tail(q)[k] = q[k + 1]
  <2>1. /\ Tail(q) \in Seq(S) /\ Head(q) \in S /\ Len(Tail(q)) = Len(q) - 1
        /\ \A k \in 1 .. Len(Tail(q)) : Tail(q)[k] = q[k + 1]
    BY <1>4, HeadTailProperties
  <2>2. DOMAIN Tail(q) = 1 .. Len(Tail(q)) /\ Len(Tail(q)) \in Nat
    BY <2>1, LenProperties
  <2>3. Len(q) # 0 /\ Head(q) = q[1]
    BY <1>4, EmptySeq
  <2> QED
    BY <1>1, <2>1, <2>2, <2>3
<1>5. q # <<>> => Rest(Tail(q), q)
  BY <1>4 DEF Rest
<1> QED
  BY <1>2, <1>3, <1>4, <1>5

LEMMA Appended ==
    ASSUME NEW S, NEW q \in Seq(S), NEW x \in S
    PROVE  /\ Append(q, x) \in Seq(S)
           /\ \A k \in DOMAIN Append(q, x) :
                 \/ k \in DOMAIN q /\ Append(q, x)[k] = q[k]
                 \/ k = Len(q) + 1 /\ k \notin DOMAIN q /\ Append(q, x)[k] = x
<1>1. Len(q) \in Nat /\ DOMAIN q = 1 .. Len(q)
  BY LenProperties
<1>2. /\ Append(q, x) \in Seq(S) /\ Len(Append(q, x)) = Len(q) + 1
      /\ \A k \in 1 .. Len(q) : Append(q, x)[k] = q[k]
      /\ Append(q, x)[Len(q) + 1] = x
  BY AppendProperties
<1>3. DOMAIN Append(q, x) = 1 .. Len(Append(q, x))
  BY <1>2, LenProperties
<1> QED
  BY <1>1, <1>2, <1>3

\* What r holds of x was in q before, each occurrence at a place of its own.
RestOf(r, q, x) ==
    \E d \in Nat : \A k \in DOMAIN r : r[k] = x => k + d \in DOMAIN q /\ q[k + d] = x

LEMMA RestHoldsLess ==
    ASSUME NEW r, NEW q, Rest(r, q), NEW x
    PROVE  RestOf(r, q, x)
  BY DEF Rest, RestOf

LEMMA AppendedOther ==
    ASSUME NEW S, NEW q, NEW r \in Seq(S), NEW x, RestOf(r, q, x), NEW y \in S, y # x
    PROVE  RestOf(Append(r, y), q, x)
<1>1. PICK d \in Nat : \A k \in DOMAIN r : r[k] = x => k + d \in DOMAIN q /\ q[k + d] = x
  BY DEF RestOf
<1>2. \A k \in DOMAIN Append(r, y) : Append(r, y)[k] = x => k + d \in DOMAIN q /\ q[k + d] = x
  BY <1>1, Appended
<1> QED
  BY <1>2 DEF RestOf

\* Every line of r is one of N or was in q before.
From(r, q, N) == \A k \in DOMAIN r : r[k] \in N \/ \E l \in DOMAIN q : q[l] = r[k]

LEMMA RestComesFrom ==
    ASSUME NEW r, NEW q, Rest(r, q), NEW N
    PROVE  From(r, q, N)
  BY DEF Rest, From

LEMMA AppendedFrom ==
    ASSUME NEW S, NEW q, NEW r \in Seq(S), NEW N, From(r, q, N), NEW y \in S \cap N
    PROVE  From(Append(r, y), q, N)
  BY Appended DEF From

-----------------------------------------------------------------------------
(* The invariant *)

DeliveryTypes ==
    /\ mail \in [Ids -> Mail \cup {NoMail}]
    /\ outcome \in [Ids -> {"unsent", "waiting", "sent", "reply", "timeout"} \cup Statuses]
    /\ up \in [Agents -> Seq(Ids)]
    /\ down \in [Agents -> Seq(Frames)] /\ wire \in [Agents -> Seq(Frames)]
    /\ connected \subseteq Agents /\ registered \subseteq Agents /\ linked \subseteq Agents
    /\ written \in [Ids -> [Agents -> Nat]]

Message(i) == [type |-> "msg", id |-> i]

\* A frame that is on its way down a socket or over the relay.
Carried(f) ==
    \E a \in Agents : \/ \E k \in DOMAIN down[a] : down[a][k] = f
                      \/ \E k \in DOMAIN wire[a] : wire[a][k] = f

\* The places from which a message may still be written to its addressee: its
\* broker has not read it, or the leader of the other machine has not.
Waits(i, a, k) == a \in Agents /\ k \in DOMAIN up[a] /\ up[a][k] = i
Travels(i, a, k) == a \in Leads /\ k \in DOMAIN wire[a] /\ wire[a][k] = Message(i)

Pending(i) == \E a \in Agents, k \in Nat : Waits(i, a, k) \/ Travels(i, a, k)

OnePlace(i) ==
    \A a, b \in Agents, k, l \in Nat :
        /\ ~ (Waits(i, a, k) /\ Travels(i, b, l))
        /\ Waits(i, a, k) /\ Waits(i, b, l) => a = b /\ k = l
        /\ Travels(i, a, k) /\ Travels(i, b, l) => a = b /\ k = l

\* Nothing of an id exists before its message is sent.
UnsentNowhere(i) ==
    /\ outcome[i] = "unsent" <=> mail[i] = NoMail
    /\ outcome[i] = "unsent" =>
          /\ \A a \in Agents : written[i][a] = 0
          /\ ~ Pending(i) /\ \A f \in Frames : Carried(f) => f.id # i

\* A message to one agent is in one place at most; while it is, nobody wrote
\* it and nothing was said of it but that the caller no longer waits.
PendingUnwritten(i) ==
    mail[i].kind = "send" =>
        /\ OnePlace(i)
        /\ Pending(i) => outcome[i] \in {"waiting", "timeout"} /\ written[i][mail[i].to] = 0

\* What an answer under way says is so, and stays so: the message is gone.
AnswersTrue(i) ==
    \A f \in Frames : Carried(f) /\ f.id = i =>
        /\ f.type \in {"ack", "transport_error"} =>
              /\ mail[i].kind = "send" /\ ~ Pending(i)
              /\ written[i][mail[i].to] =
                    IF f.type = "ack" /\ f.status = "received" THEN 1 ELSE 0
        /\ f.type = "reply" => mail[i].kind = "list_peers"

IdInv(i) == UnsentNowhere(i) /\ PendingUnwritten(i) /\ AnswersTrue(i)

DeliveryInv == DeliveryTypes /\ \A i \in Ids : IdInv(i)

LEMMA FrameShapes ==
    /\ \A f \in Frames : f.id \in Ids /\ (f.type = "msg" => f = Message(f.id))
    /\ \A f \in Frames : f.type = "ack" => f.status \in Statuses
    /\ \A f \in Frames : f.type = "transport_error" => f.reason \in Reasons
    /\ \A i \in Ids : /\ Message(i) \in Frames
                      /\ [type |-> "reply", id |-> i] \in Frames
                      /\ \A s \in Statuses, by \in {"broker", "remote"} : Ack(i, s, by) \in Frames
                      /\ \A r \in Reasons : [type |-> "transport_error", id |-> i, reason |-> r] \in Frames
  BY DEF Frames, Message, Ack

LEMMA QueueIndexes ==
    ASSUME DeliveryTypes, NEW a \in Agents
    PROVE  /\ up[a] \in Seq(Ids) /\ DOMAIN up[a] \subseteq Nat
           /\ down[a] \in Seq(Frames) /\ DOMAIN down[a] \subseteq Nat
           /\ wire[a] \in Seq(Frames) /\ DOMAIN wire[a] \subseteq Nat
<1>1. up[a] \in Seq(Ids) /\ down[a] \in Seq(Frames) /\ wire[a] \in Seq(Frames)
  BY DEF DeliveryTypes
<1> QED
  BY <1>1, LenProperties

LEMMA LeadsAreAgents == Leads \subseteq Agents
  BY DeliveryAssumption

\* Where a step puts nothing of i, i is in no more places than before.
LEMMA PlacesShrink ==
    ASSUME DeliveryTypes, DeliveryTypes', NEW i \in Ids,
           \A a \in Agents : RestOf(up'[a], up[a], i),
           \A a \in Leads : RestOf(wire'[a], wire[a], Message(i))
    PROVE  /\ Pending(i)' => Pending(i)
           /\ OnePlace(i) => OnePlace(i)'
<1>1. \A a \in Agents : \E d \in Nat : \A k \in Nat : Waits(i, a, k)' => k + d \in Nat /\ Waits(i, a, k + d)
  BY DEF RestOf, Waits
<1>2. \A a \in Agents : \E d \in Nat : \A k \in Nat : Travels(i, a, k)' => k + d \in Nat /\ Travels(i, a, k + d)
  BY LeadsAreAgents DEF RestOf, Travels, Message
<1>3. Pending(i)' => Pending(i)
  BY <1>1, <1>2 DEF Pending
<1>4. ASSUME OnePlace(i), NEW a \in Agents, NEW b \in Agents, NEW k \in Nat, NEW l \in Nat
      PROVE  /\ ~ (Waits(i, a, k)' /\ Travels(i, b, l)')
             /\ Waits(i, a, k)' /\ Waits(i, b, l)' => a = b /\ k = l
             /\ Travels(i, a, k)' /\ Travels(i, b, l)' => a = b /\ k = l
  <2>1. PICK d \in Nat : \A n \in Nat : Waits(i, a, n)' => n + d \in Nat /\ Waits(i, a, n + d)
    BY <1>1
  <2>2. PICK e \in Nat : \A n \in Nat : Waits(i, b, n)' => n + e \in Nat /\ Waits(i, b, n + e)
    BY <1>1
  <2>3. PICK g \in Nat : \A n \in Nat : Travels(i, a, n)' => n + g \in Nat /\ Travels(i, a, n + g)
    BY <1>2
  <2>4. PICK h \in Nat : \A n \in Nat : Travels(i, b, n)' => n + h \in Nat /\ Travels(i, b, n + h)
    BY <1>2
  <2>5. ~ (Waits(i, a, k)' /\ Travels(i, b, l)')
    BY <1>4, <2>1, <2>4 DEF OnePlace
  <2>6. Waits(i, a, k)' /\ Waits(i, b, l)' => a = b /\ k = l
    <3>1. SUFFICES ASSUME Waits(i, a, k)', Waits(i, b, l)' PROVE a = b /\ k = l
      OBVIOUS
    <3>2. a = b
      BY <1>4, <2>1, <2>2, <3>1 DEF OnePlace
    <3>3. Waits(i, a, k + d) /\ Waits(i, a, l + d) /\ k + d \in Nat /\ l + d \in Nat
      BY <2>1, <3>1, <3>2
    <3>4. k + d = l + d
      BY <1>4, <3>3 DEF OnePlace
    <3> QED
      BY <3>2, <3>4
  <2>7. Travels(i, a, k)' /\ Travels(i, b, l)' => a = b /\ k = l
    <3>1. SUFFICES ASSUME Travels(i, a, k)', Travels(i, b, l)' PROVE a = b /\ k = l
      OBVIOUS
    <3>2. a = b
      BY <1>4, <2>3, <2>4, <3>1 DEF OnePlace
    <3>3. Travels(i, a, k + g) /\ Travels(i, a, l + g) /\ k + g \in Nat /\ l + g \in Nat
      BY <2>3, <3>1, <3>2
    <3>4. k + g = l + g
      BY <1>4, <3>3 DEF OnePlace
    <3> QED
      BY <3>2, <3>4
  <2> QED
    BY <2>5, <2>6, <2>7
<1>5. OnePlace(i) => OnePlace(i)'
  BY <1>4 DEF OnePlace
<1> QED
  BY <1>3, <1>5

\* An id the step is not about, or whose caller stops waiting.
LEMMA Bystander ==
    ASSUME DeliveryInv, DeliveryTypes', NEW i \in Ids,
           mail'[i] = mail[i], written'[i] = written[i],
           \/ outcome'[i] = outcome[i]
           \/ /\ outcome[i] # "unsent" /\ outcome'[i] # "unsent"
              /\ outcome'[i] = "timeout" \/ mail[i].kind # "send" \/ ~ Pending(i),
           \A a \in Agents : RestOf(up'[a], up[a], i),
           \A a \in Leads : RestOf(wire'[a], wire[a], Message(i)),
           \A f \in Frames : Carried(f)' /\ f.id = i =>
               Carried(f) \/ (f = Message(i) /\ outcome[i] # "unsent")
    PROVE  IdInv(i)'
<1>1. IdInv(i) /\ DeliveryTypes
  BY DEF DeliveryInv
<1>2. (Pending(i)' => Pending(i)) /\ (OnePlace(i) => OnePlace(i)')
  BY <1>1, PlacesShrink
<1>3. UnsentNowhere(i)'
  BY <1>1, <1>2 DEF IdInv, UnsentNowhere
<1>4. PendingUnwritten(i)'
  BY <1>1, <1>2 DEF IdInv, PendingUnwritten
<1>5. AnswersTrue(i)'
  BY <1>1, <1>2 DEF IdInv, AnswersTrue, Message
<1> QED
  BY <1>3, <1>4, <1>5 DEF IdInv

-----------------------------------------------------------------------------
(* What the operations do to the queues *)

LEMMA UpAppended ==
    ASSUME DeliveryTypes, NEW a \in Agents, NEW i \in Ids,
           up' = [up EXCEPT ![a] = Append(@, i)]
    PROVE  /\ up' \in [Agents -> Seq(Ids)]
           /\ \A b \in Agents : b # a => up'[b] = up[b]
           /\ \A k \in DOMAIN up'[a] :
                 \/ k \in DOMAIN up[a] /\ up'[a][k] = up[a][k]
                 \/ k = Len(up[a]) + 1 /\ k \notin DOMAIN up[a] /\ up'[a][k] = i
  BY Appended DEF DeliveryTypes

\* A frame written to a socket, or cloned by the relay.
\* Two tables of queues: what w holds of x was in v; w holds lines of v or N.
AllRestOf(w, v, x) == \A a \in Agents : RestOf(w[a], v[a], x)
AllFrom(w, v, N) == \A a \in Agents : From(w[a], v[a], N)

LEMMA Lengthened ==
    ASSUME NEW w \in [Agents -> Seq(Frames)], NEW f \in Frames, NEW u,
           \A a \in Agents : u[a] \in {w[a], Append(w[a], f)}, NEW v
    PROVE  /\ \A x : x # f /\ AllRestOf(w, v, x) => AllRestOf(u, v, x)
           /\ \A N : f \in N /\ AllFrom(w, v, N) => AllFrom(u, v, N)
<1>1. ASSUME NEW x, x # f, AllRestOf(w, v, x), NEW a \in Agents
      PROVE  RestOf(u[a], v[a], x)
  <2>1. RestOf(w[a], v[a], x) /\ w[a] \in Seq(Frames)
    BY <1>1 DEF AllRestOf
  <2>2. RestOf(Append(w[a], f), v[a], x)
    BY <1>1, <2>1, AppendedOther
  <2> QED
    BY <2>1, <2>2
<1>2. ASSUME NEW N, f \in N, AllFrom(w, v, N), NEW a \in Agents
      PROVE  From(u[a], v[a], N)
  <2>1. From(w[a], v[a], N) /\ w[a] \in Seq(Frames)
    BY <1>2 DEF AllFrom
  <2>2. From(Append(w[a], f), v[a], N)
    BY <1>2, <2>1, AppendedFrom
  <2> QED
    BY <2>1, <2>2
<1> QED
  BY <1>1, <1>2 DEF AllRestOf, AllFrom

LEMMA WrittenFrames ==
    ASSUME NEW w \in [Agents -> Seq(Frames)], NEW a \in Agents, NEW f \in Frames, NEW v
    PROVE  /\ Written(w, a, f) \in [Agents -> Seq(Frames)]
           /\ \A N : f \in N /\ AllFrom(w, v, N) => AllFrom(Written(w, a, f), v, N)
<1>1. /\ Written(w, a, f) \in [Agents -> Seq(Frames)]
      /\ \A b \in Agents : Written(w, a, f)[b] \in {w[b], Append(w[b], f)}
  BY Appended DEF Written
<1> QED
  BY <1>1, Lengthened

LEMMA ForwardedShape ==
    ASSUME NEW w \in [Agents -> Seq(Frames)], NEW a \in Agents, NEW f \in Frames
    PROVE  /\ Forwarded(w, a, f) \in [Agents -> Seq(Frames)]
           /\ \A b \in Agents : /\ Forwarded(w, a, f)[b] \in {w[b], Append(w[b], f)}
                                /\ b \notin Mates(a) => Forwarded(w, a, f)[b] = w[b]
<1>1. \A b \in Agents : w[b] \in Seq(Frames) /\ Append(w[b], f) \in Seq(Frames)
  BY Appended
<1> QED
  BY <1>1 DEF Forwarded

LEMMA ForwardedFrames ==
    ASSUME NEW w \in [Agents -> Seq(Frames)], NEW a \in Agents, NEW f \in Frames, NEW v
    PROVE  /\ Forwarded(w, a, f) \in [Agents -> Seq(Frames)]
           /\ \A x : x # f /\ AllRestOf(w, v, x) => AllRestOf(Forwarded(w, a, f), v, x)
           /\ \A N : f \in N /\ AllFrom(w, v, N) => AllFrom(Forwarded(w, a, f), v, N)
  BY ForwardedShape, Lengthened

\* One queue lengthened (the relay's own answer to a connection).
LEMMA AnsweredFrames ==
    ASSUME NEW w \in [Agents -> Seq(Frames)], NEW a \in Agents, NEW f \in Frames, NEW v
    PROVE  /\ [w EXCEPT ![a] = Append(@, f)] \in [Agents -> Seq(Frames)]
           /\ \A x : x # f /\ AllRestOf(w, v, x) => AllRestOf([w EXCEPT ![a] = Append(@, f)], v, x)
           /\ \A N : f \in N /\ AllFrom(w, v, N) => AllFrom([w EXCEPT ![a] = Append(@, f)], v, N)
<1>1. /\ [w EXCEPT ![a] = Append(@, f)] \in [Agents -> Seq(Frames)]
      /\ \A b \in Agents : [w EXCEPT ![a] = Append(@, f)][b] \in {w[b], Append(w[b], f)}
  BY Appended
<1> QED
  BY <1>1, Lengthened

\* Reading the head of one queue, or cutting some queues off.
LEMMA ShortenedQueues ==
    ASSUME NEW S, NEW w \in [Agents -> Seq(S)], NEW u \in [Agents -> Seq(S)],
           \A a \in Agents : \/ u[a] \in {w[a], <<>>}
                             \/ w[a] # <<>> /\ u[a] = Tail(w[a])
    PROVE  \A x : AllRestOf(u, w, x) /\ AllFrom(u, w, x)
<1>1. \A r, q, x : Rest(r, q) => RestOf(r, q, x) /\ From(r, q, x)
  BY RestHoldsLess, RestComesFrom
<1>2. ASSUME NEW a \in Agents PROVE Rest(u[a], w[a])
  <2>1. w[a] \in Seq(S)
    OBVIOUS
  <2> QED
    BY <2>1, RestOfQueue
<1> QED
  BY <1>1, <1>2 DEF AllRestOf, AllFrom

LEMMA HeadRead ==
    ASSUME NEW S, NEW w \in [Agents -> Seq(S)], NEW a \in Agents, w[a] # <<>>
    PROVE  /\ [w EXCEPT ![a] = Tail(@)] \in [Agents -> Seq(S)]
           /\ \A x : /\ AllRestOf([w EXCEPT ![a] = Tail(@)], w, x)
                     /\ AllFrom([w EXCEPT ![a] = Tail(@)], w, x)
<1>1. w[a] \in Seq(S)
  OBVIOUS
<1>2. Tail(w[a]) \in Seq(S)
  BY <1>1, RestOfQueue
<1>3. /\ [w EXCEPT ![a] = Tail(@)] \in [Agents -> Seq(S)]
      /\ \A b \in Agents : [w EXCEPT ![a] = Tail(@)][b] \in {w[b], Tail(w[a])}
      /\ \A b \in Agents : b # a => [w EXCEPT ![a] = Tail(@)][b] = w[b]
  BY <1>2
<1> QED
  BY <1>3, ShortenedQueues

LEMMA Unchanged ==
    ASSUME NEW S, NEW w \in [Agents -> Seq(S)]
    PROVE  \A x : AllRestOf(w, w, x) /\ AllFrom(w, w, x)
  BY ShortenedQueues

LEMMA CarriedFrom ==
    ASSUME NEW N, AllFrom(down', down, N), AllFrom(wire', wire, N)
    PROVE  \A f : Carried(f)' => Carried(f) \/ f \in N
  BY DEF Carried, From, AllFrom

\* What a step leaves aside: it puts at most answers and copies of other ids.
LEMMA Aside ==
    ASSUME DeliveryInv, DeliveryTypes', NEW i \in Ids,
           mail'[i] = mail[i], written'[i] = written[i],
           \/ outcome'[i] = outcome[i]
           \/ /\ outcome[i] # "unsent" /\ outcome'[i] # "unsent"
              /\ outcome'[i] = "timeout" \/ mail[i].kind # "send" \/ ~ Pending(i),
           AllRestOf(up', up, i), AllRestOf(wire', wire, Message(i)),
           NEW N, AllFrom(down', down, N), AllFrom(wire', wire, N),
           \A f \in Frames \cap N : f.id = i =>
               Carried(f) \/ (f = Message(i) /\ outcome[i] # "unsent")
    PROVE  IdInv(i)'
<1>1. \A f : Carried(f)' => Carried(f) \/ f \in N
  BY CarriedFrom
<1>2. \A f \in Frames : Carried(f)' /\ f.id = i =>
         Carried(f) \/ (f = Message(i) /\ outcome[i] # "unsent")
  BY <1>1
<1>3. /\ \A a \in Agents : RestOf(up'[a], up[a], i)
      /\ \A a \in Leads : RestOf(wire'[a], wire[a], Message(i))
  BY LeadsAreAgents DEF AllRestOf
<1> QED
  BY <1>2, <1>3, Bystander

LEMMA ForwardedOnce ==
    ASSUME DeliveryTypes, NEW t \in Agents, NEW i \in Ids, wire' = Forwarded(wire, t, Message(i))
    PROVE  /\ wire' \in [Agents -> Seq(Frames)]
           /\ \A b \in Agents : wire'[b] \in {wire[b], Append(wire[b], Message(i))}
           /\ \A b \in Agents : b \notin Mates(t) => wire'[b] = wire[b]
           /\ \A x : x # Message(i) => AllRestOf(wire', wire, x)
           /\ AllFrom(wire', wire, {Message(i)})
<1>1. wire \in [Agents -> Seq(Frames)] /\ Message(i) \in Frames
  BY FrameShapes DEF DeliveryTypes
<1>2. /\ wire' \in [Agents -> Seq(Frames)]
      /\ \A b \in Agents : /\ wire'[b] \in {wire[b], Append(wire[b], Message(i))}
                           /\ b \notin Mates(t) => wire'[b] = wire[b]
  BY <1>1, ForwardedShape
<1>3. \A x : AllRestOf(wire, wire, x) /\ AllFrom(wire, wire, x)
  BY <1>1, Unchanged
<1>4. /\ \A x : x # Message(i) /\ AllRestOf(wire, wire, x) => AllRestOf(wire', wire, x)
      /\ \A N : Message(i) \in N /\ AllFrom(wire, wire, N) => AllFrom(wire', wire, N)
  BY <1>1, <1>2, Lengthened
<1> QED
  BY <1>2, <1>3, <1>4

LEMMA WrittenTwice ==
    ASSUME DeliveryTypes, NEW t \in Agents, NEW a \in Agents, NEW f \in Frames, NEW g \in Frames,
           down' = Written(Written(down, t, f), a, g)
    PROVE  down' \in [Agents -> Seq(Frames)] /\ AllFrom(down', down, {f, g})
<1> SUFFICES ASSUME NEW N, N = {f, g}, NEW w, w = Written(down, t, f)
             PROVE  down' \in [Agents -> Seq(Frames)] /\ AllFrom(down', down, N)
  OBVIOUS
<1>1. f \in N /\ g \in N
  OBVIOUS
<1>2. down \in [Agents -> Seq(Frames)] /\ AllFrom(down, down, N)
  BY Unchanged DEF DeliveryTypes
<1>3. w \in [Agents -> Seq(Frames)] /\ AllFrom(w, down, N)
  BY <1>1, <1>2, WrittenFrames
<1> QED
  BY <1>1, <1>3, WrittenFrames

\* One leader a machine: a frame for a machine reaches one that injects it.
LEMMA OneLead ==
    ASSUME NEW a \in Agents, NEW b \in Leads \cap Mates(a), NEW c \in Leads \cap Mates(a)
    PROVE  b = c
  BY DeliveryAssumption DEF Mates

-----------------------------------------------------------------------------
(* The sender *)

LEMMA MailShapes ==
    /\ \A m \in Mail : m.kind \in MessageKinds /\ m.from \in Agents /\ m.to \in Agents /\ m # NoMail
    /\ NoMail.kind \notin MessageKinds
  BY DEF Mail, NoMail, MessageKinds

LEMMA SubmitStep ==
    ASSUME DeliveryInv, NEW i \in Ids, NEW m \in Mail, Submit(i, m)
    PROVE  DeliveryInv'
<1>1. /\ outcome[i] = "unsent" /\ mail[i] = NoMail /\ m.from \in Agents /\ m # NoMail
      /\ IdInv(i) /\ DeliveryTypes
      /\ UNCHANGED <<down, connected, registered, linked, wire, written>>
      /\ mail' = [mail EXCEPT ![i] = m]
  BY MailShapes DEF DeliveryInv, IdInv, UnsentNowhere, Submit
<1>2. \/ up' = up
      \/ up' = [up EXCEPT ![m.from] = Append(@, i)]
  BY DEF Submit
<1>3. /\ outcome' \in [Ids -> {"unsent", "waiting", "sent", "timeout", "reply"} \cup Statuses]
      /\ outcome'[i] # "unsent" /\ mail'[i] = m
      /\ m.kind = "send" => outcome'[i] \in {"waiting", "timeout"}
      /\ \A j \in Ids : j # i => outcome'[j] = outcome[j] /\ mail'[j] = mail[j]
  BY <1>1 DEF Submit, DeliveryTypes
<1>4. up' \in [Agents -> Seq(Ids)]
  BY <1>1, <1>2, UpAppended DEF DeliveryTypes
<1>5. DeliveryTypes'
  BY <1>1, <1>3, <1>4 DEF DeliveryTypes
<1>6. ASSUME NEW j \in Ids, j # i PROVE IdInv(j)'
  <2>1. AllRestOf(up', up, j)
    <3> SUFFICES ASSUME NEW a \in Agents PROVE RestOf(up'[a], up[a], j)
      BY DEF AllRestOf
    <3>1. RestOf(up[a], up[a], j) /\ up[a] \in Seq(Ids)
      BY <1>1, Unchanged DEF DeliveryTypes, AllRestOf
    <3>2. RestOf(Append(up[a], i), up[a], j)
      BY <1>6, <3>1, AppendedOther
    <3>3. up'[a] \in {up[a], Append(up[a], i)}
      BY <1>1, <1>2 DEF DeliveryTypes
    <3> QED
      BY <3>1, <3>2, <3>3
  <2>2. AllRestOf(wire', wire, Message(j)) /\ AllFrom(down', down, {}) /\ AllFrom(wire', wire, {})
    BY <1>1, Unchanged DEF DeliveryTypes
  <2> QED
    BY <1>1, <1>3, <1>5, <1>6, <2>1, <2>2, Aside
<1>7. IdInv(i)'
  <2>1. \A f \in Frames : Carried(f)' => f.id # i
    BY <1>1 DEF Carried, IdInv, UnsentNowhere
  <2>2. \A a \in Agents, k \in Nat : ~ Waits(i, a, k) /\ ~ Travels(i, a, k)
    BY <1>1 DEF IdInv, UnsentNowhere, Pending
  <2>3. \A a \in Agents, k \in Nat : ~ Travels(i, a, k)'
    BY <1>1, <2>2 DEF Travels, Message
  <2>4. \A a \in Agents, k \in Nat : Waits(i, a, k)' => a = m.from /\ k = Len(up[m.from]) + 1
    <3>1. CASE up' = up
      BY <3>1, <2>2 DEF Waits
    <3>2. CASE up' = [up EXCEPT ![m.from] = Append(@, i)]
      BY <3>2, <2>2, <1>1, UpAppended DEF Waits
    <3> QED
      BY <1>2, <3>1, <3>2
  <2>5. UnsentNowhere(i)'
    BY <1>1, <1>3 DEF UnsentNowhere
  <2>6. PendingUnwritten(i)'
    BY <1>1, <1>3, <2>3, <2>4, MailShapes DEF PendingUnwritten, OnePlace, IdInv, UnsentNowhere
  <2>7. AnswersTrue(i)'
    BY <2>1 DEF AnswersTrue
  <2> QED
    BY <2>5, <2>6, <2>7 DEF IdInv
<1> QED
  BY <1>5, <1>6, <1>7 DEF DeliveryInv

LEMMA FederatedStep ==
    ASSUME DeliveryInv, NEW i \in Ids, NEW m \in Mail, SubmitFederated(i, m)
    PROVE  DeliveryInv'
<1>1. /\ outcome[i] = "unsent" /\ m.to \in Agents /\ m # NoMail /\ m.kind = "federated"
      /\ IdInv(i) /\ DeliveryTypes
      /\ UNCHANGED <<up, down, connected, registered, linked, written>>
      /\ mail' = [mail EXCEPT ![i] = m] /\ outcome' = [outcome EXCEPT ![i] = "sent"]
      /\ wire' = Forwarded(wire, m.to, Message(i))
  BY MailShapes DEF DeliveryInv, SubmitFederated, Message
<1>2. Message(i) \in Frames
  BY FrameShapes
<1>3. DeliveryTypes'
  BY <1>1, <1>2, ForwardedFrames DEF DeliveryTypes
<1>4. AllFrom(down', down, {Message(i)}) /\ AllFrom(wire', wire, {Message(i)})
  BY <1>1, <1>2, Unchanged, ForwardedFrames DEF DeliveryTypes
<1>5. ASSUME NEW j \in Ids, j # i PROVE IdInv(j)'
  <2>1. AllRestOf(up', up, j)
    BY <1>1, Unchanged DEF DeliveryTypes
  <2>2. Message(j) # Message(i) /\ Message(i).id = i
    BY <1>5 DEF Message
  <2>3. AllRestOf(wire', wire, Message(j))
    BY <1>1, <1>2, <2>2, Unchanged, ForwardedFrames DEF DeliveryTypes
  <2>4. mail'[j] = mail[j] /\ outcome'[j] = outcome[j] /\ written'[j] = written[j]
    BY <1>1, <1>5 DEF DeliveryTypes
  <2> QED
    BY <1>3, <1>4, <1>5, <2>1, <2>2, <2>3, <2>4, Aside
<1>6. IdInv(i)'
  <2>1. mail'[i] = m /\ outcome'[i] = "sent"
    BY <1>1 DEF DeliveryTypes
  <2>2. UnsentNowhere(i)' /\ PendingUnwritten(i)'
    BY <1>1, <2>1 DEF UnsentNowhere, PendingUnwritten
  <2>3. \A f \in Frames : Carried(f)' /\ f.id = i => f = Message(i)
    BY <1>1, <1>4, CarriedFrom DEF IdInv, UnsentNowhere
  <2>4. AnswersTrue(i)'
    BY <2>3 DEF AnswersTrue, Message
  <2> QED
    BY <2>2, <2>4 DEF IdInv
<1> QED
  BY <1>3, <1>5, <1>6 DEF DeliveryInv

LEMMA TimeoutStep ==
    ASSUME DeliveryInv, NEW i \in Ids, SlotTimeout(i)
    PROVE  DeliveryInv'
<1>1. /\ outcome[i] = "waiting" /\ outcome' = [outcome EXCEPT ![i] = "timeout"] /\ DeliveryTypes
      /\ UNCHANGED <<mail, up, down, connected, registered, linked, wire, written>>
  BY DEF DeliveryInv, SlotTimeout
<1>2. DeliveryTypes'
  BY <1>1 DEF DeliveryTypes
<1>3. ASSUME NEW j \in Ids PROVE IdInv(j)'
  <2>1. /\ AllRestOf(up', up, j) /\ AllRestOf(wire', wire, Message(j))
        /\ AllFrom(down', down, {}) /\ AllFrom(wire', wire, {})
    BY <1>1, Unchanged DEF DeliveryTypes
  <2>2. /\ mail'[j] = mail[j] /\ written'[j] = written[j]
        /\ \/ outcome'[j] = outcome[j]
           \/ outcome[j] # "unsent" /\ outcome'[j] = "timeout"
    BY <1>1 DEF DeliveryTypes
  <2> QED
    BY <1>2, <2>1, <2>2, Aside
<1> QED
  BY <1>2, <1>3 DEF DeliveryInv

-----------------------------------------------------------------------------
(* The broker and the relay *)

\* The line at the head of a stream the broker reads is its message's only place.
LEMMA Taken ==
    ASSUME DeliveryInv, NEW a \in Agents, up[a] # <<>>, NEW i, i = Head(up[a]),
           up' = [up EXCEPT ![a] = Tail(@)]
    PROVE  /\ i \in Ids /\ mail[i] \in Mail /\ outcome[i] # "unsent"
           /\ up' \in [Agents -> Seq(Ids)] /\ \A j : AllRestOf(up', up, j)
           /\ mail[i].kind = "send" =>
                 /\ written[i][mail[i].to] = 0
                 /\ \A f \in Frames : Carried(f) /\ f.id = i => f.type = "msg"
                 /\ \A b \in Agents, k \in Nat : ~ Waits(i, b, k)' /\ ~ Travels(i, b, k)
<1>1. DeliveryTypes /\ up[a] \in Seq(Ids)
  BY DEF DeliveryInv, DeliveryTypes
<1>2. /\ i \in Ids /\ 1 \in DOMAIN up[a] /\ up[a][1] = i
      /\ \A k \in DOMAIN Tail(up[a]) : k + 1 \in DOMAIN up[a] /\ k + 1 # 1 /\ Tail(up[a])[k] = up[a][k + 1]
  BY <1>1, RestOfQueue
<1>3. Waits(i, a, 1) /\ Pending(i) /\ IdInv(i)
  BY <1>2 DEF Waits, Pending, DeliveryInv
<1>4. outcome[i] # "unsent" /\ mail[i] \in Mail
  BY <1>1, <1>2, <1>3 DEF IdInv, UnsentNowhere, DeliveryTypes
<1>5. up' \in [Agents -> Seq(Ids)] /\ \A j : AllRestOf(up', up, j)
  BY <1>1, HeadRead DEF DeliveryTypes
<1>6. ASSUME mail[i].kind = "send"
      PROVE  /\ written[i][mail[i].to] = 0
             /\ \A f \in Frames : Carried(f) /\ f.id = i => f.type = "msg"
             /\ \A b \in Agents, k \in Nat : ~ Waits(i, b, k)' /\ ~ Travels(i, b, k)
  <2>1. OnePlace(i) /\ written[i][mail[i].to] = 0
    BY <1>3, <1>6 DEF IdInv, PendingUnwritten
  <2>2. \A f \in Frames : Carried(f) /\ f.id = i => f.type = "msg"
    BY <1>3, <1>6 DEF IdInv, AnswersTrue, Frames
  <2>3. ASSUME NEW b \in Agents, NEW k \in Nat PROVE ~ Waits(i, b, k)' /\ ~ Travels(i, b, k)
    <3>1. ~ Travels(i, b, k)
      BY <1>3, <2>1 DEF OnePlace
    <3>2. CASE b # a
      <4>1. up'[b] = up[b]
        BY <1>1, <3>2 DEF DeliveryTypes
      <4>2. ~ Waits(i, b, k)
        BY <1>3, <2>1, <3>2 DEF OnePlace
      <4> QED
        BY <3>1, <4>1, <4>2 DEF Waits
    <3>3. CASE b = a
      <4>1. up'[a] = Tail(up[a])
        BY <1>1 DEF DeliveryTypes
      <4>2. ASSUME Waits(i, a, k)' PROVE FALSE
        <5>1. k \in DOMAIN Tail(up[a]) /\ Tail(up[a])[k] = i
          BY <4>1, <4>2 DEF Waits
        <5>2. Waits(i, a, k + 1) /\ k + 1 # 1 /\ k + 1 \in Nat
          BY <5>1, <1>2 DEF Waits
        <5> QED
          BY <5>2, <1>3, <2>1 DEF OnePlace
      <4> QED
        BY <3>1, <3>3, <4>2
    <3> QED
      BY <3>2, <3>3
  <2> QED
    BY <2>1, <2>2, <2>3
<1> QED
  BY <1>2, <1>4, <1>5, <1>6

\* A message that can no longer be written, of which the truth is told.
LEMMA Concluded ==
    ASSUME DeliveryInv, DeliveryTypes', NEW i \in Ids,
           mail' = mail, outcome' = outcome, mail[i].kind = "send", outcome[i] # "unsent",
           \A b \in Agents, k \in Nat : ~ Waits(i, b, k)' /\ ~ Travels(i, b, k)',
           \A f \in Frames : Carried(f)' /\ f.id = i =>
               \/ f.type = "msg"
               \/ /\ f.type \in {"ack", "transport_error"}
                  /\ written'[i][mail[i].to] =
                        IF f.type = "ack" /\ f.status = "received" THEN 1 ELSE 0
    PROVE  IdInv(i)'
<1>1. ~ Pending(i)' /\ OnePlace(i)'
  BY DEF Pending, OnePlace
<1>2. UnsentNowhere(i)' /\ PendingUnwritten(i)'
  BY <1>1 DEF DeliveryInv, IdInv, UnsentNowhere, PendingUnwritten
<1>3. AnswersTrue(i)'
  BY <1>1 DEF AnswersTrue
<1> QED
  BY <1>2, <1>3 DEF IdInv

\* What does not read or write a message's tables.
LEMMA AsideRouted ==
    ASSUME DeliveryInv, NEW i \in Ids, DeliveryTypes',
           mail' = mail, outcome' = outcome, \A j \in Ids : AllRestOf(up', up, j),
           \A j \in Ids : j # i => written'[j] = written[j] /\ AllRestOf(wire', wire, Message(j)),
           \A f \in Frames : Carried(f)' => Carried(f) \/ f.id = i,
           IdInv(i)'
    PROVE  DeliveryInv'
<1>1. ASSUME NEW j \in Ids, j # i PROVE IdInv(j)'
  <2>1. mail'[j] = mail[j] /\ outcome'[j] = outcome[j] /\ written'[j] = written[j]
    BY <1>1
  <2>2. \A f \in Frames : Carried(f)' /\ f.id = j => Carried(f)
    BY <1>1
  <2>3. /\ \A a \in Agents : RestOf(up'[a], up[a], j)
        /\ \A a \in Leads : RestOf(wire'[a], wire[a], Message(j))
    BY <1>1, LeadsAreAgents DEF AllRestOf
  <2> QED
    BY <2>1, <2>2, <2>3, Bystander
<1> QED
  BY <1>1 DEF DeliveryInv

LEMMA ListPeersStep ==
    ASSUME DeliveryInv, NEW a \in Agents, up[a] # <<>>, up' = [up EXCEPT ![a] = Tail(@)],
           NEW i, i = Head(up[a]), mail[i].kind = "list_peers",
           down' = Written(down, a, [type |-> "reply", id |-> i]),
           UNCHANGED <<wire, written, mail, outcome, connected, registered, linked>>
    PROVE  DeliveryInv'
<1> DEFINE r == [type |-> "reply", id |-> i]
<1>1. /\ i \in Ids /\ r \in Frames /\ DeliveryTypes /\ outcome[i] # "unsent"
      /\ up' \in [Agents -> Seq(Ids)] /\ \A j : AllRestOf(up', up, j)
  BY Taken, FrameShapes DEF DeliveryInv
<1>2. down' \in [Agents -> Seq(Frames)] /\ AllFrom(down', down, {r})
  BY <1>1, Unchanged, WrittenFrames DEF DeliveryTypes
<1>3. \A j : AllRestOf(wire', wire, j) /\ AllFrom(wire', wire, j)
  BY <1>1, Unchanged DEF DeliveryTypes
<1>4. DeliveryTypes'
  BY <1>1, <1>2 DEF DeliveryTypes
<1>5. IdInv(i)'
  <2>1. \A f \in Frames : Carried(f)' /\ f.id = i => Carried(f) \/ f = r
    BY <1>2, <1>3, CarriedFrom
  <2>2. UnsentNowhere(i)' /\ PendingUnwritten(i)'
    BY <1>1 DEF DeliveryInv, IdInv, UnsentNowhere, PendingUnwritten
  <2>3. AnswersTrue(i)'
    BY <1>1, <2>1 DEF DeliveryInv, IdInv, AnswersTrue
  <2> QED
    BY <2>2, <2>3 DEF IdInv
<1>6. \A f \in Frames : Carried(f)' => Carried(f) \/ f.id = i
  BY <1>2, <1>3, CarriedFrom
<1> QED
  BY <1>1, <1>2, <1>3, <1>4, <1>5, <1>6, AsideRouted

LEMMA BroadcastStep ==
    ASSUME DeliveryInv, NEW a \in Agents, up[a] # <<>>, up' = [up EXCEPT ![a] = Tail(@)],
           NEW i, i = Head(up[a]), mail[i].kind = "broadcast",
           down' = [b \in Agents |-> IF b \in Colleagues(a) \cap connected
                       THEN Append(down[b], [type |-> "msg", id |-> i]) ELSE down[b]],
           written' = [written EXCEPT ![i] =
              [b \in Agents |-> IF b \in Colleagues(a) THEN @[b] + 1 ELSE @[b]]],
           UNCHANGED <<wire, mail, outcome, connected, registered, linked>>
    PROVE  DeliveryInv'
<1>1. /\ i \in Ids /\ Message(i) \in Frames /\ DeliveryTypes /\ outcome[i] # "unsent"
      /\ up' \in [Agents -> Seq(Ids)] /\ \A j : AllRestOf(up', up, j)
  BY Taken, FrameShapes DEF DeliveryInv
<1>2. /\ down' \in [Agents -> Seq(Frames)]
      /\ \A b \in Agents : down'[b] \in {down[b], Append(down[b], Message(i))}
  <2>1. \A b \in Agents : down[b] \in Seq(Frames) /\ Append(down[b], Message(i)) \in Seq(Frames)
    BY <1>1, Appended DEF DeliveryTypes
  <2> QED
    BY <2>1 DEF Message
<1>3. AllFrom(down', down, {Message(i)})
  <2>1. down \in [Agents -> Seq(Frames)] /\ AllFrom(down, down, {Message(i)})
    BY <1>1, Unchanged DEF DeliveryTypes
  <2> QED
    BY <1>1, <1>2, <2>1, Lengthened
<1>4. \A j : AllRestOf(wire', wire, j) /\ AllFrom(wire', wire, j)
  BY <1>1, Unchanged DEF DeliveryTypes
<1>5. /\ written' \in [Ids -> [Agents -> Nat]]
      /\ \A j \in Ids : j # i => written'[j] = written[j]
  BY <1>1 DEF DeliveryTypes
<1>6. DeliveryTypes'
  BY <1>1, <1>2, <1>5 DEF DeliveryTypes
<1>7. IdInv(i)'
  <2>1. \A f \in Frames : Carried(f)' /\ f.id = i => Carried(f) \/ f = Message(i)
    BY <1>3, <1>4, CarriedFrom
  <2>2. UnsentNowhere(i)' /\ PendingUnwritten(i)'
    BY <1>1 DEF DeliveryInv, IdInv, UnsentNowhere, PendingUnwritten
  <2>3. AnswersTrue(i)'
    BY <1>1, <2>1 DEF DeliveryInv, IdInv, AnswersTrue, Message
  <2> QED
    BY <2>2, <2>3 DEF IdInv
<1>8. \A f \in Frames : Carried(f)' => Carried(f) \/ f.id = i
  BY <1>3, <1>4, CarriedFrom DEF Message
<1> QED
  BY <1>1, <1>3, <1>4, <1>5, <1>6, <1>7, <1>8, AsideRouted

LEMMA RemoteStep ==
    ASSUME DeliveryInv, NEW a \in Agents, up[a] # <<>>, up' = [up EXCEPT ![a] = Tail(@)],
           NEW i, i = Head(up[a]), mail[i].kind = "send",
           HandlePiEnvelope(Leader(a), mail[i].to, [type |-> "msg", id |-> i]),
           UNCHANGED <<down, written, mail, outcome, connected, registered, linked>>
    PROVE  DeliveryInv'
<1> DEFINE Error(r) == [type |-> "transport_error", id |-> i, reason |-> r]
<1>1. /\ i \in Ids /\ Message(i) \in Frames /\ \A r \in Reasons : Error(r) \in Frames
      /\ DeliveryTypes /\ outcome[i] # "unsent" /\ mail[i].to \in Agents
      /\ up' \in [Agents -> Seq(Ids)] /\ \A j : AllRestOf(up', up, j)
  BY Taken, FrameShapes, MailShapes DEF DeliveryInv
<1>2. Leader(a) \in Agents
  BY DeliveryAssumption DEF Leader
<1>3. /\ written[i][mail[i].to] = 0
      /\ \A f \in Frames : Carried(f) /\ f.id = i => f.type = "msg"
      /\ \A b \in Agents, k \in Nat : ~ Waits(i, b, k)' /\ ~ Travels(i, b, k)
  BY Taken
<1>4. \A j : AllRestOf(wire, wire, j) /\ AllFrom(wire, wire, j) /\ AllFrom(down', down, j)
  BY <1>1, Unchanged DEF DeliveryTypes
<1>5. PICK r \in Reasons :
         \/ wire' = [wire EXCEPT ![Leader(a)] = Append(@, Error(r))]
         \/ wire' = Forwarded(wire, mail[i].to, Message(i))
  BY DEF HandlePiEnvelope, Reasons, Message
<1>6. CASE wire' = [wire EXCEPT ![Leader(a)] = Append(@, Error(r))]
  <2>1. /\ wire' \in [Agents -> Seq(Frames)]
        /\ \A x : x # Error(r) => AllRestOf(wire', wire, x)
        /\ AllFrom(wire', wire, {Error(r)})
    BY <1>1, <1>2, <1>4, <1>6, AnsweredFrames DEF DeliveryTypes
  <2>2. DeliveryTypes'
    BY <1>1, <2>1 DEF DeliveryTypes
  <2>3. \A j : AllRestOf(wire', wire, Message(j))
    BY <2>1 DEF Message
  <2>4. \A b \in Agents, k \in Nat : ~ Travels(i, b, k)'
    <3>1. \A b \in Agents : RestOf(wire'[b], wire[b], Message(i))
      BY <2>3 DEF AllRestOf
    <3>2. \A b \in Agents : DOMAIN wire[b] \subseteq Nat
      BY <1>1, QueueIndexes
    <3> QED
      BY <1>3, <3>1, <3>2 DEF Travels, RestOf, Message
  <2>5. \A f \in Frames : Carried(f)' /\ f.id = i => f.type = "msg" \/ f = Error(r)
    BY <1>3, <1>4, <2>1, CarriedFrom
  <2>6. IdInv(i)'
    <3>1. \A f \in Frames : Carried(f)' /\ f.id = i =>
             \/ f.type = "msg"
             \/ /\ f.type \in {"ack", "transport_error"}
                /\ written'[i][mail[i].to] =
                      IF f.type = "ack" /\ f.status = "received" THEN 1 ELSE 0
      BY <1>3, <2>5
    <3> QED
      BY <1>1, <1>3, <2>2, <2>4, <3>1, Concluded
  <2>7. \A f \in Frames : Carried(f)' => Carried(f) \/ f.id = i
    BY <1>4, <2>1, CarriedFrom
  <2> QED
    BY <1>1, <1>4, <2>1, <2>2, <2>3, <2>6, <2>7, AsideRouted
<1>7. CASE wire' = Forwarded(wire, mail[i].to, Message(i))
  <2> SUFFICES ASSUME NEW t \in Agents, t = mail[i].to PROVE DeliveryInv'
    BY <1>1
  <2>1. /\ wire' \in [Agents -> Seq(Frames)]
        /\ \A b \in Agents : wire'[b] \in {wire[b], Append(wire[b], Message(i))}
        /\ \A b \in Agents : b \notin Mates(t) => wire'[b] = wire[b]
        /\ \A x : x # Message(i) => AllRestOf(wire', wire, x)
        /\ AllFrom(wire', wire, {Message(i)})
    BY <1>1, <1>7, ForwardedOnce
  <2>2. DeliveryTypes'
    BY <1>1, <2>1 DEF DeliveryTypes
  <2>3. \A j \in Ids : j # i => AllRestOf(wire', wire, Message(j))
    BY <2>1 DEF Message
  <2>4. \A f \in Frames : Carried(f)' /\ f.id = i => f.type = "msg"
    <3>1. AllFrom(down', down, {Message(i)}) /\ AllFrom(wire', wire, {Message(i)})
      BY <1>4, <2>1
    <3>2. \A f : Carried(f)' => Carried(f) \/ f = Message(i)
      BY <3>1, CarriedFrom
    <3> QED
      BY <1>3, <3>2 DEF Message
  <2>5. \A b \in Agents, k \in Nat : Travels(i, b, k)' => b \in Leads \cap Mates(t) /\ k = Len(wire[b]) + 1
    <3>1. SUFFICES ASSUME NEW b \in Agents, NEW k \in Nat, Travels(i, b, k)'
                   PROVE  b \in Mates(t) /\ k = Len(wire[b]) + 1
      BY DEF Travels
    <3>2. k \in DOMAIN wire'[b] /\ wire'[b][k] = Message(i) /\ b \in Leads
      BY <3>1 DEF Travels, Message
    <3>3. ~ (k \in DOMAIN wire[b] /\ wire[b][k] = Message(i))
      BY <1>3, <3>2 DEF Travels, Message
    <3>4. wire'[b] # wire[b]
      BY <3>2, <3>3
    <3>5. wire'[b] = Append(wire[b], Message(i)) /\ b \in Mates(t) /\ wire[b] \in Seq(Frames)
      BY <1>1, <2>1, <3>4 DEF DeliveryTypes
    <3> QED
      BY <1>1, <3>2, <3>3, <3>5, Appended
  <2>6. OnePlace(i)'
    BY <1>1, <1>3, <2>5, OneLead DEF OnePlace
  <2>7. /\ UnsentNowhere(i)'
        /\ mail'[i].kind = "send" /\ written'[i][mail'[i].to] = 0
    BY <1>1, <1>3 DEF DeliveryInv, IdInv, UnsentNowhere
  <2>8. outcome[i] \in {"waiting", "timeout"}
    <3>1. IdInv(i) /\ up[a] \in Seq(Ids)
      BY <1>1 DEF DeliveryInv, DeliveryTypes
    <3>2. Pending(i)
      BY <3>1, RestOfQueue DEF Pending, Waits
    <3> QED
      BY <3>1, <3>2 DEF IdInv, PendingUnwritten
  <2>9. PendingUnwritten(i)'
    BY <2>6, <2>7, <2>8 DEF PendingUnwritten
  <2>10. AnswersTrue(i)'
    BY <2>4 DEF AnswersTrue
  <2>11. IdInv(i)'
    BY <2>7, <2>9, <2>10 DEF IdInv
  <2>12. \A f \in Frames : Carried(f)' => Carried(f) \/ f.id = i
    BY <1>4, <2>1, CarriedFrom DEF Message
  <2> QED
    BY <1>1, <1>4, <2>1, <2>2, <2>3, <2>11, <2>12, AsideRouted
<1> QED
  BY <1>5, <1>6, <1>7

LEMMA LocalStep ==
    ASSUME DeliveryInv, NEW a \in Agents, up[a] # <<>>, up' = [up EXCEPT ![a] = Tail(@)],
           NEW i, i = Head(up[a]), mail[i].kind = "send",
           down' = Written(Written(down, mail[i].to, [type |-> "msg", id |-> i]),
                           a, Ack(i, "received", "broker")),
           written' = [written EXCEPT ![i][mail[i].to] = @ + 1],
           UNCHANGED <<wire, mail, outcome, connected, registered, linked>>
    PROVE  DeliveryInv'
<1> DEFINE ack == Ack(i, "received", "broker")
<1>1. /\ i \in Ids /\ Message(i) \in Frames /\ ack \in Frames
      /\ DeliveryTypes /\ outcome[i] # "unsent" /\ mail[i].to \in Agents
      /\ up' \in [Agents -> Seq(Ids)] /\ \A j : AllRestOf(up', up, j)
  BY Taken, FrameShapes, MailShapes DEF DeliveryInv, Statuses
<1>2. /\ written[i][mail[i].to] = 0
      /\ \A f \in Frames : Carried(f) /\ f.id = i => f.type = "msg"
      /\ \A b \in Agents, k \in Nat : ~ Waits(i, b, k)' /\ ~ Travels(i, b, k)
  BY Taken
<1>3. \A j : AllRestOf(wire', wire, j) /\ AllFrom(wire', wire, j) /\ AllFrom(down, down, j)
  BY <1>1, Unchanged DEF DeliveryTypes
<1>4. down' \in [Agents -> Seq(Frames)] /\ AllFrom(down', down, {Message(i), ack})
  BY <1>1, WrittenTwice DEF Message
<1>5. /\ written' \in [Ids -> [Agents -> Nat]] /\ written'[i][mail[i].to] = 1
      /\ \A j \in Ids : j # i => written'[j] = written[j]
  BY <1>1, <1>2 DEF DeliveryTypes
<1>6. DeliveryTypes'
  BY <1>1, <1>4, <1>5 DEF DeliveryTypes
<1>7. \A f \in Frames : Carried(f)' => Carried(f) \/ f \in {Message(i), ack}
  BY <1>3, <1>4, CarriedFrom
<1>8. IdInv(i)'
  <2>1. \A b \in Agents, k \in Nat : ~ Travels(i, b, k)'
    BY <1>2 DEF Travels, Message
  <2>2. \A f \in Frames : Carried(f)' /\ f.id = i =>
           \/ f.type = "msg"
           \/ /\ f.type \in {"ack", "transport_error"}
              /\ written'[i][mail[i].to] =
                    IF f.type = "ack" /\ f.status = "received" THEN 1 ELSE 0
    BY <1>2, <1>5, <1>7 DEF Message, Ack
  <2> QED
    BY <1>1, <1>2, <1>6, <2>1, <2>2, Concluded
<1>9. \A f \in Frames : Carried(f)' => Carried(f) \/ f.id = i
  BY <1>7 DEF Message, Ack
<1> QED
  BY <1>1, <1>3, <1>5, <1>6, <1>8, <1>9, AsideRouted

LEMMA UnknownStep ==
    ASSUME DeliveryInv, NEW a \in Agents, up[a] # <<>>, up' = [up EXCEPT ![a] = Tail(@)],
           NEW i, i = Head(up[a]), mail[i].kind = "send",
           down' = Written(down, a, Ack(i, "unknown_peer", "broker")),
           UNCHANGED <<wire, written, mail, outcome, connected, registered, linked>>
    PROVE  DeliveryInv'
<1> DEFINE ack == Ack(i, "unknown_peer", "broker")
<1>1. /\ i \in Ids /\ ack \in Frames
      /\ DeliveryTypes /\ outcome[i] # "unsent" /\ mail[i].to \in Agents
      /\ up' \in [Agents -> Seq(Ids)] /\ \A j : AllRestOf(up', up, j)
  BY Taken, FrameShapes, MailShapes DEF DeliveryInv, Statuses
<1>2. /\ written[i][mail[i].to] = 0
      /\ \A f \in Frames : Carried(f) /\ f.id = i => f.type = "msg"
      /\ \A b \in Agents, k \in Nat : ~ Waits(i, b, k)' /\ ~ Travels(i, b, k)
  BY Taken
<1>3. \A j : AllRestOf(wire', wire, j) /\ AllFrom(wire', wire, j) /\ AllFrom(down, down, j)
  BY <1>1, Unchanged DEF DeliveryTypes
<1>4. down' \in [Agents -> Seq(Frames)] /\ AllFrom(down', down, {ack})
  BY <1>1, <1>3, WrittenFrames DEF DeliveryTypes
<1>5. DeliveryTypes'
  BY <1>1, <1>4 DEF DeliveryTypes
<1>6. \A f \in Frames : Carried(f)' => Carried(f) \/ f = ack
  BY <1>3, <1>4, CarriedFrom
<1>7. IdInv(i)'
  <2>1. \A b \in Agents, k \in Nat : ~ Travels(i, b, k)'
    BY <1>2 DEF Travels, Message
  <2>2. \A f \in Frames : Carried(f)' /\ f.id = i =>
           \/ f.type = "msg"
           \/ /\ f.type \in {"ack", "transport_error"}
              /\ written'[i][mail[i].to] =
                    IF f.type = "ack" /\ f.status = "received" THEN 1 ELSE 0
    BY <1>2, <1>6 DEF Ack
  <2> QED
    BY <1>1, <1>2, <1>5, <2>1, <2>2, Concluded
<1>8. \A f \in Frames : Carried(f)' => Carried(f) \/ f.id = i
  BY <1>6 DEF Ack
<1> QED
  BY <1>1, <1>3, <1>5, <1>7, <1>8, AsideRouted

LEMMA RouteStep ==
    ASSUME DeliveryInv, NEW a \in Agents, Route(a)
    PROVE  DeliveryInv'
<1> SUFFICES ASSUME NEW i, i = Head(up[a]) PROVE DeliveryInv'
  OBVIOUS
<1>1. /\ up[a] # <<>> /\ up' = [up EXCEPT ![a] = Tail(@)]
      /\ UNCHANGED <<mail, outcome, connected, registered, linked>>
  BY DEF Route
<1>2. CASE /\ mail[i].kind = "list_peers"
           /\ down' = Written(down, a, [type |-> "reply", id |-> i])
           /\ UNCHANGED <<wire, written>>
  BY <1>1, <1>2, ListPeersStep
<1>3. CASE /\ mail[i].kind = "broadcast"
           /\ down' = [b \in Agents |-> IF b \in Colleagues(a) \cap connected
                          THEN Append(down[b], [type |-> "msg", id |-> i]) ELSE down[b]]
           /\ written' = [written EXCEPT ![i] =
                 [b \in Agents |-> IF b \in Colleagues(a) THEN @[b] + 1 ELSE @[b]]]
           /\ UNCHANGED wire
  BY <1>1, <1>3, BroadcastStep
<1>4. CASE /\ mail[i].kind = "send"
           /\ HandlePiEnvelope(Leader(a), mail[i].to, [type |-> "msg", id |-> i])
           /\ UNCHANGED <<down, written>>
  BY <1>1, <1>4, RemoteStep
<1>5. CASE /\ mail[i].kind = "send"
           /\ down' = Written(Written(down, mail[i].to, [type |-> "msg", id |-> i]),
                              a, Ack(i, "received", "broker"))
           /\ written' = [written EXCEPT ![i][mail[i].to] = @ + 1]
           /\ UNCHANGED wire
  BY <1>1, <1>5, LocalStep
<1>6. CASE /\ mail[i].kind = "send"
           /\ down' = Written(down, a, Ack(i, "unknown_peer", "broker"))
           /\ UNCHANGED <<wire, written>>
  BY <1>1, <1>6, UnknownStep
<1> QED
  BY <1>2, <1>3, <1>4, <1>5, <1>6 DEF Route

-----------------------------------------------------------------------------
(* The relay connection *)

LEMMA Arrived ==
    ASSUME DeliveryInv, NEW a \in Agents, wire[a] # <<>>, NEW f, f = Head(wire[a]),
           NEW rest, rest = [wire EXCEPT ![a] = Tail(@)]
    PROVE  /\ f \in Frames /\ f.id \in Ids /\ Carried(f)
           /\ mail[f.id] \in Mail /\ outcome[f.id] # "unsent"
           /\ rest \in [Agents -> Seq(Frames)]
           /\ \A x : AllRestOf(rest, wire, x) /\ AllFrom(rest, wire, x)
<1>1. wire \in [Agents -> Seq(Frames)] /\ wire[a] \in Seq(Frames) /\ DeliveryTypes
  BY DEF DeliveryInv, DeliveryTypes
<1>2. f \in Frames /\ 1 \in DOMAIN wire[a] /\ wire[a][1] = f
  BY <1>1, RestOfQueue
<1>3. f.id \in Ids /\ Carried(f) /\ IdInv(f.id)
  BY <1>2, FrameShapes DEF Carried, DeliveryInv
<1>4. outcome[f.id] # "unsent" /\ mail[f.id] \in Mail
  BY <1>1, <1>2, <1>3 DEF IdInv, UnsentNowhere, DeliveryTypes
<1> QED
  BY <1>1, <1>2, <1>3, <1>4, HeadRead

\* A message the leader of its addressee's machine reads is in no other place.
LEMMA ArrivedOnce ==
    ASSUME DeliveryInv, NEW a \in Leads, wire[a] # <<>>, NEW i \in Ids, Head(wire[a]) = Message(i),
           mail[i].kind = "send", NEW rest, rest = [wire EXCEPT ![a] = Tail(@)]
    PROVE  /\ written[i][mail[i].to] = 0
           /\ \A f \in Frames : Carried(f) /\ f.id = i => f.type = "msg"
           /\ \A b \in Agents, k \in Nat : ~ Waits(i, b, k)
           /\ \A b \in Leads, k \in Nat : ~ (k \in DOMAIN rest[b] /\ rest[b][k] = Message(i))
<1>1. /\ wire \in [Agents -> Seq(Frames)] /\ wire[a] \in Seq(Frames) /\ a \in Agents
      /\ DeliveryTypes /\ IdInv(i)
  BY LeadsAreAgents DEF DeliveryInv, DeliveryTypes
<1>2. /\ 1 \in DOMAIN wire[a] /\ wire[a][1] = Message(i)
      /\ \A k \in DOMAIN Tail(wire[a]) : /\ k + 1 \in DOMAIN wire[a] /\ k + 1 # 1
                                         /\ Tail(wire[a])[k] = wire[a][k + 1]
  BY <1>1, RestOfQueue
<1>3. Travels(i, a, 1) /\ Pending(i)
  BY <1>1, <1>2 DEF Travels, Pending
<1>4. OnePlace(i) /\ written[i][mail[i].to] = 0
  BY <1>1, <1>3 DEF IdInv, PendingUnwritten
<1>5. \A f \in Frames : Carried(f) /\ f.id = i => f.type = "msg"
  BY <1>1, <1>3 DEF IdInv, AnswersTrue, Frames
<1>6. \A b \in Agents, k \in Nat : ~ Waits(i, b, k)
  BY <1>1, <1>3, <1>4 DEF OnePlace
<1>7. ASSUME NEW b \in Leads, NEW k \in Nat, k \in DOMAIN rest[b], rest[b][k] = Message(i)
      PROVE  FALSE
  <2>1. b \in Agents
    BY LeadsAreAgents
  <2>2. CASE b # a
    <3>1. rest[b] = wire[b]
      BY <1>1, <2>1, <2>2
    <3>2. Travels(i, b, k)
      BY <1>7, <3>1 DEF Travels
    <3> QED
      BY <1>1, <1>3, <1>4, <2>1, <2>2, <3>2 DEF OnePlace
  <2>3. CASE b = a
    <3>1. rest[a] = Tail(wire[a])
      BY <1>1
    <3>2. k + 1 \in DOMAIN wire[a] /\ k + 1 # 1 /\ wire[a][k + 1] = Message(i)
      BY <1>2, <1>7, <2>3, <3>1
    <3>3. k + 1 \in Nat
      OBVIOUS
    <3>4. Travels(i, a, k + 1)
      BY <3>2 DEF Travels
    <3> QED
      BY <1>1, <1>3, <1>4, <3>2, <3>3, <3>4 DEF OnePlace
  <2> QED
    BY <2>2, <2>3
<1> QED
  BY <1>4, <1>5, <1>6, <1>7

LEMMA Injected ==
    ASSUME DeliveryTypes, NEW to \in Agents, NEW f \in Frames, NEW N, f \in N
    PROVE  /\ InjectFromRemote(to, f) \in [Agents -> Seq(Frames)]
           /\ AllFrom(InjectFromRemote(to, f), down, N)
<1>1. down \in [Agents -> Seq(Frames)] /\ AllFrom(down, down, N)
  BY Unchanged DEF DeliveryTypes
<1> QED
  BY <1>1, WrittenFrames DEF InjectFromRemote

LEMMA ReceivedStep ==
    ASSUME DeliveryInv, NEW a \in Leads, wire[a] # <<>>, NEW i \in Ids,
           Head(wire[a]) = Message(i), mail[i].kind = "send",
           NEW rest, rest = [wire EXCEPT ![a] = Tail(@)],
           NEW ack, ack = Ack(i, IF mail[i].to \in registered THEN "received" ELSE "denied", "remote"),
           down' = InjectFromRemote(mail[i].to, Message(i)),
           written' = IF mail[i].to \in registered
                      THEN [written EXCEPT ![i][mail[i].to] = @ + 1] ELSE written,
           wire' = Forwarded(rest, mail[i].from, ack),
           UNCHANGED <<mail, outcome, up, connected, registered, linked>>
    PROVE  DeliveryInv'
<1>1. /\ DeliveryTypes /\ a \in Agents /\ Message(i) \in Frames /\ Message(i).id = i
      /\ ack \in Frames /\ ack.id = i /\ ack # Message(i)
  BY LeadsAreAgents, FrameShapes DEF DeliveryInv, Statuses, Message, Ack
<1>2. /\ mail[i].to \in Agents /\ mail[i].from \in Agents /\ outcome[i] # "unsent"
      /\ rest \in [Agents -> Seq(Frames)] /\ \A x : AllRestOf(rest, wire, x) /\ AllFrom(rest, wire, x)
  BY <1>1, Arrived, MailShapes
<1>3. /\ written[i][mail[i].to] = 0
      /\ \A f \in Frames : Carried(f) /\ f.id = i => f.type = "msg"
      /\ \A b \in Agents, k \in Nat : ~ Waits(i, b, k)
      /\ \A b \in Leads, k \in Nat : ~ (k \in DOMAIN rest[b] /\ rest[b][k] = Message(i))
  BY ArrivedOnce
<1> SUFFICES ASSUME NEW N, N = {Message(i), ack} PROVE DeliveryInv'
  OBVIOUS
<1>4. Message(i) \in N /\ ack \in N
  OBVIOUS
<1>5. down' \in [Agents -> Seq(Frames)] /\ AllFrom(down', down, N)
  BY <1>1, <1>2, <1>4, Injected
<1>6. /\ wire' \in [Agents -> Seq(Frames)] /\ AllFrom(wire', wire, N)
      /\ \A x : x # ack => AllRestOf(wire', wire, x) /\ AllRestOf(wire', rest, x)
  <2>1. \A x : AllRestOf(rest, rest, x)
    BY <1>2, Unchanged
  <2> QED
    BY <1>1, <1>2, <1>4, <2>1, ForwardedFrames
<1>7. /\ written' \in [Ids -> [Agents -> Nat]]
      /\ written'[i][mail[i].to] = IF ack.status = "received" THEN 1 ELSE 0
      /\ \A j \in Ids : j # i => written'[j] = written[j]
  BY <1>1, <1>2, <1>3 DEF DeliveryTypes, Ack
<1>8. DeliveryTypes'
  <2>1. UNCHANGED <<mail, outcome, up, connected, registered, linked>>
    OBVIOUS
  <2>2. /\ down' \in [Agents -> Seq(Frames)] /\ wire' \in [Agents -> Seq(Frames)]
        /\ written' \in [Ids -> [Agents -> Nat]]
    BY <1>5, <1>6, <1>7
  <2> QED
    BY <1>1, <2>1, <2>2 DEF DeliveryTypes
<1>9. \A f : Carried(f)' => Carried(f) \/ f = Message(i) \/ f = ack
  <2>1. AllFrom(down', down, N) /\ AllFrom(wire', wire, N)
    BY <1>5, <1>6
  <2>2. \A f : Carried(f)' => Carried(f) \/ f \in N
    BY <2>1, CarriedFrom
  <2> QED
    BY <2>2
<1>10. \A j : AllRestOf(up', up, j)
  <2>1. up' = up
    OBVIOUS
  <2>2. up \in [Agents -> Seq(Ids)]
    BY <1>1 DEF DeliveryTypes
  <2>3. \A j : AllRestOf(up, up, j)
    BY <2>2, Unchanged
  <2> QED
    BY <2>1, <2>3
<1>11. \A j \in Ids : AllRestOf(wire', wire, Message(j))
  BY <1>6 DEF Message, Ack
<1>12. \A b \in Agents, k \in Nat : ~ Waits(i, b, k)' /\ ~ Travels(i, b, k)'
  <2>1. \A b \in Agents, k \in Nat : ~ Waits(i, b, k)'
    BY <1>3 DEF Waits
  <2>2. \A b \in Agents : RestOf(wire'[b], rest[b], Message(i))
    BY <1>1, <1>6 DEF AllRestOf
  <2>3. ASSUME NEW b \in Leads, NEW k \in Nat, k \in DOMAIN wire'[b], wire'[b][k] = Message(i)
        PROVE  FALSE
    <3>1. PICK d \in Nat : \A n \in DOMAIN wire'[b] :
             wire'[b][n] = Message(i) => n + d \in DOMAIN rest[b] /\ rest[b][n + d] = Message(i)
      BY <2>2, LeadsAreAgents DEF RestOf
    <3>2. k + d \in DOMAIN rest[b] /\ rest[b][k + d] = Message(i)
      BY <2>3, <3>1
    <3>3. k + d \in Nat
      OBVIOUS
    <3> QED
      BY <1>3, <3>2, <3>3
  <2> QED
    BY <2>1, <2>3 DEF Travels, Message
<1>13. IdInv(i)'
  <2>1. \A f \in Frames : Carried(f)' /\ f.id = i =>
           \/ f.type = "msg"
           \/ /\ f.type \in {"ack", "transport_error"}
              /\ written'[i][mail[i].to] =
                    IF f.type = "ack" /\ f.status = "received" THEN 1 ELSE 0
    BY <1>3, <1>7, <1>9 DEF Message, Ack
  <2>2. mail' = mail /\ outcome' = outcome
    OBVIOUS
  <2> QED
    BY <1>2, <1>8, <1>12, <2>1, <2>2, Concluded
<1>14. \A f \in Frames : Carried(f)' => Carried(f) \/ f.id = i
  BY <1>1, <1>9
<1>15. mail' = mail /\ outcome' = outcome
  OBVIOUS
<1> QED
  BY <1>7, <1>8, <1>10, <1>11, <1>13, <1>14, <1>15, AsideRouted

\* An answer goes on to the socket of its caller, or anything is dropped.
LEMMA PassedOnStep ==
    ASSUME DeliveryInv, NEW a \in Agents, wire[a] # <<>>, NEW f, f = Head(wire[a]),
           wire' = [wire EXCEPT ![a] = Tail(@)],
           \/ down' = down
           \/ down' = InjectFromRemote(mail[f.id].from, f),
           UNCHANGED <<mail, outcome, up, written, connected, registered, linked>>
    PROVE  DeliveryInv'
<1>1. DeliveryTypes
  BY DEF DeliveryInv
<1>2. /\ f \in Frames /\ f.id \in Ids /\ Carried(f) /\ mail[f.id].from \in Agents
      /\ wire' \in [Agents -> Seq(Frames)] /\ \A x : AllRestOf(wire', wire, x) /\ AllFrom(wire', wire, x)
  BY Arrived, MailShapes
<1> SUFFICES ASSUME NEW N, N = {f} PROVE DeliveryInv'
  OBVIOUS
<1>3. down' \in [Agents -> Seq(Frames)] /\ AllFrom(down', down, N)
  <2>1. CASE down' = down
    BY <1>1, <2>1, Unchanged DEF DeliveryTypes
  <2>2. CASE down' = InjectFromRemote(mail[f.id].from, f)
    <3>1. f \in N
      OBVIOUS
    <3> QED
      BY <1>1, <1>2, <2>2, <3>1, Injected
  <2> QED
    BY <2>1, <2>2
<1>4. DeliveryTypes'
  BY <1>1, <1>2, <1>3 DEF DeliveryTypes
<1>5. ASSUME NEW j \in Ids PROVE IdInv(j)'
  <2>1. AllRestOf(up', up, j)
    BY <1>1, Unchanged DEF DeliveryTypes
  <2>2. \A g \in Frames \cap N : Carried(g)
    BY <1>2
  <2>3. mail'[j] = mail[j] /\ outcome'[j] = outcome[j] /\ written'[j] = written[j]
    OBVIOUS
  <2> QED
    BY <1>2, <1>3, <1>4, <2>1, <2>2, <2>3, Aside
<1> QED
  BY <1>4, <1>5 DEF DeliveryInv

LEMMA IncomingStep ==
    ASSUME DeliveryInv, NEW a \in Agents, HandleIncoming(a)
    PROVE  DeliveryInv'
<1> SUFFICES ASSUME NEW f, f = Head(wire[a]), NEW rest, rest = [wire EXCEPT ![a] = Tail(@)]
             PROVE  DeliveryInv'
  OBVIOUS
<1>1. /\ wire[a] # <<>> /\ f \in Frames /\ f.id \in Ids
      /\ UNCHANGED <<mail, outcome, up, connected, registered, linked>>
  BY Arrived DEF HandleIncoming
<1>2. CASE /\ a \in Leads /\ mail[f.id].kind = "send" /\ f.type = "msg"
           /\ down' = InjectFromRemote(mail[f.id].to, f)
           /\ written' = IF mail[f.id].to \in registered
                         THEN [written EXCEPT ![f.id][mail[f.id].to] = @ + 1] ELSE written
           /\ wire' = Forwarded(rest, mail[f.id].from, Ack(f.id,
                 IF mail[f.id].to \in registered THEN "received" ELSE "denied", "remote"))
  <2> SUFFICES ASSUME NEW i \in Ids, i = f.id, f = Message(i) PROVE DeliveryInv'
    BY <1>1, <1>2, FrameShapes
  <2> QED
    BY <1>1, <1>2, ReceivedStep
<1>3. CASE /\ wire' = rest /\ UNCHANGED written
           /\ \/ down' = down
              \/ down' = InjectFromRemote(mail[f.id].from, f)
  BY <1>1, <1>3, PassedOnStep
<1> QED
  BY <1>2, <1>3 DEF HandleIncoming, PropagateTransportError

-----------------------------------------------------------------------------
(* The receiver and the faults *)

\* A step after which every queue holds a rest of what it held.
LEMMA Quiet ==
    ASSUME DeliveryInv, DeliveryTypes', UNCHANGED <<mail, written>>,
           \A a \in Agents : up'[a] = up[a] \/ up'[a] = <<>>,
           \A a \in Agents : wire'[a] = wire[a] \/ wire'[a] = <<>>,
           \A a \in Agents : \/ down'[a] \in {down[a], <<>>}
                             \/ down[a] # <<>> /\ down'[a] = Tail(down[a]),
           \A i \in Ids : \/ outcome'[i] = outcome[i]
                          \/ /\ outcome[i] # "unsent" /\ outcome'[i] # "unsent"
                             /\ outcome'[i] = "timeout" \/ mail[i].kind # "send" \/ ~ Pending(i)
    PROVE  DeliveryInv'
<1>1. DeliveryTypes
  BY DEF DeliveryInv
<1>2. \A x : AllRestOf(up', up, x)
  BY <1>1, ShortenedQueues DEF DeliveryTypes
<1>3. \A x : AllRestOf(wire', wire, x) /\ AllFrom(wire', wire, x)
  BY <1>1, ShortenedQueues DEF DeliveryTypes
<1>4. \A x : AllFrom(down', down, x)
  BY <1>1, ShortenedQueues DEF DeliveryTypes
<1>5. ASSUME NEW i \in Ids PROVE IdInv(i)'
  <2>1. AllFrom(down', down, {}) /\ AllFrom(wire', wire, {})
    BY <1>3, <1>4
  <2>2. mail'[i] = mail[i] /\ written'[i] = written[i]
    OBVIOUS
  <2> QED
    BY <1>2, <1>3, <2>1, <2>2, Aside
<1> QED
  BY <1>5 DEF DeliveryInv

\* A frame at the head of a socket's stream, and what it may settle.
LEMMA Read ==
    ASSUME DeliveryInv, NEW a \in Agents, down[a] # <<>>, NEW f, f = Head(down[a])
    PROVE  /\ f \in Frames /\ Carried(f) /\ f.id \in Ids
           /\ outcome[f.id] # "unsent" /\ mail[f.id] \in Mail
           /\ f.type \in {"ack", "transport_error"} =>
                 /\ mail[f.id].kind = "send" /\ ~ Pending(f.id)
                 /\ written[f.id][mail[f.id].to] =
                       IF f.type = "ack" /\ f.status = "received" THEN 1 ELSE 0
           /\ f.type = "reply" => mail[f.id].kind = "list_peers"
<1>1. DeliveryTypes /\ down[a] \in Seq(Frames)
  BY DEF DeliveryInv, DeliveryTypes
<1>2. f \in Frames /\ 1 \in DOMAIN down[a] /\ down[a][1] = f
  BY <1>1, RestOfQueue
<1>3. f.id \in Ids /\ Carried(f) /\ IdInv(f.id)
  BY <1>2, FrameShapes DEF Carried, DeliveryInv
<1>4. outcome[f.id] # "unsent" /\ mail[f.id] \in Mail
  BY <1>1, <1>2, <1>3 DEF IdInv, UnsentNowhere, DeliveryTypes
<1>5. AnswersTrue(f.id)
  BY <1>3 DEF IdInv
<1> QED
  BY <1>2, <1>3, <1>4, <1>5 DEF AnswersTrue

LEMMA LineStep ==
    ASSUME DeliveryInv, NEW a \in Agents, HandleLine(a)
    PROVE  DeliveryInv'
<1> SUFFICES ASSUME NEW f, f = Head(down[a]) PROVE DeliveryInv'
  OBVIOUS
<1>1. /\ down[a] # <<>> /\ down' = [down EXCEPT ![a] = Tail(@)]
      /\ UNCHANGED <<mail, up, connected, registered, linked, wire, written>> /\ DeliveryTypes
  BY DEF HandleLine, DeliveryInv
<1>2. /\ f \in Frames /\ f.id \in Ids /\ outcome[f.id] # "unsent"
      /\ f.type \in {"ack", "transport_error"} => ~ Pending(f.id)
      /\ f.type = "reply" => mail[f.id].kind = "list_peers"
  BY <1>1, Read
<1>3. PICK s \in {"reply"} \cup Statuses :
         \/ outcome' = outcome
         \/ outcome' = [outcome EXCEPT ![f.id] = s] /\ (~ Pending(f.id) \/ mail[f.id].kind # "send")
  <2>1. CASE f.type = "ack"
    <3>1. f.status \in Statuses
      BY <1>2, <2>1, FrameShapes
    <3> QED
      BY <1>2, <2>1, <3>1 DEF HandleLine
  <2>2. CASE f.type = "transport_error"
    BY <1>2, <2>2 DEF HandleLine, ErrorStatus, Statuses
  <2>3. CASE f.type \notin {"ack", "transport_error"}
    BY <1>2, <2>3 DEF HandleLine, Statuses
  <2> QED
    BY <2>1, <2>2, <2>3
<1>4. down' \in [Agents -> Seq(Frames)]
  BY <1>1, HeadRead DEF DeliveryTypes
<1>5. /\ outcome' \in [Ids -> {"unsent", "waiting", "sent", "reply", "timeout"} \cup Statuses]
      /\ \A i \in Ids : \/ outcome'[i] = outcome[i]
                        \/ /\ outcome[i] # "unsent" /\ outcome'[i] # "unsent"
                           /\ mail[i].kind # "send" \/ ~ Pending(i)
  BY <1>1, <1>2, <1>3 DEF DeliveryTypes, Statuses
<1>6. DeliveryTypes'
  BY <1>1, <1>4, <1>5 DEF DeliveryTypes
<1>7. \A b \in Agents : \/ down'[b] \in {down[b], <<>>}
                        \/ down[b] # <<>> /\ down'[b] = Tail(down[b])
  BY <1>1 DEF DeliveryTypes
<1>8. \A b \in Agents : up'[b] = up[b] /\ wire'[b] = wire[b]
  BY <1>1
<1> QED
  BY <1>1, <1>5, <1>6, <1>7, <1>8, Quiet

LEMMA FaultStep ==
    ASSUME DeliveryInv, NEW a \in Agents,
           Teardown(a) \/ BrokerOnClose(a) \/ Rejoin(a) \/ BrokerDies(a) \/ LinkLost(a)
    PROVE  DeliveryInv'
<1>1. UNCHANGED <<mail, written>> /\ DeliveryTypes
  BY DEF Teardown, BrokerOnClose, Rejoin, BrokerDies, LinkLost, DeliveryInv
<1>2. DeliveryTypes'
  <2>1. <<>> \in Seq(Ids) /\ <<>> \in Seq(Frames)
    BY EmptySeq
  <2>2. CASE Teardown(a)
    BY <1>1, <2>1, <2>2 DEF Teardown, DeliveryTypes
  <2>3. CASE BrokerOnClose(a)
    BY <1>1, <2>3 DEF BrokerOnClose, DeliveryTypes
  <2>4. CASE Rejoin(a)
    BY <1>1, <2>4 DEF Rejoin, DeliveryTypes
  <2>5. CASE BrokerDies(a)
    BY <1>1, <2>1, <2>5 DEF BrokerDies, DeliveryTypes
  <2>6. CASE LinkLost(a)
    BY <1>1, <2>1, <2>6 DEF LinkLost, DeliveryTypes
  <2> QED
    BY <2>2, <2>3, <2>4, <2>5, <2>6
<1>3. \A b \in Agents : /\ up'[b] \in {up[b], <<>>} /\ wire'[b] \in {wire[b], <<>>}
                        /\ down'[b] \in {down[b], <<>>}
  BY <1>1 DEF Teardown, BrokerOnClose, Rejoin, BrokerDies, LinkLost, DeliveryTypes
<1>4. \A i \in Ids : \/ outcome'[i] = outcome[i]
                     \/ outcome[i] # "unsent" /\ outcome'[i] = "timeout"
  BY <1>1 DEF Teardown, BrokerOnClose, Rejoin, BrokerDies, LinkLost, DeliveryTypes
<1> QED
  BY <1>1, <1>2, <1>3, <1>4, Quiet

-----------------------------------------------------------------------------
(* The invariant holds *)

LEMMA DeliveryInitially ==
    ASSUME DeliveryInit
    PROVE  DeliveryInv
<1>1. <<>> \in Seq(Ids) /\ <<>> \in Seq(Frames)
  BY EmptySeq
<1>2. DeliveryTypes
  BY <1>1 DEF DeliveryInit, DeliveryTypes, Nowhere
<1>3. \A a \in Agents : DOMAIN up[a] = {} /\ DOMAIN down[a] = {} /\ DOMAIN wire[a] = {}
  BY DEF DeliveryInit
<1>4. ASSUME NEW i \in Ids PROVE IdInv(i)
  <2>1. ~ Pending(i) /\ \A f : ~ Carried(f)
    BY <1>3, LeadsAreAgents DEF Pending, Waits, Travels, Carried
  <2>2. mail[i] = NoMail /\ outcome[i] = "unsent" /\ \A a \in Agents : written[i][a] = 0
    BY DEF DeliveryInit, Nowhere
  <2>3. UnsentNowhere(i) /\ AnswersTrue(i)
    BY <2>1, <2>2 DEF UnsentNowhere, AnswersTrue
  <2>4. PendingUnwritten(i)
    BY <2>2 DEF PendingUnwritten, NoMail
  <2> QED
    BY <2>3, <2>4 DEF IdInv
<1> QED
  BY <1>2, <1>4 DEF DeliveryInv

LEMMA DeliveryStep ==
    ASSUME DeliveryInv, [DeliveryNext]_deliveryVars
    PROVE  DeliveryInv'
<1>1. CASE UNCHANGED deliveryVars
  <2>1. UNCHANGED <<mail, outcome, up, down, connected, registered, linked, wire, written>>
    BY <1>1 DEF deliveryVars
  <2>2. DeliveryTypes' /\ \A a \in Agents : up'[a] = up[a] /\ down'[a] = down[a] /\ wire'[a] = wire[a]
    BY <2>1 DEF DeliveryInv, DeliveryTypes
  <2> QED
    BY <2>1, <2>2, Quiet
<1>2. CASE DeliveryNext
  <2>1. CASE \E i \in Ids, m \in Mail : Submit(i, m) \/ SubmitFederated(i, m)
    BY <2>1, SubmitStep, FederatedStep
  <2>2. CASE \E i \in Ids : SlotTimeout(i)
    BY <2>2, TimeoutStep
  <2>3. CASE \E a \in Agents : Route(a) \/ HandleIncoming(a) \/ HandleLine(a)
    BY <2>3, RouteStep, IncomingStep, LineStep
  <2>4. CASE \E a \in Agents : Teardown(a) \/ BrokerOnClose(a) \/ Rejoin(a) \/ BrokerDies(a) \/ LinkLost(a)
    BY <2>4, FaultStep
  <2> QED
    BY <1>2, <2>1, <2>2, <2>3, <2>4 DEF DeliveryNext
<1> QED
  BY <1>1, <1>2

-----------------------------------------------------------------------------
(* The refinement *)

\* How often a message was written to its one addressee.
Times == [i \in Ids |-> IF mail[i].kind = "send" THEN written[i][mail[i].to] ELSE 0]

LEMMA SubmitRefines ==
    ASSUME DeliveryInv, NEW i \in Ids, NEW m \in Mail, Submit(i, m) \/ SubmitFederated(i, m)
    PROVE  Promise!Ask(i)
<1>1. /\ DeliveryTypes /\ UnsentNowhere(i) /\ outcome[i] = "unsent"
      /\ mail' = [mail EXCEPT ![i] = m] /\ written' = written /\ m.to \in Agents
  BY MailShapes DEF DeliveryInv, IdInv, Submit, SubmitFederated
<1>2. \E s \in {"waiting", "sent", "timeout"} : outcome' = [outcome EXCEPT ![i] = s]
  BY DEF Submit, SubmitFederated
<1>3. mail[i].kind # "send" /\ written[i][m.to] = 0
  BY <1>1 DEF UnsentNowhere, NoMail
<1>4. Times' = Times
  BY <1>1, <1>3 DEF DeliveryTypes, Times
<1> QED
  BY <1>1, <1>2, <1>4 DEF Promise!Ask, Times

LEMMA TimeoutRefines ==
    ASSUME DeliveryInv, NEW i \in Ids, SlotTimeout(i)
    PROVE  Promise!GiveUp({i})
<1>1. /\ outcome[i] = "waiting" /\ outcome' = [outcome EXCEPT ![i] = "timeout"]
      /\ UNCHANGED <<mail, written>>
      /\ outcome \in [Ids -> {"unsent", "waiting", "sent", "reply", "timeout"} \cup Statuses]
  BY DEF SlotTimeout, DeliveryInv, DeliveryTypes
<1>2. outcome' = [j \in Ids |-> IF j \in {i} THEN "timeout" ELSE outcome[j]]
  BY <1>1
<1>3. Times' = Times
  BY <1>1 DEF Times
<1> QED
  BY <1>1, <1>2, <1>3 DEF Promise!GiveUp, Times

\* A message is written to its addressee by the one that takes it from its place.
LEMMA HandRefines ==
    ASSUME DeliveryInv, NEW i \in Ids, mail[i] \in Mail, mail[i].kind = "send", Pending(i),
           written' = [written EXCEPT ![i][mail[i].to] = @ + 1], UNCHANGED <<mail, outcome>>
    PROVE  Promise!Hand(i)
<1>1. /\ outcome[i] \in {"waiting", "timeout"} /\ written[i][mail[i].to] = 0 /\ mail[i].to \in Agents
      /\ written \in [Ids -> [Agents -> Nat]]
  BY MailShapes DEF DeliveryInv, IdInv, PendingUnwritten, DeliveryTypes
<1>2. Times[i] = 0 /\ Times'[i] = 1
  <2>1. mail' = mail /\ written'[i][mail[i].to] = 1
    BY <1>1
  <2> QED
    BY <1>1, <2>1 DEF Times
<1>3. Times' = [Times EXCEPT ![i] = 1]
  <2>1. \A j \in Ids : j # i => Times'[j] = Times[j]
    BY <1>1 DEF Times
  <2>2. DOMAIN Times' = Ids /\ Times' = [j \in Ids |-> Times'[j]]
    BY DEF Times
  <2>3. [Times EXCEPT ![i] = 1] = [j \in Ids |-> IF j = i THEN 1 ELSE Times[j]]
    BY DEF Times
  <2> QED
    BY <1>2, <2>1, <2>2, <2>3
<1> QED
  BY <1>1, <1>2, <1>3 DEF Promise!Hand, Times

LEMMA RouteRefines ==
    ASSUME DeliveryInv, NEW a \in Agents, Route(a)
    PROVE  \/ \E i \in Ids : Promise!Hand(i)
           \/ UNCHANGED Promise!promiseVars
<1> SUFFICES ASSUME NEW i, i = Head(up[a])
             PROVE  \/ \E j \in Ids : Promise!Hand(j)
                    \/ UNCHANGED Promise!promiseVars
  OBVIOUS
<1>1. /\ up[a] # <<>> /\ up' = [up EXCEPT ![a] = Tail(@)] /\ UNCHANGED <<mail, outcome>>
      /\ DeliveryTypes /\ up[a] \in Seq(Ids)
  BY DEF Route, DeliveryInv, DeliveryTypes
<1>2. i \in Ids /\ mail[i] \in Mail
  BY <1>1, Taken
<1>3. Pending(i)
  <2>1. 1 \in DOMAIN up[a] /\ up[a][1] = i
    BY <1>1, RestOfQueue
  <2>2. Waits(i, a, 1)
    BY <2>1 DEF Waits
  <2> QED
    BY <2>2 DEF Pending
<1>4. CASE mail[i].kind = "send" /\ written' = [written EXCEPT ![i][mail[i].to] = @ + 1]
  BY <1>1, <1>2, <1>3, <1>4, HandRefines
<1>5. CASE written' = written
  BY <1>1, <1>5 DEF Promise!promiseVars
<1>6. CASE mail[i].kind = "broadcast" /\ \E w : written' = [written EXCEPT ![i] = w]
  <2>1. Times' = Times
    BY <1>1, <1>6 DEF Times, DeliveryTypes
  <2> QED
    BY <1>1, <2>1 DEF Times, Promise!promiseVars
<1> QED
  BY <1>4, <1>5, <1>6 DEF Route

LEMMA IncomingRefines ==
    ASSUME DeliveryInv, NEW a \in Agents, HandleIncoming(a)
    PROVE  \/ \E i \in Ids : Promise!Hand(i)
           \/ UNCHANGED Promise!promiseVars
<1> SUFFICES ASSUME NEW f, f = Head(wire[a])
             PROVE  \/ \E i \in Ids : Promise!Hand(i)
                    \/ UNCHANGED Promise!promiseVars
  OBVIOUS
<1>1. wire[a] # <<>> /\ UNCHANGED <<mail, outcome>> /\ wire[a] \in Seq(Frames)
  BY DEF HandleIncoming, DeliveryInv, DeliveryTypes
<1>2. f \in Frames /\ f.id \in Ids /\ mail[f.id] \in Mail
  BY <1>1, Arrived
<1>3. CASE /\ a \in Leads /\ mail[f.id].kind = "send" /\ f.type = "msg"
           /\ written' = [written EXCEPT ![f.id][mail[f.id].to] = @ + 1]
  <2>1. f = Message(f.id) /\ 1 \in DOMAIN wire[a] /\ wire[a][1] = f
    BY <1>1, <1>2, <1>3, FrameShapes, RestOfQueue
  <2>2. Pending(f.id)
    BY <1>3, <2>1 DEF Pending, Travels
  <2> QED
    BY <1>1, <1>2, <1>3, <2>2, HandRefines
<1>4. CASE written' = written
  BY <1>1, <1>4 DEF Promise!promiseVars
<1> QED
  BY <1>3, <1>4 DEF HandleIncoming

LEMMA LineRefines ==
    ASSUME DeliveryInv, NEW a \in Agents, HandleLine(a)
    PROVE  \/ \E i \in Ids : Promise!Settle(i)
           \/ UNCHANGED Promise!promiseVars
<1> SUFFICES ASSUME NEW f, f = Head(down[a])
             PROVE  \/ \E i \in Ids : Promise!Settle(i)
                    \/ UNCHANGED Promise!promiseVars
  OBVIOUS
<1>1. down[a] # <<>> /\ UNCHANGED <<mail, written>>
  BY DEF HandleLine
<1>2. /\ f \in Frames /\ f.id \in Ids
      /\ f.type \in {"ack", "transport_error"} =>
            /\ mail[f.id].kind = "send"
            /\ written[f.id][mail[f.id].to] =
                  IF f.type = "ack" /\ f.status = "received" THEN 1 ELSE 0
  BY <1>1, Read
<1>3. CASE outcome' = outcome
  BY <1>1, <1>3 DEF Promise!promiseVars
<1>4. ASSUME NEW s \in Statuses \cup {"reply"}, outcome[f.id] = "waiting",
             outcome' = [outcome EXCEPT ![f.id] = s],
             s = "received" => Times[f.id] = 1,
             s \in {"unknown_peer", "denied"} => Times[f.id] = 0
      PROVE  Promise!Settle(f.id)
  <2>1. Times' = Times
    BY <1>1 DEF Times
  <2> QED
    BY <1>2, <1>4, <2>1 DEF Promise!Settle, Promise!Answers, Promise!Refusals, Times, Statuses
<1>5. CASE f.type = "ack"
  <2>1. f.status \in Statuses
    BY <1>2, <1>5, FrameShapes
  <2>2. Times[f.id] = IF f.status = "received" THEN 1 ELSE 0
    BY <1>2, <1>5 DEF Times
  <2>3. \/ outcome' = outcome
        \/ outcome[f.id] = "waiting" /\ outcome' = [outcome EXCEPT ![f.id] = f.status]
    BY <1>5 DEF HandleLine
  <2> QED
    BY <1>2, <1>3, <1>4, <2>1, <2>2, <2>3
<1>6. CASE f.type = "transport_error"
  <2>1. Times[f.id] = 0
    BY <1>2, <1>6 DEF Times
  <2>2. PICK s \in {"unknown_peer", "denied"} :
           \/ outcome' = outcome
           \/ outcome[f.id] = "waiting" /\ outcome' = [outcome EXCEPT ![f.id] = s]
    BY <1>6 DEF HandleLine, ErrorStatus
  <2> QED
    BY <1>2, <1>3, <1>4, <2>1, <2>2 DEF Statuses
<1>7. CASE f.type \notin {"ack", "transport_error"}
  <2>1. \/ outcome' = outcome
        \/ outcome[f.id] = "waiting" /\ outcome' = [outcome EXCEPT ![f.id] = "reply"]
    BY <1>7 DEF HandleLine
  <2> QED
    BY <1>2, <1>3, <1>4, <2>1 DEF Statuses
<1> QED
  BY <1>5, <1>6, <1>7

LEMMA FaultRefines ==
    ASSUME DeliveryInv, NEW a \in Agents,
           Teardown(a) \/ BrokerOnClose(a) \/ Rejoin(a) \/ BrokerDies(a) \/ LinkLost(a)
    PROVE  \/ \E S \in SUBSET Ids : Promise!GiveUp(S)
           \/ UNCHANGED Promise!promiseVars
<1>1. /\ UNCHANGED <<mail, written>>
      /\ outcome \in [Ids -> {"unsent", "waiting", "sent", "reply", "timeout"} \cup Statuses]
  BY DEF Teardown, BrokerOnClose, Rejoin, BrokerDies, LinkLost, DeliveryInv, DeliveryTypes
<1>2. CASE outcome' = outcome
  BY <1>1, <1>2 DEF Promise!promiseVars
<1>3. CASE Teardown(a)
  <2> DEFINE S == {i \in Ids : outcome[i] = "waiting" /\ mail[i].from = a}
  <2>1. outcome' = [i \in Ids |-> IF i \in S THEN "timeout" ELSE outcome[i]]
    BY <1>3 DEF Teardown
  <2>2. CASE S = {}
    <3>1. outcome' = outcome
      BY <1>1, <2>1, <2>2
    <3> QED
      BY <1>2, <3>1
  <2>3. CASE S # {}
    <3>1. Promise!GiveUp(S)
      BY <1>1, <2>1, <2>3 DEF Promise!GiveUp
    <3> QED
      BY <3>1
  <2> QED
    BY <2>2, <2>3
<1> QED
  BY <1>2, <1>3 DEF BrokerOnClose, Rejoin, BrokerDies, LinkLost

LEMMA StepRefines ==
    ASSUME DeliveryInv, [DeliveryNext]_deliveryVars
    PROVE  [Promise!PromiseNext]_(Promise!promiseVars)
<1>1. CASE UNCHANGED deliveryVars
  BY <1>1 DEF deliveryVars, Promise!promiseVars
<1>2. CASE \E i \in Ids, m \in Mail : Submit(i, m) \/ SubmitFederated(i, m)
  BY <1>2, SubmitRefines DEF Promise!PromiseNext
<1>3. CASE \E i \in Ids : SlotTimeout(i)
  <2>1. PICK i \in Ids : SlotTimeout(i)
    BY <1>3
  <2>2. Promise!GiveUp({i}) /\ {i} \in SUBSET Ids
    BY <2>1, TimeoutRefines
  <2> QED
    BY <2>2 DEF Promise!PromiseNext
<1>4. CASE \E a \in Agents : Route(a) \/ HandleIncoming(a) \/ HandleLine(a)
  BY <1>4, RouteRefines, IncomingRefines, LineRefines DEF Promise!PromiseNext
<1>5. CASE \E a \in Agents : Teardown(a) \/ BrokerOnClose(a) \/ Rejoin(a) \/ BrokerDies(a) \/ LinkLost(a)
  BY <1>5, FaultRefines DEF Promise!PromiseNext
<1> QED
  BY <1>1, <1>2, <1>3, <1>4, <1>5 DEF DeliveryNext

(***************************************************************************)
(* Whatever is lost on the way, `agent_send' answers each message at most  *)
(* once, says "received" only of one that was written to its addressee's   *)
(* socket, "unknown_peer" and "denied" only of one that never will be, and *)
(* no message is written to its addressee twice (session_peer.ts and       *)
(* broker.ts).                                                             *)
(***************************************************************************)
THEOREM PromiseSafety == DeliverySpec => Promise!PromiseSafe
<1>1. DeliveryInit => DeliveryInv
  BY DeliveryInitially
<1>2. DeliveryInv /\ [DeliveryNext]_deliveryVars => DeliveryInv'
  BY DeliveryStep
<1>3. DeliverySpec => []DeliveryInv
  BY <1>1, <1>2, PTL DEF DeliverySpec
<1>4. DeliveryInit => Promise!PromiseInit
  BY DEF DeliveryInit, NoMail, Promise!PromiseInit
<1>5. DeliveryInv /\ [DeliveryNext]_deliveryVars => [Promise!PromiseNext]_(Promise!promiseVars)
  BY StepRefines
<1> QED
  BY <1>3, <1>4, <1>5, PTL DEF DeliverySpec, Promise!PromiseSafe
==============================================================================
