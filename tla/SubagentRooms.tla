---------------------------- MODULE SubagentRooms ----------------------------
(***************************************************************************)
(* A relay room per subagent (extension/src/subagent_rooms.ts).  A child   *)
(* session is announced by a marker, by a session_start in this process,   *)
(* or by both; its room is built asynchronously; records of the subagent   *)
(* manager are bound to child sessions by arrival order; disposal, the     *)
(* app's close and a dropped connection come at any time.  The manager     *)
(* (external) marks all its in-process children or none, and takes them    *)
(* through marker, session_start and start in one order, as the source     *)
(* assumes.                                                                *)
(***************************************************************************)
EXTENDS Naturals, Sequences, SequencesExt

CONSTANTS
    InKids,     \* child sessions that start in this process
    OutKids,    \* child sessions of other processes: only markers announce them
    NoKid,
    MaxRooms,   \* rooms built over a behaviour
    MaxBreaks   \* failed connects and dropped connections

Kids == InKids \cup OutKids
ASSUME RoomsAssumption ==
    InKids \cap OutKids = {} /\ NoKid \notin Kids /\ MaxRooms \in Nat /\ MaxBreaks \in Nat

VARIABLES
    stage,          \* where the manager is with a child
    marks,          \* does the manager mark in-process children?
    admitted,       \* in-process children not yet started, in the manager's order
    rootUp,         \* getParentRoomId() is not null
    rooms,          \* RelayClients made so far, in order
    children,       \* children: the registered room of a session, 0 for none
    building,       \* sessions with a build in flight
    pendingAttach,  \* sessions whose session_start waits for a build
    inProcess,      \* sessions seen by session_start
    released,       \* keeperReleased
    row,            \* status of the panel row
    unbound,        \* unboundSessions
    tagged,         \* unboundInProcess
    boundTo,        \* recordToSession; a record is named by the child it is about
    over,           \* the controller is disposed of
    early,          \* history: a child started before the root room was up
    breaks

roomsVars == <<stage, marks, admitted, rootUp, rooms, children, building, pendingAttach,
               inProcess, released, row, unbound, tagged, boundTo, over, early, breaks>>

RoomIds == 1 .. MaxRooms
Stages == {"none", "marked", "begun", "started", "finished", "disposed"}

RoomsTypeOK ==
    /\ stage \in [Kids -> Stages] /\ marks \in BOOLEAN
    /\ rootUp \in BOOLEAN /\ over \in BOOLEAN /\ early \in BOOLEAN /\ breaks \in 0 .. MaxBreaks
    /\ Len(rooms) <= MaxRooms
    /\ \A r \in DOMAIN rooms : rooms[r] \in
          [kid : Kids, at : {"connecting", "open", "gone"}, serving : BOOLEAN,
           listening : BOOLEAN]
    /\ children \in [Kids -> 0 .. MaxRooms]
    /\ building \subseteq Kids /\ pendingAttach \subseteq Kids
    /\ inProcess \subseteq InKids /\ released \subseteq Kids
    /\ row \in [Kids -> {"none", "live", "terminal"}]
    /\ tagged \subseteq InKids /\ boundTo \in [Kids -> Kids \cup {NoKid}]
    /\ \A i \in DOMAIN unbound : unbound[i] \in Kids

RoomsInit ==
    /\ stage = [k \in Kids |-> "none"] /\ marks \in BOOLEAN /\ admitted = <<>> /\ rootUp \in BOOLEAN
    /\ rooms = <<>> /\ children = [k \in Kids |-> 0]
    /\ building = {} /\ pendingAttach = {} /\ inProcess = {} /\ released = {}
    /\ row = [k \in Kids |-> "none"]
    /\ unbound = <<>> /\ tagged = {} /\ boundTo = [k \in Kids |-> NoKid]
    /\ over = FALSE /\ early = FALSE /\ breaks = MaxBreaks

Break == breaks > 0 /\ breaks' = breaks - 1
SessionBound(k) == \E r \in Kids : boundTo[r] = k
Queue(k) == IF Contains(unbound, k) THEN unbound ELSE Append(unbound, k)
RowSeen(k) == row' = [row EXCEPT ![k] = IF @ = "none" THEN "live" ELSE @]

-----------------------------------------------------------------------------
(* Rooms *)

(***************************************************************************)
(* ensureChildRoom: attach to the registered room, leave word for the      *)
(* build in flight, or start a build.  `launch` is an in-process start.    *)
(* The parentage each of the three advertises is set once and left out.    *)
(***************************************************************************)
ensureChildRoom(k, launch) ==
    IF children[k] # 0
    THEN /\ rooms' = [rooms EXCEPT ![children[k]].serving = @ \/ launch]
         /\ UNCHANGED <<building, pendingAttach>>
    ELSE IF k \in building
    THEN /\ pendingAttach' = IF launch THEN pendingAttach \cup {k} ELSE pendingAttach
         /\ UNCHANGED <<rooms, building>>
    ELSE /\ Len(rooms) < MaxRooms
         /\ building' = building \cup {k}
         /\ rooms' = Append(rooms, [kid |-> k, at |-> "connecting", serving |-> launch,
                                    listening |-> TRUE])
         /\ UNCHANGED pendingAttach

(* Mutated form of BuildDone: the tombstone of a disposal is not looked at. *)
BuildDoneRegardless(r) ==
    LET k == rooms[r].kid
    IN  /\ rooms[r].at = "connecting"
        /\ building' = building \ {k}
        /\ rooms' = [rooms EXCEPT ![r].at = IF over THEN "gone" ELSE "open",
                                  ![r].serving = @ \/ k \in pendingAttach]
        /\ children' = IF over THEN children ELSE [children EXCEPT ![k] = r]
        /\ pendingAttach' = IF over THEN pendingAttach ELSE pendingAttach \ {k}
        /\ UNCHANGED <<stage, marks, admitted, rootUp, inProcess, released, row, unbound, tagged,
                       boundTo, over, early, breaks>>

(* Mutated form of BuildDone: a start that came meanwhile is not served. *)
BuildDoneUnserved(r) ==
    LET k == rooms[r].kid
        unwanted == over \/ k \in released
    IN  /\ rooms[r].at = "connecting"
        /\ building' = building \ {k}
        /\ rooms' = [rooms EXCEPT ![r].at = IF unwanted THEN "gone" ELSE "open"]
        /\ children' = IF unwanted THEN children ELSE [children EXCEPT ![k] = r]
        /\ UNCHANGED <<stage, marks, admitted, rootUp, pendingAttach, inProcess, released, row,
                       unbound, tagged, boundTo, over, early, breaks>>

(* startChildRoom has connected: registered, unless it was disposed of meanwhile. *)
BuildDone(r) ==
    LET k == rooms[r].kid
        unwanted == over \/ k \in released
    IN  /\ rooms[r].at = "connecting"
        /\ building' = building \ {k}
        /\ rooms' = [rooms EXCEPT ![r].at = IF unwanted THEN "gone" ELSE "open",
                                  ![r].serving = @ \/ (~ unwanted /\ k \in pendingAttach)]
        /\ children' = IF unwanted THEN children ELSE [children EXCEPT ![k] = r]
        /\ pendingAttach' = IF unwanted THEN pendingAttach ELSE pendingAttach \ {k}
        /\ UNCHANGED <<stage, marks, admitted, rootUp, inProcess, released, row, unbound, tagged,
                       boundTo, over, early, breaks>>

(* relay.connect rejects: nothing handles it, and `building` keeps the session. *)
BuildFails(r) ==
    /\ rooms[r].at = "connecting" /\ Break
    /\ rooms' = [rooms EXCEPT ![r].at = "gone"]
    /\ UNCHANGED <<stage, marks, admitted, rootUp, children, building, pendingAttach, inProcess,
                   released, row, unbound, tagged, boundTo, over, early>>

(***************************************************************************)
(* The connection's close event: onClosed unregisters whatever room the    *)
(* session has.  It follows a dispose() as well, when the socket is done.  *)
(***************************************************************************)
RoomCloses(r) ==
    /\ \/ rooms[r].at = "open" /\ Break
       \/ rooms[r].at = "gone" /\ rooms[r].listening /\ UNCHANGED breaks
    /\ rooms' = [rooms EXCEPT ![r].at = "gone", ![r].listening = FALSE]
    /\ children' = [children EXCEPT ![rooms[r].kid] = 0]
    /\ UNCHANGED <<stage, marks, admitted, rootUp, building, pendingAttach, inProcess, released,
                   row, unbound, tagged, boundTo, over, early>>

(* room.dispose() of the registered room of k, and the maps forget k. *)
Release(k) ==
    /\ released' = released \cup {k}
    /\ rooms' = IF children[k] = 0 THEN rooms ELSE [rooms EXCEPT ![children[k]].at = "gone"]
    /\ children' = [children EXCEPT ![k] = 0]
    /\ building' = building \ {k} /\ pendingAttach' = pendingAttach \ {k}

-----------------------------------------------------------------------------
(* What the controller hears *)

(* The manager is at stage s with k, and with nobody it admitted before. *)
InTurn(k, s) ==
    \A i, j \in DOMAIN admitted : i < j /\ admitted[j] = k => stage[admitted[i]] # s

(* onChildMarker: the row, the queue, and a passive keeper of the room. *)
onChildMarker(k) ==
    /\ ~ over /\ stage[k] = "none" /\ (marks \/ k \in OutKids)
    /\ admitted' = IF k \in InKids THEN Append(admitted, k) ELSE admitted
    /\ stage' = [stage EXCEPT ![k] = "marked"]
    /\ RowSeen(k)
    /\ unbound' = IF SessionBound(k) THEN unbound ELSE Queue(k)
    /\ IF rootUp THEN ensureChildRoom(k, FALSE) ELSE UNCHANGED <<rooms, building, pendingAttach>>
    /\ UNCHANGED <<marks, rootUp, children, inProcess, released, tagged, boundTo, over, early, breaks>>

(* onChildSession: in-process, tagged, and launched; first start or resume. *)
onChildSession(k) ==
    /\ ~ over /\ k \in InKids
    /\ \/ stage[k] = "marked" /\ InTurn(k, "marked") /\ UNCHANGED admitted
       \/ stage[k] = "none" /\ ~ marks /\ admitted' = Append(admitted, k)
       \/ stage[k] = "disposed" /\ k \in inProcess /\ UNCHANGED admitted
    /\ stage' = [stage EXCEPT ![k] = "begun"]
    /\ inProcess' = inProcess \cup {k} /\ released' = released \ {k}
    /\ IF ~ rootUp THEN UNCHANGED <<unbound, tagged, row, rooms, building, pendingAttach>>
       ELSE /\ IF SessionBound(k) THEN UNCHANGED <<unbound, tagged>>
               ELSE unbound' = Queue(k) /\ tagged' = tagged \cup {k}
            /\ RowSeen(k)
            /\ ensureChildRoom(k, TRUE)
    /\ early' = (early \/ ~ rootUp)
    /\ UNCHANGED <<marks, rootUp, children, boundTo, over, breaks>>

Status(k, s) ==
    LET sid == boundTo'[k]
    IN  row' = IF sid = NoKid \/ row[sid] = "none" THEN row ELSE [row EXCEPT ![sid] = s]

(* Mutated form of onStarted: the head of the queue, whoever announced it. *)
onStartedHead(k) ==
    /\ stage[k] = "begun" /\ InTurn(k, "begun")
    /\ stage' = [stage EXCEPT ![k] = "started"]
    /\ admitted' = RemoveFirst(admitted, k)
    /\ IF over \/ boundTo[k] # NoKid \/ unbound = <<>>
       THEN UNCHANGED <<unbound, tagged, boundTo>>
       ELSE /\ unbound' = Tail(unbound) /\ tagged' = tagged \ {unbound[1]}
            /\ boundTo' = [boundTo EXCEPT ![k] = unbound[1]]
    /\ IF over THEN UNCHANGED row ELSE Status(k, "live")
    /\ UNCHANGED <<marks, rootUp, rooms, children, building, pendingAttach, inProcess, released,
                   over, early, breaks>>

(***************************************************************************)
(* onRecord("started"): an unbound record takes the first session that was *)
(* tagged; a bound one only updates the row.                               *)
(***************************************************************************)
onStarted(k) ==
    LET poppable == {i \in DOMAIN unbound : unbound[i] \in tagged}
        first == CHOOSE i \in poppable : \A j \in poppable : i <= j
    IN  /\ stage[k] = "begun" /\ InTurn(k, "begun")
        /\ stage' = [stage EXCEPT ![k] = "started"]
        /\ admitted' = RemoveFirst(admitted, k)
        /\ IF over \/ boundTo[k] # NoKid \/ poppable = {}
           THEN UNCHANGED <<unbound, tagged, boundTo>>
           ELSE /\ unbound' = RemoveAt(unbound, first) /\ tagged' = tagged \ {unbound[first]}
                /\ boundTo' = [boundTo EXCEPT ![k] = unbound[first]]
        /\ IF over THEN UNCHANGED row ELSE Status(k, "live")
        /\ UNCHANGED <<marks, rootUp, rooms, children, building, pendingAttach, inProcess, released,
                       over, early, breaks>>

(* onRecord("completed") or ("failed"). *)
onFinished(k) ==
    /\ stage[k] = "started"
    /\ stage' = [stage EXCEPT ![k] = "finished"]
    /\ UNCHANGED boundTo
    /\ IF over THEN UNCHANGED row ELSE Status(k, "terminal")
    /\ UNCHANGED <<marks, admitted, rootUp, rooms, children, building, pendingAttach, inProcess,
                   released, unbound, tagged, over, early, breaks>>

(* onChildDisposed: the row is stamped; a child never seen in process is released. *)
onChildDisposed(k) ==
    /\ stage[k] \in {"finished", "marked"}
    /\ stage' = [stage EXCEPT ![k] = "disposed"]
    /\ admitted' = RemoveFirst(admitted, k)
    /\ IF over THEN UNCHANGED <<row, rooms, children, building, pendingAttach, released>>
       ELSE /\ row' = [row EXCEPT ![k] = IF @ = "none" THEN @ ELSE "terminal"]
            /\ IF k \in inProcess THEN UNCHANGED <<rooms, children, building, pendingAttach, released>>
               ELSE Release(k)
    /\ UNCHANGED <<marks, rootUp, inProcess, unbound, tagged, boundTo, over, early, breaks>>

(* terminateChildRoom, by the app: close_child_room, or terminate in the room. *)
terminateChildRoom(k) ==
    /\ ~ over /\ children[k] # 0
    /\ Release(k)
    /\ UNCHANGED <<stage, marks, admitted, rootUp, inProcess, row, unbound, tagged, boundTo, over,
                   early, breaks>>

RootComesUp ==
    /\ ~ rootUp /\ rootUp' = TRUE
    /\ UNCHANGED <<stage, marks, admitted, rooms, children, building, pendingAttach, inProcess,
                   released, row, unbound, tagged, boundTo, over, early, breaks>>

(* dispose(): the registered rooms; a build in flight sees `disposed` later. *)
disposeRooms ==
    /\ ~ over /\ over' = TRUE
    /\ rooms' = [r \in DOMAIN rooms |->
          IF \E k \in Kids : children[k] = r THEN [rooms[r] EXCEPT !.at = "gone"] ELSE rooms[r]]
    /\ children' = [k \in Kids |-> 0]
    /\ UNCHANGED <<stage, marks, admitted, rootUp, building, pendingAttach, inProcess, released,
                   row, unbound, tagged, boundTo, early, breaks>>

RoomsNext ==
    \/ \E k \in Kids :
          \/ onChildMarker(k) \/ onChildSession(k) \/ onStarted(k) \/ onFinished(k)
          \/ onChildDisposed(k) \/ terminateChildRoom(k)
    \/ \E r \in DOMAIN rooms : BuildDone(r) \/ BuildFails(r) \/ RoomCloses(r)
    \/ RootComesUp \/ disposeRooms

RoomsSpec == RoomsInit /\ [][RoomsNext]_roomsVars

(* A connect that does not fail completes. *)
RoomsFairness == \A r \in RoomIds : WF_roomsVars(r \in DOMAIN rooms /\ BuildDone(r))

-----------------------------------------------------------------------------
(* Properties *)

(***************************************************************************)
(* A room that was closed stays closed, also when its build was still in   *)
(* flight; only a session_start of the same session opens one again.  And  *)
(* a record is bound to the child it is about, with in-process and         *)
(* out-of-process children, markers and starts arriving in any order, if   *)
(* the root room was up when they started.                                 *)
(***************************************************************************)
TombstoneHolds == \A k \in released : children[k] = 0
BindingsRight == early \/ \A k \in Kids : boundTo[k] \in {k, NoKid}
ChildrenRight == RoomsTypeOK /\ TombstoneHolds /\ BindingsRight

(***************************************************************************)
(* A child that started under a root room gets a room that serves it,      *)
(* whether a marker, the start or both built it, unless it is closed or a  *)
(* connection broke.                                                       *)
(***************************************************************************)
Served(k) ==
    \E r \in DOMAIN rooms : rooms[r].kid = k /\ rooms[r].at = "open" /\ rooms[r].serving
ServedEventually == RoomsFairness =>
    \A k \in InKids :
        (stage[k] = "begun" /\ ~ early)
            ~> (Served(k) \/ k \in released \/ over \/ breaks < MaxBreaks)
==============================================================================
