---------------------------- MODULE SessionProofs -----------------------------
(***************************************************************************)
(* Theorems about the conversations and rooms a session keeps on a relay.  *)
(***************************************************************************)
EXTENDS DurableBridge, SubagentRooms, SequenceTheorems, WellFoundedInduction, TLAPS

-----------------------------------------------------------------------------
(***************************************************************************)
(* The durable bridge.  OneConversation speaks of a bridge at rest; in     *)
(* between, OneMove says that there is one connect or move under way, what *)
(* it has already changed, and that no client is published meanwhile.      *)
(***************************************************************************)

DialRecords == [room : Conversations, at : {"connecting", "open", "closed"}]
MoveNames == {"connect", "create", "flush", "thinking", "restart", "open"}

\* A function under way is of a client there is; a conversation is made while there is room.
FnTypes ==
    /\ fns \subseteq Functions /\ made \in Conversations
    /\ \A t \in fns : t.fn \in {"connect", "lookup", "pair", "add"} => t.id \in DOMAIN dials
    /\ [fn |-> "create"] \in fns => made < MaxConvs
    /\ [fn |-> "stop"] \in fns => halted

\* The types, with sequences for sequences.
DurableTypes ==
    /\ conv \in Conversations /\ port \in Conversations /\ source \in Conversations \cup {0}
    /\ dials \in Seq(DialRecords) /\ Len(dials) <= MaxDials
    /\ current \in DOMAIN dials \cup {0} /\ myRoom \in Conversations \cup {0}
    /\ chans \in [Phones -> DOMAIN dials \cup {0}]
    /\ trusted \subseteq Phones /\ token \in {"none", "live", "used"}
    /\ FnTypes

\* While nothing crossed: one connect or move at a time, each about the
\* conversation of the bridge, and a connection only when none is being made.
OneMove ==
    /\ \A t, u \in fns : t.fn \in MoveNames /\ u.fn \in MoveNames => t = u
    /\ current # 0 =>
          /\ dials[current].room = conv /\ myRoom = conv
          /\ \A t \in fns : t.fn \notin {"connect", "thinking", "restart", "open"}
    /\ current = 0 => retryArmed \/ \E t \in fns : t.fn \in MoveNames
    /\ \A i \in DOMAIN dials : dials[i].at = "open" => i = current
    /\ port # conv => \E t \in fns : t.fn = "thinking"
    /\ source # conv => \E t \in fns : t.fn \in {"thinking", "restart"}
    /\ \A t \in fns : /\ t.fn \in {"thinking", "restart", "open"} => t.conv = conv
                      /\ t.fn = "connect" => dials[t.id].room = conv

Undisturbed == ~ halted /\ ~ crossed /\ ~ failed

DurableInv == DurableTypes /\ (Undisturbed => OneMove)

LEMMA FunctionForms ==
    /\ \A t \in Functions :
          /\ t.fn \in {"flush", "thinking", "restart", "open"} => t.conv \in Conversations
          /\ t.fn \in {"connect", "lookup", "add", "pair"} => t.id \in Dials
          /\ t.fn \in {"lookup", "add", "pair"} => t.phone \in Phones
    /\ \A i \in Dials : [fn |-> "connect", id |-> i] \in Functions
    /\ \A c \in Conversations :
          /\ [fn |-> "flush", conv |-> c] \in Functions
          /\ [fn |-> "thinking", conv |-> c] \in Functions
          /\ [fn |-> "restart", conv |-> c] \in Functions
          /\ [fn |-> "open", conv |-> c] \in Functions
    /\ [fn |-> "create"] \in Functions /\ [fn |-> "stop"] \in Functions
    /\ \A i \in Dials, o \in Phones :
          /\ [fn |-> "lookup", id |-> i, phone |-> o] \in Functions
          /\ [fn |-> "add", id |-> i, phone |-> o] \in Functions
    /\ \A i \in Dials, o \in Phones, b \in BOOLEAN :
          [fn |-> "pair", id |-> i, phone |-> o, valid |-> b] \in Functions
    /\ \A b \in BOOLEAN : [fn |-> "rotate", paired |-> b] \in Functions
<1>1. \A t \in Functions :
          /\ t.fn \in {"flush", "thinking", "restart", "open"} => t.conv \in Conversations
          /\ t.fn \in {"connect", "lookup", "add", "pair"} => t.id \in Dials
          /\ t.fn \in {"lookup", "add", "pair"} => t.phone \in Phones
  BY DEF Functions
<1>2. /\ \A i \in Dials : [fn |-> "connect", id |-> i] \in Functions
      /\ [fn |-> "create"] \in Functions /\ [fn |-> "stop"] \in Functions
  BY DEF Functions
<1>3. \A c \in Conversations :
          /\ [fn |-> "flush", conv |-> c] \in Functions
          /\ [fn |-> "thinking", conv |-> c] \in Functions
          /\ [fn |-> "restart", conv |-> c] \in Functions
          /\ [fn |-> "open", conv |-> c] \in Functions
  BY DEF Functions
<1>4. \A i \in Dials, o \in Phones :
          /\ [fn |-> "lookup", id |-> i, phone |-> o] \in Functions
          /\ [fn |-> "add", id |-> i, phone |-> o] \in Functions
  BY DEF Functions
<1>5. \A i \in Dials, o \in Phones, b \in BOOLEAN :
          [fn |-> "pair", id |-> i, phone |-> o, valid |-> b] \in Functions
  BY DEF Functions
<1>6. \A b \in BOOLEAN : [fn |-> "rotate", paired |-> b] \in Functions
  BY DEF Functions
<1> QED
  BY <1>1, <1>2, <1>3, <1>4, <1>5, <1>6

LEMMA RotateForm == [fn |-> "rotate", paired |-> trusted # {}] \in Functions
<1>1. (trusted # {}) \in BOOLEAN
  BY Zenon
<1> QED
  BY <1>1, FunctionForms, Zenon

LEMMA DialsNumbered ==
    ASSUME dials \in Seq(DialRecords), Len(dials) <= MaxDials
    PROVE  /\ Len(dials) \in Nat /\ DOMAIN dials = 1 .. Len(dials)
           /\ DOMAIN dials \subseteq Dials /\ 0 \notin DOMAIN dials
           /\ \A i \in DOMAIN dials : dials[i] \in DialRecords
<1>1. Len(dials) \in Nat /\ DOMAIN dials = 1 .. Len(dials)
  BY LenProperties
<1>2. \A i \in DOMAIN dials : dials[i] \in DialRecords
  BY ElementOfSeq, <1>1
<1> QED
  BY <1>1, <1>2, DurableAssumption DEF Dials

\* Marking a client changes neither their number nor their rooms.
LEMMA Marked ==
    ASSUME dials \in Seq(DialRecords), NEW i, NEW s \in {"open", "closed"},
           dials' = [j \in DOMAIN dials |-> IF j = i THEN [dials[j] EXCEPT !.at = s] ELSE dials[j]]
    PROVE  /\ dials' \in Seq(DialRecords) /\ DOMAIN dials' = DOMAIN dials /\ Len(dials') = Len(dials)
           /\ \A j \in DOMAIN dials : /\ dials'[j].room = dials[j].room
                                      /\ dials'[j].at = IF j = i THEN s ELSE dials[j].at
<1>1. Len(dials) \in Nat /\ DOMAIN dials = 1 .. Len(dials)
  BY LenProperties
<1>2. \A j \in DOMAIN dials : dials[j] \in DialRecords
  BY ElementOfSeq, <1>1
<1>3. \A x \in DialRecords : /\ [x EXCEPT !.at = s] \in DialRecords
                             /\ [x EXCEPT !.at = s].room = x.room /\ [x EXCEPT !.at = s].at = s
  BY DEF DialRecords
<1>4. \A j \in DOMAIN dials : /\ dials'[j] \in DialRecords /\ dials'[j].room = dials[j].room
                              /\ dials'[j].at = IF j = i THEN s ELSE dials[j].at
  BY <1>2, <1>3
<1>5. dials' \in [1 .. Len(dials) -> DialRecords]
  BY <1>1, <1>4
<1>6. dials' \in Seq(DialRecords) /\ Len(dials') = Len(dials)
  BY <1>1, <1>5, LenProperties, IsASeq
<1> QED
  BY <1>4, <1>6

LEMMA NewDial ==
    ASSUME dials \in Seq(DialRecords), NEW c \in Conversations, Dial(c)
    PROVE  /\ dials' \in Seq(DialRecords) /\ Len(dials') = Len(dials) + 1 /\ Len(dials') <= MaxDials
           /\ DOMAIN dials \subseteq DOMAIN dials' /\ Len(dials) + 1 \in DOMAIN dials'
           /\ \A j \in DOMAIN dials : dials'[j] = dials[j]
           /\ dials'[Len(dials) + 1].room = c /\ dials'[Len(dials) + 1].at = "connecting"
           /\ \A j \in DOMAIN dials' : j \in DOMAIN dials \/ j = Len(dials) + 1
<1> DEFINE x == [room |-> c, at |-> "connecting"]
<1>1. x \in DialRecords /\ x.room = c /\ x.at = "connecting"
  BY DEF DialRecords
<1>2. dials' = Append(dials, x) /\ Len(dials) < MaxDials
  BY DEF Dial
<1> HIDE DEF x
<1>3. /\ dials' \in Seq(DialRecords) /\ Len(dials') = Len(dials) + 1
      /\ \A j \in 1 .. Len(dials) : dials'[j] = dials[j]
      /\ dials'[Len(dials) + 1] = x
  BY <1>1, <1>2, AppendProperties
<1>4. DOMAIN dials = 1 .. Len(dials) /\ Len(dials) \in Nat /\ DOMAIN dials' = 1 .. Len(dials')
  BY <1>3, LenProperties
<1> QED
  BY <1>1, <1>2, <1>3, <1>4, DurableAssumption

LEMMA FnKept ==
    ASSUME FnTypes, fns' \subseteq fns, DOMAIN dials \subseteq DOMAIN dials',
           made' = made, halted => halted'
    PROVE  FnTypes'
  BY DEF FnTypes, Conversations, Functions, Dials

LEMMA FnGrown ==
    ASSUME FnTypes, NEW x \in Functions, fns' \subseteq fns \cup {x},
           DOMAIN dials \subseteq DOMAIN dials', made' = made, halted => halted',
           x.fn \in {"connect", "lookup", "pair", "add"} => x.id \in DOMAIN dials',
           x.fn = "create" => made < MaxConvs, x.fn = "stop" => halted'
    PROVE  FnTypes'
<1>1. fns' \subseteq Functions /\ made' \in Conversations
  BY DEF FnTypes, Functions, Conversations, Dials
<1>2. ASSUME NEW t \in fns', t.fn \in {"connect", "lookup", "pair", "add"}
      PROVE  t.id \in DOMAIN dials'
  BY <1>2 DEF FnTypes
<1>3. [fn |-> "create"] \in fns' => made' < MaxConvs
  BY DEF FnTypes
<1>4. [fn |-> "stop"] \in fns' => halted'
  BY DEF FnTypes
<1> QED
  BY <1>1, <1>2, <1>3, <1>4 DEF FnTypes

\* What a step that neither connects nor moves leaves as it was.
Settled == UNCHANGED <<conv, port, source, made, dials, current, myRoom, retryArmed, halted, crossed, failed>>

LEMMA Aside ==
    ASSUME DurableInv, Settled, FnTypes',
           chans' \in [Phones -> DOMAIN dials \cup {0}],
           trusted' \subseteq Phones, token' \in {"none", "live", "used"},
           \A t \in fns' : t.fn \in MoveNames => t \in fns,
           \A t \in fns : t.fn \in MoveNames => t \in fns'
    PROVE  DurableInv'
<1>1. DurableTypes'
  BY DEF DurableInv, DurableTypes, Settled, Conversations, DialRecords
<1>2. ASSUME Undisturbed' PROVE OneMove'
  <2>1. OneMove
    BY <1>2 DEF Undisturbed, DurableInv, Settled
  <2>2. \A t, u \in fns' : t.fn \in MoveNames /\ u.fn \in MoveNames => t = u
    BY <2>1 DEF OneMove
  <2>3. current' # 0 =>
          /\ dials'[current'].room = conv' /\ myRoom' = conv'
          /\ \A t \in fns' : t.fn \notin {"connect", "thinking", "restart", "open"}
    BY <2>1 DEF OneMove, Settled, MoveNames
  <2>4. current' = 0 => retryArmed' \/ \E t \in fns' : t.fn \in MoveNames
    BY <2>1 DEF OneMove, Settled
  <2>5. \A i \in DOMAIN dials' : dials'[i].at = "open" => i = current'
    BY <2>1 DEF OneMove, Settled
  <2>6. /\ port' # conv' => \E t \in fns' : t.fn = "thinking"
        /\ source' # conv' => \E t \in fns' : t.fn \in {"thinking", "restart"}
    BY <2>1 DEF OneMove, Settled, MoveNames
  <2>7. \A t \in fns' : /\ t.fn \in {"thinking", "restart", "open"} => t.conv = conv'
                        /\ t.fn = "connect" => dials'[t.id].room = conv'
    BY <2>1 DEF OneMove, Settled, MoveNames
  <2> QED
    BY <2>2, <2>3, <2>4, <2>5, <2>6, <2>7 DEF OneMove
<1> QED
  BY <1>1, <1>2 DEF DurableInv

LEMMA OwnersStep ==
    ASSUME DurableInv, NEW o \in Phones,
           OnMsg(o) \/ \E valid \in BOOLEAN : OnPairRequest(o, valid)
    PROVE  DurableInv'
<1>0. DurableTypes /\ FnTypes /\ current \in DOMAIN dials /\ DOMAIN dials \subseteq Dials
  BY DialsNumbered DEF DurableInv, DurableTypes, OnMsg, OnPairRequest, Up
<1>1. PICK x \in Functions : /\ x.fn \in {"lookup", "pair"} /\ x.id = current
                             /\ fns' = fns \cup {x}
  <2>1. CASE OnMsg(o)
    <3>1. [fn |-> "lookup", id |-> current, phone |-> o] \in Functions
      BY <1>0, FunctionForms
    <3> QED
      BY <2>1, <3>1 DEF OnMsg
  <2>2. CASE \E valid \in BOOLEAN : OnPairRequest(o, valid)
    <3>1. PICK valid \in BOOLEAN : OnPairRequest(o, valid)
      BY <2>2
    <3>2. [fn |-> "pair", id |-> current, phone |-> o, valid |-> valid] \in Functions
      BY <1>0, FunctionForms
    <3> QED
      BY <3>1, <3>2 DEF OnPairRequest
  <2> QED
    BY <2>1, <2>2
<1>2. Settled /\ UNCHANGED <<chans, trusted, token>>
  BY DEF OnMsg, OnPairRequest, Settled, convVars, relayVars, pairVars
<1>3. FnTypes'
  <2>1. DOMAIN dials \subseteq DOMAIN dials' /\ made' = made /\ (halted => halted')
    BY <1>2 DEF Settled
  <2> QED
    BY <1>0, <1>1, <1>2, <2>1, FnGrown DEF Settled
<1>4. /\ chans' \in [Phones -> DOMAIN dials \cup {0}]
      /\ trusted' \subseteq Phones /\ token' \in {"none", "live", "used"}
  BY <1>0, <1>2 DEF DurableTypes
<1>5. /\ \A t \in fns' : t.fn \in MoveNames => t \in fns
      /\ \A t \in fns : t.fn \in MoveNames => t \in fns'
  BY <1>1 DEF MoveNames
<1> QED
  BY <1>2, <1>3, <1>4, <1>5, Aside

LEMMA AttachKnownStep ==
    ASSUME DurableInv, NEW t \in fns, AttachKnown(t)
    PROVE  DurableInv'
<1>0. DurableTypes /\ FnTypes /\ t \in Functions /\ t.phone \in Phones /\ t.id \in DOMAIN dials
  BY FunctionForms DEF DurableInv, DurableTypes, FnTypes, AttachKnown
<1>1. Settled /\ UNCHANGED <<trusted, token>> /\ fns' = fns \ {t}
  BY DEF AttachKnown, Settled, convVars, relayVars, pairVars, Resumed
<1>2. FnTypes'
  <2>1. fns' \subseteq fns /\ DOMAIN dials \subseteq DOMAIN dials' /\ made' = made /\ (halted => halted')
    BY <1>1 DEF Settled
  <2> QED
    BY <1>0, <2>1, FnKept
<1>3. chans' \in [Phones -> DOMAIN dials \cup {0}]
  BY <1>0 DEF DurableTypes, AttachKnown
<1>4. trusted' \subseteq Phones /\ token' \in {"none", "live", "used"}
  BY <1>0, <1>1 DEF DurableTypes
<1>5. /\ \A u \in fns' : u.fn \in MoveNames => u \in fns
      /\ \A u \in fns : u.fn \in MoveNames => u \in fns'
  BY <1>1 DEF MoveNames, AttachKnown
<1> QED
  BY <1>1, <1>2, <1>3, <1>4, <1>5, Aside

LEMMA PairKnownStep ==
    ASSUME DurableInv, NEW t \in fns, PairKnown(t)
    PROVE  DurableInv'
<1>0. /\ DurableTypes /\ FnTypes /\ t \in Functions /\ t.phone \in Phones
      /\ t.id \in DOMAIN dials /\ t.fn = "pair" /\ DOMAIN dials \subseteq Dials
  BY FunctionForms, DialsNumbered DEF DurableInv, DurableTypes, FnTypes, PairKnown
<1> DEFINE x == [fn |-> "add", id |-> t.id, phone |-> t.phone]
<1>x. x \in Functions /\ x.fn = "add" /\ x.id = t.id
  BY <1>0, FunctionForms
<1>1. Settled /\ UNCHANGED trusted /\ fns' \subseteq fns \cup {x} /\ fns \ {t} \subseteq fns'
  BY DEF PairKnown, Settled, convVars, relayVars, Resumed
<1>3. chans' \in [Phones -> DOMAIN dials \cup {0}]
  <2>1. UNCHANGED chans \/ AttachIfNone(t.phone, t.id)
    BY DEF PairKnown
  <2> QED
    BY <1>0, <2>1 DEF DurableTypes, AttachIfNone
<1>4. trusted' \subseteq Phones /\ token' \in {"none", "live", "used"}
  BY <1>0, <1>1 DEF DurableTypes, PairKnown
<1> HIDE DEF x
<1>2. FnTypes'
  <2>1. DOMAIN dials \subseteq DOMAIN dials' /\ made' = made /\ (halted => halted')
    BY <1>1 DEF Settled
  <2>2. x.id \in DOMAIN dials'
    BY <1>0, <1>x, <2>1
  <2> QED
    BY <1>0, <1>1, <1>x, <2>1, <2>2, FnGrown
<1>5. /\ \A u \in fns' : u.fn \in MoveNames => u \in fns
      /\ \A u \in fns : u.fn \in MoveNames => u \in fns'
  BY <1>0, <1>1, <1>x DEF MoveNames
<1> QED
  BY <1>1, <1>2, <1>3, <1>4, <1>5, Aside

LEMMA PairAddStep ==
    ASSUME DurableInv, NEW t \in fns, PairStored(t) \/ PairNotStored(t)
    PROVE  DurableInv'
<1>0. /\ DurableTypes /\ FnTypes /\ t \in Functions /\ t.phone \in Phones
      /\ t.id \in DOMAIN dials /\ t.fn = "add"
  BY FunctionForms DEF DurableInv, DurableTypes, FnTypes, PairStored, PairNotStored
<1>1. Settled /\ UNCHANGED token /\ fns' = fns \ {t}
  BY DEF PairStored, PairNotStored, Settled, convVars, relayVars, pairVars, Resumed
<1>2. FnTypes'
  <2>1. fns' \subseteq fns /\ DOMAIN dials \subseteq DOMAIN dials' /\ made' = made /\ (halted => halted')
    BY <1>1 DEF Settled
  <2> QED
    BY <1>0, <2>1, FnKept
<1>3. chans' \in [Phones -> DOMAIN dials \cup {0}]
  <2>1. UNCHANGED chans \/ AttachIfNone(t.phone, t.id)
    BY DEF PairStored, PairNotStored
  <2> QED
    BY <1>0, <2>1 DEF DurableTypes, AttachIfNone
<1>4. trusted' \subseteq Phones /\ token' \in {"none", "live", "used"}
  BY <1>0, <1>1 DEF DurableTypes, PairStored, PairNotStored, pairVars
<1>5. /\ \A u \in fns' : u.fn \in MoveNames => u \in fns
      /\ \A u \in fns : u.fn \in MoveNames => u \in fns'
  BY <1>0, <1>1 DEF MoveNames
<1> QED
  BY <1>1, <1>2, <1>3, <1>4, <1>5, Aside

LEMMA InviteStep ==
    ASSUME DurableInv, RotationTimer \/ forcePairingInvite \/ \E t \in fns : RotateInvite(t)
    PROVE  DurableInv'
<1>0. DurableTypes /\ FnTypes
  BY DEF DurableInv, DurableTypes
<1>1. Settled /\ UNCHANGED <<trusted, chans>>
  BY DEF RotationTimer, forcePairingInvite, RotateInvite, Settled, convVars, relayVars
<1> DEFINE x == [fn |-> "rotate", paired |-> trusted # {}]
<1>x. x \in Functions /\ x.fn = "rotate"
  BY RotateForm
<1>2. fns' \subseteq fns \cup {x} /\ \A u \in fns : u \in fns' \/ u.fn = "rotate"
  BY DEF RotationTimer, forcePairingInvite, RotateInvite, Resumed
<1>4. trusted' \subseteq Phones /\ token' \in {"none", "live", "used"}
  BY <1>0, <1>1 DEF DurableTypes, RotationTimer, forcePairingInvite, RotateInvite
<1> HIDE DEF x
<1>3. FnTypes'
  <2>1. DOMAIN dials \subseteq DOMAIN dials' /\ made' = made /\ (halted => halted')
    BY <1>1 DEF Settled
  <2> QED
    BY <1>0, <1>2, <1>x, <2>1, FnGrown
<1>5. /\ \A u \in fns' : u.fn \in MoveNames => u \in fns
      /\ \A u \in fns : u.fn \in MoveNames => u \in fns'
  BY <1>x, <1>2 DEF MoveNames
<1>6. chans' \in [Phones -> DOMAIN dials \cup {0}]
  BY <1>0, <1>1 DEF DurableTypes
<1> QED
  BY <1>1, <1>3, <1>4, <1>5, <1>6, Aside

-----------------------------------------------------------------------------
(* Connecting *)

LEMMA ClosedDial ==
    ASSUME dials \in Seq(DialRecords), NEW i, dials' = CloseDial(i)
    PROVE  /\ dials' \in Seq(DialRecords) /\ DOMAIN dials' = DOMAIN dials /\ Len(dials') = Len(dials)
           /\ \A j \in DOMAIN dials : /\ dials'[j].room = dials[j].room
                                      /\ dials'[j].at = IF j = i THEN "closed" ELSE dials[j].at
<1>1. dials' = [j \in DOMAIN dials |-> IF j = i THEN [dials[j] EXCEPT !.at = "closed"] ELSE dials[j]]
  BY DEF CloseDial
<1> QED
  BY <1>1, Marked

LEMMA ConnectOkStep ==
    ASSUME DurableInv, NEW t \in fns, ConnectOk(t)
    PROVE  DurableInv'
<1>0. /\ DurableTypes /\ FnTypes /\ t \in Functions /\ t.id \in DOMAIN dials /\ t.fn = "connect"
      /\ dials \in Seq(DialRecords)
  BY DEF DurableInv, DurableTypes, FnTypes, ConnectOk
<1>1. /\ \A i \in DOMAIN dials : dials[i] \in DialRecords /\ i # 0
      /\ Len(dials) \in Nat /\ DOMAIN dials = 1 .. Len(dials)
  BY <1>0, DialsNumbered DEF DurableTypes
<1>2. dials' = [j \in DOMAIN dials |-> IF j = t.id THEN [dials[j] EXCEPT !.at = "open"] ELSE dials[j]]
  BY <1>0, <1>1 DEF ConnectOk
<1>3. /\ dials' \in Seq(DialRecords) /\ DOMAIN dials' = DOMAIN dials /\ Len(dials') = Len(dials)
      /\ \A j \in DOMAIN dials : /\ dials'[j].room = dials[j].room
                                 /\ dials'[j].at = IF j = t.id THEN "open" ELSE dials[j].at
  BY <1>0, <1>2, Marked
<1>4. /\ current' = t.id /\ myRoom' = dials[t.id].room
      /\ UNCHANGED <<conv, port, source, made, retryArmed, halted, chans, trusted, token, crossed, failed>>
  BY DEF ConnectOk, convVars
<1> DEFINE x == [fn |-> "rotate", paired |-> trusted # {}]
<1>5. x \in Functions /\ x.fn = "rotate"
  BY RotateForm
<1>6. fns' \subseteq (fns \ {t}) \cup {x}
  BY DEF ConnectOk, Resumed
<1> HIDE DEF x
<1>7. FnTypes'
  <2>1. fns' \subseteq fns \cup {x} /\ DOMAIN dials \subseteq DOMAIN dials' /\ made' = made
        /\ (halted => halted')
    BY <1>3, <1>4, <1>6
  <2> QED
    BY <1>0, <1>5, <2>1, FnGrown
<1>8. DurableTypes'
  <2>1. dials[t.id].room \in Conversations
    BY <1>0, <1>1 DEF DialRecords
  <2>2. Len(dials') <= MaxDials /\ current' \in DOMAIN dials' \cup {0} /\ myRoom' \in Conversations \cup {0}
    BY <1>0, <1>3, <1>4, <2>1 DEF DurableTypes
  <2>3. conv' \in Conversations /\ port' \in Conversations /\ source' \in Conversations \cup {0}
    BY <1>0, <1>4 DEF DurableTypes
  <2>4. /\ chans' \in [Phones -> DOMAIN dials' \cup {0}]
        /\ trusted' \subseteq Phones /\ token' \in {"none", "live", "used"}
    BY <1>0, <1>3, <1>4 DEF DurableTypes
  <2> QED
    BY <1>3, <1>7, <2>2, <2>3, <2>4 DEF DurableTypes, Conversations, DialRecords
<1>9. ASSUME Undisturbed' PROVE OneMove'
  <2>1. OneMove
    BY <1>9, <1>4 DEF Undisturbed, DurableInv
  <2>2. current = 0 /\ dials[t.id].room = conv /\ \A u \in fns : u.fn \in MoveNames => u = t
    BY <1>0, <2>1 DEF OneMove, MoveNames
  <2>3. \A u \in fns' : u.fn \notin MoveNames
    BY <1>5, <1>6, <2>2 DEF MoveNames
  <2>4. \A i \in DOMAIN dials' : dials'[i].at = "open" => i = current'
    BY <1>1, <1>3, <1>4, <2>1, <2>2 DEF OneMove
  <2>5. port' = conv' /\ source' = conv'
    BY <1>0, <1>4, <2>1, <2>2 DEF OneMove, MoveNames
  <2>6. current' # 0 /\ dials'[current'].room = conv' /\ myRoom' = conv'
    BY <1>0, <1>1, <1>3, <1>4, <2>2
  <2> QED
    BY <2>3, <2>4, <2>5, <2>6 DEF OneMove, MoveNames
<1> QED
  BY <1>8, <1>9 DEF DurableInv

LEMMA ConnectFailsStep ==
    ASSUME DurableInv, NEW t \in fns, ConnectFails(t)
    PROVE  DurableInv'
<1>0. /\ DurableTypes /\ FnTypes /\ t.id \in DOMAIN dials /\ t.fn = "connect"
      /\ dials \in Seq(DialRecords)
  BY DEF DurableInv, DurableTypes, FnTypes, ConnectFails
<1>1. \A i \in DOMAIN dials : i # 0
  BY <1>0, DialsNumbered DEF DurableTypes
<1>3. /\ dials' \in Seq(DialRecords) /\ DOMAIN dials' = DOMAIN dials /\ Len(dials') = Len(dials)
      /\ \A j \in DOMAIN dials : /\ dials'[j].room = dials[j].room
                                 /\ dials'[j].at = IF j = t.id THEN "closed" ELSE dials[j].at
  BY <1>0, ClosedDial DEF ConnectFails
<1>4. /\ fns' = fns \ {t} /\ retryArmed' = (retryArmed \/ ~ halted)
      /\ UNCHANGED <<conv, port, source, made, current, myRoom, halted, chans, trusted, token, crossed, failed>>
  BY DEF ConnectFails, convVars, pairVars, Resumed, scheduleReconnect
<1>7. FnTypes'
  <2>1. fns' \subseteq fns /\ DOMAIN dials \subseteq DOMAIN dials' /\ made' = made /\ (halted => halted')
    BY <1>3, <1>4
  <2> QED
    BY <1>0, <2>1, FnKept
<1>8. DurableTypes'
  BY <1>0, <1>3, <1>4, <1>7 DEF DurableTypes, Conversations, DialRecords
<1>9. ASSUME Undisturbed' PROVE OneMove'
  <2>1. OneMove /\ retryArmed'
    BY <1>9, <1>4 DEF Undisturbed, DurableInv
  <2>2. current = 0 /\ \A u \in fns : u.fn \in MoveNames => u = t
    BY <1>0, <2>1 DEF OneMove, MoveNames
  <2>3. \A u \in fns' : u.fn \notin MoveNames
    BY <1>4, <2>2
  <2>4. \A i \in DOMAIN dials' : dials'[i].at = "open" => i = current'
    BY <1>1, <1>3, <1>4, <2>1, <2>2 DEF OneMove
  <2>5. port' = conv' /\ source' = conv'
    BY <1>0, <1>4, <2>1, <2>2 DEF OneMove, MoveNames
  <2> QED
    BY <1>4, <2>1, <2>2, <2>3, <2>4, <2>5 DEF OneMove, MoveNames
<1> QED
  BY <1>8, <1>9 DEF DurableInv

LEMMA ReconnectTimerStep ==
    ASSUME DurableInv, ReconnectTimer
    PROVE  DurableInv'
<1>0. /\ DurableTypes /\ FnTypes /\ dials \in Seq(DialRecords) /\ conv \in Conversations /\ Dial(conv)
  BY DEF DurableInv, DurableTypes, ReconnectTimer
<1>1. \A i \in DOMAIN dials : i # 0
  BY <1>0, DialsNumbered DEF DurableTypes
<1>2. /\ dials' \in Seq(DialRecords) /\ Len(dials') = Len(dials) + 1 /\ Len(dials') <= MaxDials
      /\ DOMAIN dials \subseteq DOMAIN dials' /\ Len(dials) + 1 \in DOMAIN dials'
      /\ \A j \in DOMAIN dials : dials'[j] = dials[j]
      /\ dials'[Len(dials) + 1].room = conv /\ dials'[Len(dials) + 1].at = "connecting"
      /\ \A j \in DOMAIN dials' : j \in DOMAIN dials \/ j = Len(dials) + 1
  BY <1>0, NewDial
<1>3. DOMAIN dials' \subseteq Dials
  <2>1. Len(dials') \in Nat /\ DOMAIN dials' = 1 .. Len(dials')
    BY <1>2, LenProperties
  <2> QED
    BY <1>2, <2>1, DurableAssumption DEF Dials
<1>4. Dialled \in Functions /\ Dialled.fn = "connect" /\ Dialled.id = Len(dials) + 1
  BY <1>2, <1>3, FunctionForms DEF Dialled
<1>5. /\ fns' = fns \cup {Dialled}
      /\ crossed' = (crossed \/ Retargeting \/ Waiting({"connect"}) \/ current # 0)
      /\ UNCHANGED <<conv, port, source, made, current, myRoom, halted, chans, trusted, token, failed>>
  BY DEF ReconnectTimer, convVars, pairVars
<1>7. FnTypes'
  <2>1. /\ fns' \subseteq fns \cup {Dialled} /\ DOMAIN dials \subseteq DOMAIN dials' /\ made' = made
        /\ (halted => halted') /\ Dialled.id \in DOMAIN dials'
    BY <1>2, <1>4, <1>5
  <2> QED
    BY <1>0, <1>4, <2>1, FnGrown
<1>8. DurableTypes'
  <2>1. chans' \in [Phones -> DOMAIN dials' \cup {0}]
    BY <1>0, <1>2, <1>5 DEF DurableTypes
  <2>2. current' \in DOMAIN dials' \cup {0}
    BY <1>0, <1>2, <1>5 DEF DurableTypes
  <2>3. /\ conv' \in Conversations /\ port' \in Conversations /\ source' \in Conversations \cup {0}
        /\ myRoom' \in Conversations \cup {0} /\ trusted' \subseteq Phones
        /\ token' \in {"none", "live", "used"}
    BY <1>0, <1>5 DEF DurableTypes
  <2> QED
    BY <1>2, <1>7, <2>1, <2>2, <2>3 DEF DurableTypes, Conversations, DialRecords
<1>9. ASSUME Undisturbed' PROVE OneMove'
  <2>1. /\ OneMove /\ current = 0 /\ current' = 0
        /\ ~ Retargeting /\ ~ Waiting({"connect"})
    BY <1>9, <1>5 DEF Undisturbed, DurableInv
  <2>2. \A u \in fns : u.fn \notin MoveNames
    BY <2>1 DEF Retargeting, Waiting, MoveNames
  <2>3. \A u \in fns' : u.fn \in MoveNames => u = Dialled
    BY <1>5, <2>2
  <2>4. \A i \in DOMAIN dials' : dials'[i].at = "open" => i = current'
    BY <1>2, <2>1 DEF OneMove
  <2>5. port' = conv' /\ source' = conv'
    BY <1>0, <1>5, <2>1, <2>2 DEF OneMove, MoveNames
  <2>6. Dialled \in fns' /\ Dialled.fn \in MoveNames /\ dials'[Dialled.id].room = conv'
    BY <1>2, <1>4, <1>5 DEF MoveNames
  <2> QED
    BY <1>4, <2>1, <2>3, <2>4, <2>5, <2>6 DEF OneMove, MoveNames
<1> QED
  BY <1>8, <1>9 DEF DurableInv

LEMMA OnCloseStep ==
    ASSUME DurableInv, NEW i \in Dials, OnClose(i)
    PROVE  DurableInv'
<1>0. DurableTypes /\ FnTypes /\ dials \in Seq(DialRecords) /\ i \in DOMAIN dials /\ dials[i].at = "open"
  BY DEF DurableInv, DurableTypes, OnClose
<1>1. \A j \in DOMAIN dials : j # 0
  BY <1>0, DialsNumbered DEF DurableTypes
<1>3. /\ dials' \in Seq(DialRecords) /\ DOMAIN dials' = DOMAIN dials /\ Len(dials') = Len(dials)
      /\ \A j \in DOMAIN dials : /\ dials'[j].room = dials[j].room
                                 /\ dials'[j].at = IF j = i THEN "closed" ELSE dials[j].at
  BY <1>0, ClosedDial DEF OnClose
<1>4. UNCHANGED <<fns, conv, port, source, made, myRoom, halted, chans, trusted, token, crossed, failed>>
  BY DEF OnClose, convVars, pairVars
<1>5. \/ current = i /\ ~ halted /\ current' = 0 /\ retryArmed' = (retryArmed \/ ~ halted)
      \/ (current # i \/ halted) /\ UNCHANGED <<current, retryArmed>>
  BY DEF OnClose, scheduleReconnect
<1>7. FnTypes'
  <2>1. fns' \subseteq fns /\ DOMAIN dials \subseteq DOMAIN dials' /\ made' = made /\ (halted => halted')
    BY <1>3, <1>4
  <2> QED
    BY <1>0, <2>1, FnKept
<1>8. DurableTypes'
  <2>1. current' \in DOMAIN dials' \cup {0}
    BY <1>0, <1>3, <1>5 DEF DurableTypes
  <2> QED
    BY <1>0, <1>3, <1>4, <1>7, <2>1 DEF DurableTypes, Conversations, DialRecords
<1>9. ASSUME Undisturbed' PROVE OneMove'
  <2>1. OneMove /\ ~ halted
    BY <1>9, <1>4 DEF Undisturbed, DurableInv
  <2>2. current = i /\ current' = 0 /\ retryArmed'
    BY <1>0, <1>5, <2>1 DEF OneMove
  <2>4. \A j \in DOMAIN dials' : dials'[j].at # "open"
    BY <1>3, <2>1, <2>2 DEF OneMove
  <2>7. \A u \in fns' : u.fn \notin {"connect", "thinking", "restart", "open"}
    BY <1>1, <1>0, <1>4, <2>1, <2>2 DEF OneMove
  <2>5. port' = conv' /\ source' = conv'
    BY <1>4, <2>1, <2>7 DEF OneMove
  <2>6. \A u, v \in fns' : u.fn \in MoveNames /\ v.fn \in MoveNames => u = v
    BY <1>4, <2>1 DEF OneMove
  <2> QED
    BY <2>2, <2>4, <2>5, <2>6, <2>7 DEF OneMove
<1> QED
  BY <1>8, <1>9 DEF DurableInv

-----------------------------------------------------------------------------
(* Moving to another conversation *)

LEMMA CreateStep ==
    ASSUME DurableInv, CreateConversation
    PROVE  DurableInv'
<1>0. DurableTypes /\ FnTypes
  BY DEF DurableInv, DurableTypes
<1> DEFINE x == [fn |-> "create"]
<1>1. x \in Functions /\ x.fn = "create"
  BY FunctionForms
<1>2. /\ fns' = fns \cup {x} /\ made < MaxConvs
      /\ crossed' = (crossed \/ Retargeting \/ Waiting({"connect"}) \/ retryArmed)
      /\ UNCHANGED <<conv, port, source, made, dials, current, myRoom, retryArmed, halted, chans,
                     trusted, token, failed>>
  BY DEF CreateConversation, convVars, relayVars, pairVars
<1> HIDE DEF x
<1>3. FnTypes'
  <2>1. /\ fns' \subseteq fns \cup {x} /\ DOMAIN dials \subseteq DOMAIN dials' /\ made' = made
        /\ (halted => halted')
    BY <1>2
  <2> QED
    BY <1>0, <1>1, <1>2, <2>1, FnGrown
<1>4. DurableTypes'
  BY <1>0, <1>2, <1>3 DEF DurableTypes, Conversations, DialRecords
<1>5. ASSUME Undisturbed' PROVE OneMove'
  <2>1. OneMove /\ ~ Retargeting /\ ~ Waiting({"connect"}) /\ ~ retryArmed
    BY <1>5, <1>2 DEF Undisturbed, DurableInv
  <2>2. \A u \in fns : u.fn \notin MoveNames
    BY <2>1 DEF Retargeting, Waiting, MoveNames
  <2>3. \A u \in fns' : u.fn \in MoveNames => u = x
    BY <1>2, <2>2
  <2>4. current' # 0 /\ dials'[current'].room = conv' /\ myRoom' = conv'
    BY <1>2, <2>1, <2>2 DEF OneMove
  <2>5. port' = conv' /\ source' = conv'
    BY <1>2, <2>1, <2>2 DEF OneMove, MoveNames
  <2>6. \A i \in DOMAIN dials' : dials'[i].at = "open" => i = current'
    BY <1>2, <2>1 DEF OneMove
  <2> QED
    BY <1>1, <2>3, <2>4, <2>5, <2>6 DEF OneMove, MoveNames
<1> QED
  BY <1>4, <1>5 DEF DurableInv

LEMMA RetargetStep ==
    ASSUME DurableInv, NEW t \in fns, Retarget(t)
    PROVE  DurableInv'
<1>0. /\ DurableTypes /\ FnTypes /\ t \in Functions /\ t.fn \in {"create", "flush"}
      /\ dials \in Seq(DialRecords)
  BY DEF DurableInv, DurableTypes, FnTypes, Retarget
<1>1. \A i \in DOMAIN dials : i # 0
  BY <1>0, DialsNumbered DEF DurableTypes
<1>2. /\ UNCHANGED <<port, source, myRoom, retryArmed, halted, trusted, token, crossed, failed>>
  BY DEF Retarget, pairVars
<1>3. t.fn = "create" => made + 1 \in Conversations
  <2>1. t.fn = "create" => t = [fn |-> "create"]
    BY <1>0 DEF Functions
  <2> QED
    BY <1>0, <2>1, DurableAssumption DEF FnTypes, Conversations
<1>4. CASE t.fn = "create" /\ \E o \in Phones : chans[o] # 0
  <2> DEFINE x == [fn |-> "flush", conv |-> made + 1]
  <2>1. x \in Functions /\ x.fn = "flush"
    BY <1>3, <1>4, FunctionForms
  <2>2. /\ fns' = (fns \ {t}) \cup {x} /\ made' = made + 1
        /\ UNCHANGED <<conv, dials, current, chans>>
    BY <1>4 DEF Retarget, Resumed
  <2> HIDE DEF x
  <2>3. FnTypes'
    <3>1. t = [fn |-> "create"]
      BY <1>0, <1>4 DEF Functions
    <3>2. [fn |-> "create"] \notin fns'
      BY <3>1, <2>1, <2>2
    <3>3. [fn |-> "stop"] \in fns' => halted'
      BY <1>0, <1>2, <2>1, <2>2 DEF FnTypes
    <3>4. \A u \in fns' : u.fn \in {"connect", "lookup", "pair", "add"} => u.id \in DOMAIN dials'
      BY <1>0, <2>1, <2>2 DEF FnTypes
    <3>5. fns' \subseteq Functions /\ made' \in Conversations
      BY <1>0, <1>3, <1>4, <2>1, <2>2 DEF FnTypes, Functions, Conversations, Dials
    <3> QED
      BY <3>2, <3>3, <3>4, <3>5 DEF FnTypes
  <2>4. DurableTypes'
    BY <1>0, <1>2, <2>2, <2>3 DEF DurableTypes, Conversations, DialRecords
  <2>5. ASSUME Undisturbed' PROVE OneMove'
    <3>1. OneMove
      BY <2>5, <1>2 DEF Undisturbed, DurableInv
    <3>2. \A u \in fns : u.fn \in MoveNames => u = t
      BY <1>0, <3>1 DEF OneMove, MoveNames
    <3>3. \A u \in fns' : u.fn \in MoveNames => u = x
      BY <2>2, <3>2
    <3>4. port' = conv' /\ source' = conv'
      BY <1>0, <1>2, <2>2, <3>1, <3>2 DEF OneMove, MoveNames
    <3>5. current' # 0 => dials'[current'].room = conv' /\ myRoom' = conv'
      BY <1>2, <2>2, <3>1 DEF OneMove
    <3>6. \A i \in DOMAIN dials' : dials'[i].at = "open" => i = current'
      BY <2>2, <3>1 DEF OneMove
    <3>7. x \in fns' /\ x.fn \in MoveNames
      BY <2>1, <2>2 DEF MoveNames
    <3> QED
      BY <2>1, <3>3, <3>4, <3>5, <3>6, <3>7 DEF OneMove, MoveNames
  <2> QED
    BY <2>4, <2>5 DEF DurableInv
<1>5. CASE ~ (t.fn = "create" /\ \E o \in Phones : chans[o] # 0)
  <2> DEFINE c == IF t.fn = "flush" THEN t.conv ELSE made + 1
             x == [fn |-> "thinking", conv |-> c]
  <2>1. c \in Conversations
    BY <1>0, <1>3, FunctionForms
  <2>2. x \in Functions /\ x.fn = "thinking" /\ x.conv = c
    BY <2>1, FunctionForms
  <2>3. /\ fns' = (fns \ {t}) \cup {x} /\ conv' = c
        /\ made' = (IF t.fn = "flush" THEN made ELSE made + 1)
        /\ current' = 0 /\ dials' = CloseDial(current)
        /\ chans' = [o \in Phones |-> 0]
    BY <1>5 DEF Retarget, Resumed, DropRelay
  <2> HIDE DEF c, x
  <2>4. /\ dials' \in Seq(DialRecords) /\ DOMAIN dials' = DOMAIN dials /\ Len(dials') = Len(dials)
        /\ \A j \in DOMAIN dials : /\ dials'[j].room = dials[j].room
                                   /\ dials'[j].at = IF j = current THEN "closed" ELSE dials[j].at
    BY <1>0, <2>3, ClosedDial
  <2>5. FnTypes'
    <3>1. [fn |-> "create"] \in fns' => made' < MaxConvs
      <4>1. CASE t.fn = "create"
        <5>1. t = [fn |-> "create"]
          BY <1>0, <4>1 DEF Functions
        <5> QED
          BY <5>1, <2>2, <2>3
      <4>2. CASE t.fn = "flush"
        BY <1>0, <4>2, <2>2, <2>3 DEF FnTypes
      <4> QED
        BY <1>0, <4>1, <4>2
    <3>2. [fn |-> "stop"] \in fns' => halted'
      BY <1>0, <1>2, <2>2, <2>3 DEF FnTypes
    <3>3. \A u \in fns' : u.fn \in {"connect", "lookup", "pair", "add"} => u.id \in DOMAIN dials'
      BY <1>0, <2>2, <2>3, <2>4 DEF FnTypes
    <3>4. fns' \subseteq Functions
      BY <1>0, <2>2, <2>3 DEF FnTypes, Functions, Conversations, Dials
    <3>5. made' \in Conversations
      BY <1>0, <1>3, <2>3 DEF FnTypes
    <3> QED
      BY <3>1, <3>2, <3>3, <3>4, <3>5 DEF FnTypes
  <2>6. DurableTypes'
    BY <1>0, <1>2, <2>1, <2>3, <2>4, <2>5 DEF DurableTypes, Conversations, DialRecords
  <2>7. ASSUME Undisturbed' PROVE OneMove'
    <3>1. OneMove
      BY <2>7, <1>2 DEF Undisturbed, DurableInv
    <3>2. \A u \in fns : u.fn \in MoveNames => u = t
      BY <1>0, <3>1 DEF OneMove, MoveNames
    <3>3. \A u \in fns' : u.fn \in MoveNames => u = x
      BY <2>3, <3>2
    <3>4. x \in fns' /\ x.fn = "thinking" /\ x.conv = conv'
      BY <2>2, <2>3
    <3>5. \A i \in DOMAIN dials' : dials'[i].at # "open"
      BY <2>4, <3>1 DEF OneMove
    <3> QED
      BY <2>3, <3>3, <3>4, <3>5 DEF OneMove, MoveNames
  <2> QED
    BY <2>6, <2>7 DEF DurableInv
<1> QED
  BY <1>4, <1>5

LEMMA AttachStep ==
    ASSUME DurableInv, NEW t \in fns, AttachPort(t) \/ AttachSource(t)
    PROVE  DurableInv'
<1>0. /\ DurableTypes /\ FnTypes /\ t \in Functions /\ t.fn \in {"thinking", "restart"}
      /\ t.conv \in Conversations
  BY FunctionForms DEF DurableInv, DurableTypes, FnTypes, AttachPort, AttachSource
<1> DEFINE x == [fn |-> IF t.fn = "thinking" THEN "restart" ELSE "open", conv |-> t.conv]
<1>1. x \in Functions /\ x.fn = (IF t.fn = "thinking" THEN "restart" ELSE "open") /\ x.conv = t.conv
  BY <1>0, FunctionForms
<1>2. /\ fns' = (fns \ {t}) \cup {x}
      /\ UNCHANGED <<conv, made, dials, current, myRoom, retryArmed, halted, chans, trusted, token,
                     crossed, failed>>
  BY <1>0 DEF AttachPort, AttachSource, relayVars, pairVars, Resumed
<1>3. /\ t.fn = "thinking" => port' = t.conv /\ UNCHANGED source
      /\ t.fn = "restart" => source' = t.conv /\ UNCHANGED port
  BY DEF AttachPort, AttachSource
<1> HIDE DEF x
<1>4. FnTypes'
  <2>1. /\ fns' \subseteq fns \cup {x} /\ DOMAIN dials \subseteq DOMAIN dials' /\ made' = made
        /\ (halted => halted')
    BY <1>2
  <2> QED
    BY <1>0, <1>1, <2>1, FnGrown
<1>5. DurableTypes'
  BY <1>0, <1>2, <1>3, <1>4 DEF DurableTypes, Conversations, DialRecords
<1>6. ASSUME Undisturbed' PROVE OneMove'
  <2>1. OneMove
    BY <1>6, <1>2 DEF Undisturbed, DurableInv
  <2>2. current = 0 /\ t.conv = conv /\ \A u \in fns : u.fn \in MoveNames => u = t
    BY <1>0, <2>1 DEF OneMove, MoveNames
  <2>3. \A u \in fns' : u.fn \in MoveNames => u = x
    BY <1>2, <2>2
  <2>4. port' = conv' /\ (t.fn = "restart" => source' = conv')
    BY <1>0, <1>2, <1>3, <2>1, <2>2 DEF OneMove, MoveNames
  <2>5. x \in fns' /\ x.fn \in MoveNames
    BY <1>1, <1>2 DEF MoveNames
  <2>6. \A i \in DOMAIN dials' : dials'[i].at = "open" => i = current'
    BY <1>2, <2>1 DEF OneMove
  <2> QED
    BY <1>0, <1>1, <1>2, <2>2, <2>3, <2>4, <2>5, <2>6 DEF OneMove, MoveNames
<1> QED
  BY <1>5, <1>6 DEF DurableInv

LEMMA AttachedStep ==
    ASSUME DurableInv, NEW t \in fns, Attached(t)
    PROVE  DurableInv'
<1>0. /\ DurableTypes /\ FnTypes /\ dials \in Seq(DialRecords) /\ conv \in Conversations
      /\ t.fn = "open"
  BY DEF DurableInv, DurableTypes, Attached
<1>1. UNCHANGED <<conv, port, source, made, current, myRoom, retryArmed, halted, chans, trusted, token,
                  crossed, failed>>
  BY DEF Attached, convVars, pairVars
<1>2. CASE halted
  <2>1. fns' = fns \ {t} /\ UNCHANGED dials
    BY <1>2 DEF Attached, Resumed
  <2>2. FnTypes'
    <3>1. fns' \subseteq fns /\ DOMAIN dials \subseteq DOMAIN dials' /\ made' = made /\ (halted => halted')
      BY <1>1, <2>1
    <3> QED
      BY <1>0, <3>1, FnKept
  <2>3. DurableTypes'
    BY <1>0, <1>1, <2>1, <2>2 DEF DurableTypes, Conversations, DialRecords
  <2> QED
    BY <1>1, <1>2, <2>3 DEF DurableInv, Undisturbed
<1>3. CASE ~ halted
  <2>1. Dial(conv) /\ fns' = (fns \ {t}) \cup {Dialled}
    BY <1>3 DEF Attached, Resumed
  <2>2. /\ dials' \in Seq(DialRecords) /\ Len(dials') = Len(dials) + 1 /\ Len(dials') <= MaxDials
        /\ DOMAIN dials \subseteq DOMAIN dials' /\ Len(dials) + 1 \in DOMAIN dials'
        /\ \A j \in DOMAIN dials : dials'[j] = dials[j]
        /\ dials'[Len(dials) + 1].room = conv /\ dials'[Len(dials) + 1].at = "connecting"
        /\ \A j \in DOMAIN dials' : j \in DOMAIN dials \/ j = Len(dials) + 1
    BY <1>0, <2>1, NewDial
  <2>3. DOMAIN dials' \subseteq Dials
    <3>1. Len(dials') \in Nat /\ DOMAIN dials' = 1 .. Len(dials')
      BY <2>2, LenProperties
    <3> QED
      BY <2>2, <3>1, DurableAssumption DEF Dials
  <2>4. Dialled \in Functions /\ Dialled.fn = "connect" /\ Dialled.id = Len(dials) + 1
    BY <2>2, <2>3, FunctionForms DEF Dialled
  <2>5. FnTypes'
    <3>1. /\ fns' \subseteq fns \cup {Dialled} /\ DOMAIN dials \subseteq DOMAIN dials' /\ made' = made
          /\ (halted => halted') /\ Dialled.id \in DOMAIN dials'
      BY <1>1, <2>1, <2>2, <2>4
    <3> QED
      BY <1>0, <2>4, <3>1, FnGrown
  <2>6. DurableTypes'
    <3>1. chans' \in [Phones -> DOMAIN dials' \cup {0}]
      BY <1>0, <1>1, <2>2 DEF DurableTypes
    <3>2. current' \in DOMAIN dials' \cup {0}
      BY <1>0, <1>1, <2>2 DEF DurableTypes
    <3>3. /\ conv' \in Conversations /\ port' \in Conversations /\ source' \in Conversations \cup {0}
          /\ myRoom' \in Conversations \cup {0} /\ trusted' \subseteq Phones
          /\ token' \in {"none", "live", "used"}
      BY <1>0, <1>1 DEF DurableTypes
    <3> QED
      BY <2>2, <2>5, <3>1, <3>2, <3>3 DEF DurableTypes, Conversations, DialRecords
  <2>7. ASSUME Undisturbed' PROVE OneMove'
    <3>1. OneMove
      BY <2>7, <1>1 DEF Undisturbed, DurableInv
    <3>2. current' = 0 /\ \A u \in fns : u.fn \in MoveNames => u = t
      BY <1>0, <1>1, <3>1 DEF OneMove, MoveNames
    <3>3. \A u \in fns' : u.fn \in MoveNames => u = Dialled
      BY <2>1, <3>2
    <3>4. \A i \in DOMAIN dials' : dials'[i].at = "open" => i = current'
      BY <1>1, <2>2, <3>1 DEF OneMove
    <3>5. port' = conv' /\ source' = conv'
      BY <1>0, <1>1, <3>1, <3>2 DEF OneMove, MoveNames
    <3>6. Dialled \in fns' /\ Dialled.fn \in MoveNames /\ dials'[Dialled.id].room = conv'
      BY <1>1, <2>1, <2>2, <2>4 DEF MoveNames
    <3> QED
      BY <2>4, <3>2, <3>3, <3>4, <3>5, <3>6 DEF OneMove, MoveNames
  <2> QED
    BY <2>6, <2>7 DEF DurableInv
<1> QED
  BY <1>2, <1>3

\* A move that throws, and a halt, disturb the bridge: only the types are left to show.
LEMMA DisturbedStep ==
    ASSUME DurableInv, Stop \/ \E t \in fns : AttachThrows(t) \/ Stopped(t)
    PROVE  DurableInv'
<1>0. DurableTypes /\ FnTypes /\ dials \in Seq(DialRecords)
  BY DEF DurableInv, DurableTypes
<1>1. CASE Stop
  <2>1. [fn |-> "stop"] \in Functions
    BY FunctionForms
  <2>2. /\ fns' = fns \cup {[fn |-> "stop"]} /\ halted' = TRUE /\ token' = "none"
        /\ UNCHANGED <<conv, port, source, made, dials, current, myRoom, chans, trusted>>
    BY <1>1 DEF Stop, convVars
  <2>3. FnTypes'
    <3>1. fns' \subseteq fns \cup {[fn |-> "stop"]} /\ DOMAIN dials \subseteq DOMAIN dials' /\ made' = made
          /\ halted' /\ (halted => halted')
      BY <2>2
    <3> QED
      BY <1>0, <2>1, <3>1, FnGrown
  <2>4. DurableTypes'
    BY <1>0, <2>2, <2>3 DEF DurableTypes, Conversations, DialRecords
  <2> QED
    BY <2>2, <2>4 DEF DurableInv, Undisturbed
<1>2. CASE \E t \in fns : AttachThrows(t)
  <2>1. PICK t \in fns : AttachThrows(t)
    BY <1>2
  <2>2. /\ fns' = fns \ {t} /\ failed' = TRUE
        /\ UNCHANGED <<conv, port, source, made, dials, current, myRoom, halted, chans, trusted, token>>
    BY <2>1 DEF AttachThrows, convVars, relayVars, pairVars, Resumed
  <2>3. FnTypes'
    <3>1. fns' \subseteq fns /\ DOMAIN dials \subseteq DOMAIN dials' /\ made' = made /\ (halted => halted')
      BY <2>2
    <3> QED
      BY <1>0, <3>1, FnKept
  <2>4. DurableTypes'
    BY <1>0, <2>2, <2>3 DEF DurableTypes, Conversations, DialRecords
  <2> QED
    BY <2>2, <2>4 DEF DurableInv, Undisturbed
<1>3. CASE \E t \in fns : Stopped(t)
  <2>1. PICK t \in fns : Stopped(t)
    BY <1>3
  <2>2. /\ fns' = {} /\ dials' = [i \in DOMAIN dials |-> [dials[i] EXCEPT !.at = "closed"]]
        /\ current' = 0 /\ myRoom' = 0 /\ source' = 0 /\ chans' = [o \in Phones |-> 0]
        /\ UNCHANGED <<conv, port, made, halted, trusted, token>>
    BY <2>1 DEF Stopped
  <2>3. halted
    <3>1. t = [fn |-> "stop"]
      BY <1>0, <2>1 DEF Stopped, FnTypes, Functions
    <3> QED
      BY <1>0, <3>1 DEF FnTypes
  <2>4. dials' \in Seq(DialRecords) /\ DOMAIN dials' = DOMAIN dials /\ Len(dials') = Len(dials)
    <3>1. Len(dials) \in Nat /\ DOMAIN dials = 1 .. Len(dials)
      BY <1>0, LenProperties
    <3>2. \A j \in DOMAIN dials : dials[j] \in DialRecords
      BY <1>0, <3>1, ElementOfSeq
    <3>3. \A x \in DialRecords : [x EXCEPT !.at = "closed"] \in DialRecords
      BY DEF DialRecords
    <3>4. dials' \in [1 .. Len(dials) -> DialRecords]
      BY <2>2, <3>1, <3>2, <3>3
    <3> QED
      BY <3>1, <3>4, LenProperties, IsASeq
  <2>5. FnTypes'
    BY <1>0, <2>2 DEF FnTypes, Conversations
  <2>6. DurableTypes'
    BY <1>0, <2>2, <2>4, <2>5 DEF DurableTypes, Conversations, DialRecords
  <2> QED
    BY <2>2, <2>3, <2>6 DEF DurableInv, Undisturbed
<1> QED
  BY <1>1, <1>2, <1>3

LEMMA DurableStart == DurableInit => DurableInv
<1> SUFFICES ASSUME DurableInit PROVE DurableInv
  OBVIOUS
<1> DEFINE r == [room |-> 1, at |-> "connecting"]
           x == [fn |-> "connect", id |-> 1]
<1>1. /\ conv = 1 /\ port = 1 /\ source = 1 /\ made = 1 /\ dials = <<r>> /\ fns = {x}
      /\ current = 0 /\ myRoom = 0 /\ chans = [o \in Phones |-> 0] /\ trusted \subseteq Phones
      /\ token = "none"
  BY DEF DurableInit
<1>2. 1 \in Conversations /\ 1 \in Dials
  BY DurableAssumption DEF Conversations, Dials
<1>3. r \in DialRecords /\ r.room = 1 /\ r.at = "connecting"
  BY <1>2 DEF DialRecords
<1>4. x \in Functions /\ x.fn = "connect" /\ x.id = 1
  BY <1>2, FunctionForms
<1> HIDE DEF r, x
<1>5. dials \in Seq(DialRecords) /\ Len(dials) = 1 /\ DOMAIN dials = {1} /\ dials[1] = r
  BY <1>1, <1>3
<1>6. FnTypes
  BY <1>1, <1>2, <1>4, <1>5 DEF FnTypes
<1>7. DurableTypes
  BY <1>1, <1>2, <1>5, <1>6, DurableAssumption DEF DurableTypes
<1>8. OneMove
  BY <1>1, <1>3, <1>4, <1>5 DEF OneMove, MoveNames
<1> QED
  BY <1>7, <1>8 DEF DurableInv

LEMMA DurableNextStep == DurableInv /\ [DurableNext]_durableVars => DurableInv'
<1> SUFFICES ASSUME DurableInv, [DurableNext]_durableVars PROVE DurableInv'
  OBVIOUS
<1>1. ASSUME NEW t \in fns,
             \/ ConnectOk(t) \/ ConnectFails(t)
             \/ AttachKnown(t) \/ PairKnown(t) \/ PairStored(t) \/ PairNotStored(t)
             \/ RotateInvite(t)
             \/ Retarget(t) \/ AttachPort(t) \/ AttachSource(t) \/ Attached(t) \/ AttachThrows(t)
             \/ Stopped(t)
      PROVE  DurableInv'
  BY <1>1, ConnectOkStep, ConnectFailsStep, AttachKnownStep, PairKnownStep, PairAddStep, InviteStep,
     RetargetStep, AttachStep, AttachedStep, DisturbedStep
<1>2. CASE ReconnectTimer \/ RotationTimer \/ forcePairingInvite \/ Stop
  BY <1>2, ReconnectTimerStep, InviteStep, DisturbedStep
<1>3. ASSUME NEW i \in Dials, OnClose(i) PROVE DurableInv'
  BY <1>3, OnCloseStep
<1>4. ASSUME NEW o \in Phones,
             OnMsg(o) \/ OnNewSession(o) \/ routeUnBienPlane(o) \/ \E valid \in BOOLEAN : OnPairRequest(o, valid)
      PROVE  DurableInv'
  BY <1>4, OwnersStep, CreateStep, DisturbedStep DEF OnNewSession, routeUnBienPlane
<1>5. CASE UNCHANGED durableVars
  <2>1. /\ Settled /\ UNCHANGED <<fns, chans, trusted, token>>
    BY <1>5 DEF durableVars, convVars, relayVars, pairVars, Settled
  <2>2. DurableTypes /\ FnTypes
    BY DEF DurableInv, DurableTypes
  <2>3. FnTypes'
    BY <2>1, <2>2, FnKept DEF Settled
  <2>4. /\ chans' \in [Phones -> DOMAIN dials \cup {0}]
        /\ trusted' \subseteq Phones /\ token' \in {"none", "live", "used"}
    BY <2>1, <2>2 DEF DurableTypes
  <2> QED
    BY <2>1, <2>3, <2>4, Aside
<1> QED
  BY <1>1, <1>2, <1>3, <1>4, <1>5 DEF DurableNext

(***************************************************************************)
(* bridge.ts publishes a client, moves and watches in functions that do    *)
(* not know of each other; as long as none of them overtook another and no *)
(* attach threw, a bridge at rest answers for one conversation: its room,  *)
(* its port and its watch are of it, and no other client is open.          *)
(***************************************************************************)
THEOREM BridgeOfOnePiece == DurableSpec => []OneConversation
<1>1. DurableInv => OneConversation
  <2> SUFFICES ASSUME DurableInv PROVE OneConversation
    OBVIOUS
  <2>1. DurableTypes /\ FnTypes
    BY DEF DurableInv, DurableTypes
  <2>2. DurableTypeOK
    BY <2>1, DialsNumbered DEF DurableTypes, FnTypes, DurableTypeOK, DialRecords
  <2>3. ASSUME Quiet, ~ crossed, ~ failed
        PROVE  /\ port = conv /\ source = conv
               /\ current # 0 => dials[current].room = conv /\ myRoom = conv
               /\ current = 0 => retryArmed
               /\ \A i \in DOMAIN dials : dials[i].at = "open" => i = current
    <3>1. OneMove
      BY <2>3 DEF Quiet, DurableInv, Undisturbed
    <3>2. \A t \in fns : t.fn \notin MoveNames
      BY <2>3 DEF Quiet, Retargeting, Waiting, MoveNames
    <3> QED
      BY <3>1, <3>2 DEF OneMove, MoveNames
  <2> QED
    BY <2>2, <2>3 DEF OneConversation
<1> QED
  BY <1>1, DurableStart, DurableNextStep, PTL DEF DurableSpec

-----------------------------------------------------------------------------
(***************************************************************************)
(* The rooms of subagents.  That a record is bound to its own child is not *)
(* inductive: InLine adds that the children which may be taken next are    *)
(* tagged and wait in the queue in the order the manager admitted them, so *)
(* the first tagged entry is the child whose turn it is.                   *)
(***************************************************************************)

RoomRecords == [kid : Kids, at : {"connecting", "open", "gone"}, serving : BOOLEAN, listening : BOOLEAN]

RoomTypes ==
    /\ stage \in [Kids -> Stages] /\ marks \in BOOLEAN
    /\ rootUp \in BOOLEAN /\ over \in BOOLEAN /\ early \in BOOLEAN /\ breaks \in 0 .. MaxBreaks
    /\ rooms \in Seq(RoomRecords) /\ Len(rooms) <= MaxRooms
    /\ children \in [Kids -> 0 .. MaxRooms]
    /\ building \subseteq Kids /\ pendingAttach \subseteq Kids
    /\ inProcess \subseteq InKids /\ released \subseteq Kids
    /\ row \in [Kids -> {"none", "live", "terminal"}]
    /\ tagged \subseteq InKids /\ boundTo \in [Kids -> Kids \cup {NoKid}]
    /\ unbound \in Seq(Kids) /\ admitted \in Seq(InKids)

Before(s, a, b) == \E i, j \in DOMAIN s : i < j /\ s[i] = a /\ s[j] = b

\* What the stage of a child says of it, bound or not.
Walk ==
    \A k \in Kids :
        /\ stage[k] \in {"begun", "started", "finished"} => k \in inProcess
        /\ k \in inProcess => stage[k] \notin {"none", "marked"}
        /\ boundTo[k] # NoKid => k \in inProcess
        /\ stage[k] = "none" => ~ Contains(unbound, k) /\ ~ Contains(admitted, k)

\* Until the controller is disposed of: a child that has begun, unless it was
\* bound before, is tagged and waits in both queues, which agree on the order.
InLine ==
    /\ \A k \in Kids :
          /\ k \in InKids /\ stage[k] = "marked" => Contains(unbound, k) /\ Contains(admitted, k)
          /\ stage[k] = "begun" /\ boundTo[k] = NoKid =>
                Contains(unbound, k) /\ Contains(admitted, k) /\ k \in tagged
          /\ k \in tagged => stage[k] = "begun" /\ boundTo[k] = NoKid
          /\ k \in inProcess /\ stage[k] # "begun" => boundTo[k] = k
    /\ \A a, b \in Kids : ~ (Before(admitted, a, b) /\ Before(unbound, b, a))

RoomsInv ==
    /\ RoomTypes /\ TombstoneHolds /\ Walk /\ BindingsRight
    /\ ~ early /\ ~ over => InLine

LEMMA LeastIndex ==
    ASSUME NEW I \in SUBSET Nat, I # {}
    PROVE  /\ (CHOOSE i \in I : \A j \in I : i <= j) \in I
           /\ \A j \in I : (CHOOSE i \in I : \A l \in I : i <= l) <= j
<1>1. PICK n \in I : \A m \in I : ~(<<m, n>> \in OpToRel(<, Nat))
  BY WFMin, NatLessThanWellFounded
<1>2. \A i, j \in Nat : i < j => <<i, j>> \in OpToRel(<, Nat)
  BY Zenon DEF OpToRel
<1>3. \A m \in I : ~(m < n)
  BY <1>1, <1>2, Zenon
<1>4. \A m \in I : n <= m
  BY <1>3
<1> QED
  BY <1>4

LEMMA AppendedTo ==
    ASSUME NEW S, NEW s \in Seq(S), NEW x \in S
    PROVE  /\ Append(s, x) \in Seq(S)
           /\ \A y : Contains(Append(s, x), y) <=> Contains(s, y) \/ y = x
           /\ \A a, b : Before(Append(s, x), a, b) =>
                           Before(s, a, b) \/ (Contains(s, a) /\ b = x)
<1> DEFINE t == Append(s, x)
<1>1. /\ t \in Seq(S) /\ Len(t) = Len(s) + 1 /\ t[Len(s) + 1] = x
      /\ \A i \in 1 .. Len(s) : t[i] = s[i]
  BY AppendProperties
<1>2. /\ Len(s) \in Nat /\ DOMAIN s = 1 .. Len(s) /\ DOMAIN t = 1 .. Len(s) + 1
  BY <1>1, LenProperties
<1> HIDE DEF t
<1>3. \A y : Contains(t, y) <=> Contains(s, y) \/ y = x
  BY <1>1, <1>2 DEF Contains
<1>4. \A a, b : Before(t, a, b) => Before(s, a, b) \/ (Contains(s, a) /\ b = x)
  BY <1>1, <1>2 DEF Contains, Before
<1> QED
  BY <1>1, <1>3, <1>4 DEF t

LEMMA CutFrom ==
    ASSUME NEW S, NEW s \in Seq(S), NEW n \in 1 .. Len(s)
    PROVE  /\ RemoveAt(s, n) \in Seq(S)
           /\ \A y : Contains(RemoveAt(s, n), y) => Contains(s, y)
           /\ \A y : Contains(s, y) /\ y # s[n] => Contains(RemoveAt(s, n), y)
           /\ \A a, b : Before(RemoveAt(s, n), a, b) => Before(s, a, b)
<1> DEFINE l == SubSeq(s, 1, n - 1)
           r == SubSeq(s, n + 1, Len(s))
           t == l \o r
<1>1. Len(s) \in Nat /\ DOMAIN s = 1 .. Len(s) /\ \A i \in 1 .. Len(s) : s[i] \in S
  BY LenProperties, ElementOfSeq
<1>2. l \in Seq(S) /\ Len(l) = n - 1 /\ \A i \in 1 .. n - 1 : l[i] = s[i]
  <2>1. \A i \in 1 .. n - 1 : s[i] \in S
    BY <1>1
  <2>2. 1 \in Int /\ n - 1 \in Int /\ n - 1 - 1 + 1 = n - 1 /\ \A i \in 1 .. n - 1 : 1 + i - 1 = i
    BY <1>1
  <2> QED
    BY <1>1, <2>1, <2>2, SubSeqProperties
<1>3. r \in Seq(S) /\ Len(r) = Len(s) - n /\ \A i \in 1 .. Len(s) - n : r[i] = s[n + i]
  <2>1. \A i \in n + 1 .. Len(s) : s[i] \in S
    BY <1>1
  <2>2. n + 1 \in Int /\ Len(s) \in Int
    BY <1>1
  <2>3. /\ r \in Seq(S)
        /\ Len(r) = IF n + 1 <= Len(s) THEN Len(s) - (n + 1) + 1 ELSE 0
        /\ \A i \in 1 .. Len(s) - (n + 1) + 1 : r[i] = s[(n + 1) + i - 1]
    BY <2>1, <2>2, SubSeqProperties
  <2> HIDE DEF r
  <2>4. Len(r) = Len(s) - n
    <3>1. CASE n + 1 <= Len(s)
      <4>1. Len(r) = Len(s) - (n + 1) + 1
        BY <2>3, <3>1
      <4>2. Len(s) - (n + 1) + 1 = Len(s) - n
        BY <1>1
      <4> QED
        BY <4>1, <4>2
    <3>2. CASE ~ (n + 1 <= Len(s))
      <4>1. Len(r) = 0
        BY <2>3, <3>2
      <4>2. Len(s) \in Nat /\ n \in Nat /\ n <= Len(s) /\ n + 1 > Len(s)
        <5> HIDE DEF l, t
        <5> QED
          BY <1>1, <3>2
      <4>3. Len(s) - n = 0
        BY <4>2
      <4> QED
        BY <4>1, <4>3
    <3> QED
      BY <3>1, <3>2
  <2>5. \A i \in 1 .. Len(s) - n : i \in 1 .. Len(s) - (n + 1) + 1 /\ (n + 1) + i - 1 = n + i
    BY <1>1
  <2> QED
    BY <2>3, <2>4, <2>5
<1>4. /\ t \in Seq(S) /\ Len(t) = Len(s) - 1
      /\ \A i \in 1 .. Len(s) - 1 : t[i] = IF i < n THEN s[i] ELSE s[i + 1]
  <2> HIDE DEF l, r
  <2>1. /\ t \in Seq(S) /\ Len(t) = Len(l) + Len(r)
        /\ \A i \in 1 .. Len(l) + Len(r) : t[i] = IF i <= Len(l) THEN l[i] ELSE r[i - Len(l)]
    BY <1>2, <1>3, ConcatProperties
  <2>2. Len(l) + Len(r) = Len(s) - 1
    BY <1>1, <1>2, <1>3
  <2>3. ASSUME NEW i \in 1 .. Len(s) - 1 PROVE t[i] = IF i < n THEN s[i] ELSE s[i + 1]
    <3>1. CASE i < n
      BY <1>1, <1>2, <2>1, <2>2, <3>1
    <3>2. CASE ~ (i < n)
      <4>1. i - Len(l) \in 1 .. Len(s) - n /\ ~ (i <= Len(l)) /\ n + (i - Len(l)) = i + 1
        BY <1>1, <1>2, <3>2
      <4> QED
        BY <1>3, <2>1, <2>2, <3>2, <4>1
    <3> QED
      BY <3>1, <3>2
  <2> QED
    BY <2>1, <2>2, <2>3
<1>5. RemoveAt(s, n) = t
  BY DEF RemoveAt
<1> HIDE DEF t
<1>6. DOMAIN t = 1 .. Len(s) - 1
  BY <1>4, LenProperties
<1>7. \A y : Contains(t, y) => Contains(s, y)
  BY <1>1, <1>4 DEF Contains
<1>8. ASSUME NEW y, Contains(s, y), y # s[n] PROVE Contains(t, y)
  <2>1. PICK i \in 1 .. Len(s) : s[i] = y
    BY <1>8 DEF Contains
  <2>2. CASE i < n
    BY <1>1, <1>4, <2>1, <2>2 DEF Contains
  <2>3. CASE ~ (i < n)
    <3>1. i - 1 \in 1 .. Len(s) - 1 /\ ~ (i - 1 < n) /\ (i - 1) + 1 = i
      BY <1>1, <1>8, <2>1, <2>3
    <3>2. t[i - 1] = y
      BY <1>4, <2>1, <3>1
    <3> QED
      BY <1>4, <3>1, <3>2 DEF Contains
  <2> QED
    BY <2>2, <2>3
<1>9. ASSUME NEW a, NEW b, Before(t, a, b) PROVE Before(s, a, b)
  <2>1. PICK i, j \in 1 .. Len(s) - 1 : i < j /\ t[i] = a /\ t[j] = b
    BY <1>6, <1>9 DEF Before
  <2> DEFINE p == IF i < n THEN i ELSE i + 1
             q == IF j < n THEN j ELSE j + 1
  <2>2. p \in 1 .. Len(s) /\ q \in 1 .. Len(s) /\ p < q
    BY <1>1, <2>1
  <2>3. s[p] = a /\ s[q] = b
    BY <1>4, <2>1
  <2> QED
    BY <1>1, <2>2, <2>3 DEF Before
<1> QED
  BY <1>4, <1>5, <1>7, <1>8, <1>9

LEMMA WithoutFirst ==
    ASSUME NEW S, NEW s \in Seq(S), NEW k
    PROVE  /\ RemoveFirst(s, k) \in Seq(S)
           /\ \A y : Contains(RemoveFirst(s, k), y) => Contains(s, y)
           /\ \A y : Contains(s, y) /\ y # k => Contains(RemoveFirst(s, k), y)
           /\ \A a, b : Before(RemoveFirst(s, k), a, b) => Before(s, a, b)
<1>1. CASE \E i \in 1 .. Len(s) : s[i] = k
  <2> DEFINE I == {i \in 1 .. Len(s) : s[i] = k}
             n == CHOOSE i \in I : \A j \in I : i <= j
  <2>1. Len(s) \in Nat
    BY LenProperties
  <2>2. I \in SUBSET Nat /\ I # {}
    BY <1>1, <2>1
  <2>3. SelectInSeq(s, LAMBDA v : v = k) = n
    BY <2>2 DEF SelectInSeq, Min
  <2>4. n \in 1 .. Len(s) /\ s[n] = k
    <3>1. n \in I
      <4> HIDE DEF I
      <4> QED
        BY <2>2, LeastIndex
    <3> QED
      BY <3>1
  <2>5. RemoveFirst(s, k) = RemoveAt(s, n)
    BY <1>1, <2>3 DEF RemoveFirst
  <2> HIDE DEF n
  <2> QED
    BY <2>4, <2>5, CutFrom
<1>2. CASE ~ \E i \in 1 .. Len(s) : s[i] = k
  BY <1>2 DEF RemoveFirst
<1> QED
  BY <1>1, <1>2

LEMMA RoomForms ==
    /\ \A x \in RoomRecords : x.kid \in Kids
    /\ \A x \in RoomRecords, a \in {"connecting", "open", "gone"} : [x EXCEPT !.at = a] \in RoomRecords
    /\ \A x \in RoomRecords, b \in BOOLEAN : [x EXCEPT !.serving = b] \in RoomRecords
    /\ \A x \in RoomRecords, b \in BOOLEAN : [x EXCEPT !.listening = b] \in RoomRecords
    /\ \A x \in RoomRecords, a \in {"connecting", "open", "gone"}, b \in BOOLEAN :
          /\ [x EXCEPT !.at = a, !.serving = b] \in RoomRecords
          /\ [x EXCEPT !.at = a, !.listening = b] \in RoomRecords
    /\ \A k \in Kids, b, c \in BOOLEAN :
          [kid |-> k, at |-> "connecting", serving |-> b, listening |-> c] \in RoomRecords
<1>1. /\ \A x \in RoomRecords : x.kid \in Kids
      /\ \A x \in RoomRecords, a \in {"connecting", "open", "gone"} : [x EXCEPT !.at = a] \in RoomRecords
  BY DEF RoomRecords
<1>2. \A x \in RoomRecords, b \in BOOLEAN : [x EXCEPT !.serving = b] \in RoomRecords
  BY DEF RoomRecords
<1>3. \A x \in RoomRecords, b \in BOOLEAN : [x EXCEPT !.listening = b] \in RoomRecords
  BY DEF RoomRecords
<1>4. \A x \in RoomRecords, a \in {"connecting", "open", "gone"}, b \in BOOLEAN :
          [x EXCEPT !.at = a, !.serving = b] \in RoomRecords
  BY DEF RoomRecords
<1>5. \A x \in RoomRecords, a \in {"connecting", "open", "gone"}, b \in BOOLEAN :
          [x EXCEPT !.at = a, !.listening = b] \in RoomRecords
  BY DEF RoomRecords
<1>6. \A k \in Kids, b, c \in BOOLEAN :
          [kid |-> k, at |-> "connecting", serving |-> b, listening |-> c] \in RoomRecords
  BY DEF RoomRecords
<1> QED
  BY <1>1, <1>2, <1>3, <1>4, <1>5, <1>6

LEMMA RoomPut ==
    ASSUME rooms \in Seq(RoomRecords), NEW r, NEW x, r \in DOMAIN rooms => x \in RoomRecords
    PROVE  [rooms EXCEPT ![r] = x] \in Seq(RoomRecords) /\ Len([rooms EXCEPT ![r] = x]) = Len(rooms)
<1> DEFINE t == [rooms EXCEPT ![r] = x]
<1>1. Len(rooms) \in Nat /\ DOMAIN rooms = 1 .. Len(rooms)
  BY LenProperties
<1>2. \A j \in DOMAIN rooms : rooms[j] \in RoomRecords
  BY <1>1, ElementOfSeq
<1>3. t \in [1 .. Len(rooms) -> RoomRecords]
  BY <1>1, <1>2
<1> HIDE DEF t
<1>4. t \in Seq(RoomRecords) /\ Len(t) = Len(rooms)
  BY <1>1, <1>3, LenProperties, IsASeq
<1> QED
  BY <1>4 DEF t

\* The rooms that ensureChildRoom leaves behind.
LEMMA Ensured ==
    ASSUME RoomTypes, NEW k \in Kids, NEW launch \in BOOLEAN, ensureChildRoom(k, launch)
    PROVE  /\ rooms' \in Seq(RoomRecords) /\ Len(rooms') <= MaxRooms
           /\ building' \subseteq Kids /\ pendingAttach' \subseteq Kids
<1>0. /\ rooms \in Seq(RoomRecords) /\ Len(rooms) <= MaxRooms /\ Len(rooms) \in Nat
      /\ building \subseteq Kids /\ pendingAttach \subseteq Kids /\ MaxRooms \in Nat
  BY LenProperties, RoomsAssumption DEF RoomTypes
<1>1. \A r \in DOMAIN rooms : rooms[r] \in RoomRecords
  BY <1>0, LenProperties, ElementOfSeq
<1>2. CASE children[k] # 0
  <2> DEFINE b == rooms[children[k]].serving \/ launch
             x == [rooms[children[k]] EXCEPT !.serving = b]
  <2>1. b \in BOOLEAN
    BY Zenon
  <2>2. rooms' = [rooms EXCEPT ![children[k]] = x] /\ UNCHANGED <<building, pendingAttach>>
    BY <1>2 DEF ensureChildRoom
  <2> HIDE DEF b
  <2>3. children[k] \in DOMAIN rooms => x \in RoomRecords
    BY <1>1, <2>1, RoomForms
  <2> HIDE DEF x
  <2> QED
    BY <1>0, <2>2, <2>3, RoomPut
<1>3. CASE children[k] = 0 /\ k \in building
  BY <1>0, <1>3 DEF ensureChildRoom
<1>4. CASE children[k] = 0 /\ k \notin building
  <2> DEFINE x == [kid |-> k, at |-> "connecting", serving |-> launch, listening |-> TRUE]
  <2>1. x \in RoomRecords
    BY RoomForms
  <2>2. /\ rooms' = Append(rooms, x) /\ Len(rooms) < MaxRooms
        /\ building' = building \cup {k} /\ UNCHANGED pendingAttach
    BY <1>4 DEF ensureChildRoom
  <2> HIDE DEF x
  <2>3. rooms' \in Seq(RoomRecords) /\ Len(rooms') = Len(rooms) + 1
    BY <1>0, <2>1, <2>2, AppendProperties
  <2> QED
    BY <1>0, <2>2, <2>3
<1> QED
  BY <1>2, <1>3, <1>4

LineVars == <<stage, admitted, unbound, boundTo, tagged, inProcess, early, over>>

\* A step of the connections leaves everything about the queues alone.
LEMMA OffLine ==
    ASSUME RoomsInv, UNCHANGED LineVars, TombstoneHolds',
           marks' \in BOOLEAN, rootUp' \in BOOLEAN, breaks' \in 0 .. MaxBreaks,
           rooms' \in Seq(RoomRecords), Len(rooms') <= MaxRooms,
           children' \in [Kids -> 0 .. MaxRooms],
           building' \subseteq Kids, pendingAttach' \subseteq Kids, released' \subseteq Kids,
           row' \in [Kids -> {"none", "live", "terminal"}]
    PROVE  RoomsInv'
<1>1. RoomTypes'
  BY Zenon DEF RoomsInv, RoomTypes, LineVars, Kids, RoomRecords, Stages
<1>2. Walk'
  BY DEF RoomsInv, Walk, LineVars, Kids, Contains
<1>3. BindingsRight'
  BY DEF RoomsInv, BindingsRight, LineVars, Kids
<1>4. ~ early' /\ ~ over' => InLine'
  BY DEF RoomsInv, InLine, LineVars, Kids, Contains, Before
<1> QED
  BY <1>1, <1>2, <1>3, <1>4 DEF RoomsInv

LEMMA BuildStep ==
    ASSUME RoomsInv, NEW r \in DOMAIN rooms, BuildDone(r) \/ BuildFails(r)
    PROVE  RoomsInv'
<1>0. /\ rooms \in Seq(RoomRecords) /\ Len(rooms) <= MaxRooms /\ Len(rooms) \in Nat
      /\ DOMAIN rooms = 1 .. Len(rooms) /\ MaxRooms \in Nat
  BY LenProperties, RoomsAssumption DEF RoomTypes, RoomsInv
<1>r. r \in 0 .. MaxRooms /\ r \in 1 .. Len(rooms)
  BY <1>0
<1>1. rooms[r] \in RoomRecords /\ rooms[r].kid \in Kids /\ r \in 0 .. MaxRooms
  BY <1>0, <1>r, ElementOfSeq, RoomForms
<1>2. /\ UNCHANGED LineVars /\ UNCHANGED <<marks, rootUp, released, row>>
  BY DEF BuildDone, BuildFails, LineVars
<1>3. rooms' \in Seq(RoomRecords) /\ Len(rooms') <= MaxRooms
  <2>1. PICK a \in {"connecting", "open", "gone"}, b \in BOOLEAN :
           \/ rooms' = [rooms EXCEPT ![r] = [rooms[r] EXCEPT !.at = a, !.serving = b]]
           \/ rooms' = [rooms EXCEPT ![r] = [rooms[r] EXCEPT !.at = a]]
    <3>1. CASE BuildDone(r)
      <4> DEFINE a == IF over \/ rooms[r].kid \in released THEN "gone" ELSE "open"
                 b == rooms[r].serving \/ (~ (over \/ rooms[r].kid \in released)
                                             /\ rooms[r].kid \in pendingAttach)
      <4>1. a \in {"connecting", "open", "gone"} /\ b \in BOOLEAN
        BY Zenon
      <4>2. rooms' = [rooms EXCEPT ![r] = [rooms[r] EXCEPT !.at = a, !.serving = b]]
        BY <1>0, <3>1 DEF BuildDone
      <4> QED
        BY <4>1, <4>2
    <3>2. CASE BuildFails(r)
      <4>1. rooms' = [rooms EXCEPT ![r] = [rooms[r] EXCEPT !.at = "gone"]]
        BY <3>2 DEF BuildFails
      <4> QED
        BY <4>1
    <3> QED
      BY <3>1, <3>2
  <2>2. PICK x \in RoomRecords : rooms' = [rooms EXCEPT ![r] = x]
    BY <1>1, <2>1, RoomForms
  <2> QED
    BY <1>0, <2>2, RoomPut
<1>4. children' \in [Kids -> 0 .. MaxRooms] /\ breaks' \in 0 .. MaxBreaks
  <2>1. children' = children \/ children' = [children EXCEPT ![rooms[r].kid] = r]
    BY DEF BuildDone, BuildFails
  <2>2. breaks' = breaks \/ (breaks > 0 /\ breaks' = breaks - 1)
    BY DEF BuildDone, BuildFails, Break
  <2>3. children' \in [Kids -> 0 .. MaxRooms]
    BY <1>1, <2>1 DEF RoomsInv, RoomTypes
  <2>4. breaks' \in 0 .. MaxBreaks
    BY <2>2, RoomsAssumption DEF RoomsInv, RoomTypes
  <2> QED
    BY <2>3, <2>4
<1>5. building' \subseteq Kids /\ pendingAttach' \subseteq Kids
  BY DEF BuildDone, BuildFails, RoomsInv, RoomTypes
<1>6. TombstoneHolds'
  BY <1>1, <1>2 DEF BuildDone, BuildFails, RoomsInv, RoomTypes, TombstoneHolds
<1>7. marks' \in BOOLEAN /\ rootUp' \in BOOLEAN /\ released' \subseteq Kids
      /\ row' \in [Kids -> {"none", "live", "terminal"}]
  BY <1>2 DEF RoomsInv, RoomTypes
<1> QED
  BY <1>2, <1>3, <1>4, <1>5, <1>6, <1>7, OffLine

LEMMA RoomClosesStep ==
    ASSUME RoomsInv, NEW r \in DOMAIN rooms, RoomCloses(r)
    PROVE  RoomsInv'
<1>0. /\ rooms \in Seq(RoomRecords) /\ Len(rooms) <= MaxRooms /\ Len(rooms) \in Nat
      /\ DOMAIN rooms = 1 .. Len(rooms) /\ MaxRooms \in Nat
  BY LenProperties, RoomsAssumption DEF RoomTypes, RoomsInv
<1>1. rooms[r] \in RoomRecords /\ rooms[r].kid \in Kids
  BY <1>0, ElementOfSeq, RoomForms
<1>2. UNCHANGED LineVars /\ UNCHANGED <<marks, rootUp, released, row, building, pendingAttach>>
  BY DEF RoomCloses, LineVars
<1>3. rooms' \in Seq(RoomRecords) /\ Len(rooms') <= MaxRooms
  <2> DEFINE x == [rooms[r] EXCEPT !.at = "gone", !.listening = FALSE]
  <2>1. x \in RoomRecords
    BY <1>1, RoomForms
  <2>2. rooms' = [rooms EXCEPT ![r] = x]
    BY DEF RoomCloses
  <2> HIDE DEF x
  <2> QED
    BY <1>0, <2>1, <2>2, RoomPut
<1>4. children' \in [Kids -> 0 .. MaxRooms] /\ breaks' \in 0 .. MaxBreaks
  BY <1>0, <1>1, RoomsAssumption DEF RoomCloses, Break, RoomsInv, RoomTypes
<1>6. TombstoneHolds'
  BY <1>1, <1>2 DEF RoomCloses, RoomsInv, RoomTypes, TombstoneHolds
<1>7. /\ marks' \in BOOLEAN /\ rootUp' \in BOOLEAN /\ released' \subseteq Kids
      /\ row' \in [Kids -> {"none", "live", "terminal"}]
      /\ building' \subseteq Kids /\ pendingAttach' \subseteq Kids
  BY <1>2 DEF RoomsInv, RoomTypes
<1> QED
  BY <1>2, <1>3, <1>4, <1>6, <1>7, OffLine

\* What Release leaves behind, for the app's close and for a disposal.
LEMMA Freed ==
    ASSUME RoomTypes, TombstoneHolds, NEW k \in Kids, Release(k)
    PROVE  /\ rooms' \in Seq(RoomRecords) /\ Len(rooms') <= MaxRooms
           /\ children' \in [Kids -> 0 .. MaxRooms] /\ released' \subseteq Kids
           /\ building' \subseteq Kids /\ pendingAttach' \subseteq Kids /\ TombstoneHolds'
<1>0. /\ rooms \in Seq(RoomRecords) /\ Len(rooms) <= MaxRooms /\ Len(rooms) \in Nat
      /\ DOMAIN rooms = 1 .. Len(rooms) /\ MaxRooms \in Nat
  BY LenProperties, RoomsAssumption DEF RoomTypes
<1>1. \A r \in DOMAIN rooms : rooms[r] \in RoomRecords
  BY <1>0, ElementOfSeq
<1>2. rooms' \in Seq(RoomRecords) /\ Len(rooms') <= MaxRooms
  <2> DEFINE c == children[k]
             x == [rooms[c] EXCEPT !.at = "gone"]
  <2>1. c \in DOMAIN rooms => x \in RoomRecords
    BY <1>1, RoomForms
  <2>2. rooms' = rooms \/ rooms' = [rooms EXCEPT ![c] = x]
    BY DEF Release
  <2> HIDE DEF x
  <2> QED
    BY <1>0, <2>1, <2>2, RoomPut
<1> QED
  BY <1>0, <1>2 DEF Release, RoomTypes, TombstoneHolds

LEMMA TerminateStep ==
    ASSUME RoomsInv, NEW k \in Kids, terminateChildRoom(k)
    PROVE  RoomsInv'
<1>1. RoomTypes /\ TombstoneHolds /\ Release(k)
  BY DEF RoomsInv, terminateChildRoom
<1>2. UNCHANGED LineVars /\ UNCHANGED <<marks, rootUp, row, breaks>>
  BY DEF terminateChildRoom, LineVars
<1>3. /\ rooms' \in Seq(RoomRecords) /\ Len(rooms') <= MaxRooms
      /\ children' \in [Kids -> 0 .. MaxRooms] /\ released' \subseteq Kids
      /\ building' \subseteq Kids /\ pendingAttach' \subseteq Kids /\ TombstoneHolds'
  BY <1>1, Freed
<1>4. /\ marks' \in BOOLEAN /\ rootUp' \in BOOLEAN /\ breaks' \in 0 .. MaxBreaks
      /\ row' \in [Kids -> {"none", "live", "terminal"}]
  BY <1>1, <1>2 DEF RoomTypes
<1> QED
  BY <1>2, <1>3, <1>4, OffLine

LEMMA RootStep ==
    ASSUME RoomsInv, RootComesUp \/ UNCHANGED roomsVars
    PROVE  RoomsInv'
<1>1. /\ UNCHANGED LineVars
      /\ UNCHANGED <<marks, rooms, children, building, pendingAttach, released, row, breaks>>
      /\ rootUp' = TRUE \/ rootUp' = rootUp
  BY DEF RootComesUp, LineVars, roomsVars
<1>2. RoomTypes /\ TombstoneHolds
  BY DEF RoomsInv
<1>3. /\ marks' \in BOOLEAN /\ rootUp' \in BOOLEAN /\ breaks' \in 0 .. MaxBreaks
      /\ row' \in [Kids -> {"none", "live", "terminal"}]
  BY <1>1, <1>2, Zenon DEF RoomTypes
<1>4. /\ rooms' \in Seq(RoomRecords) /\ Len(rooms') <= MaxRooms
      /\ children' \in [Kids -> 0 .. MaxRooms] /\ released' \subseteq Kids
      /\ building' \subseteq Kids /\ pendingAttach' \subseteq Kids
  BY <1>1, <1>2 DEF RoomTypes
<1>5. TombstoneHolds'
  BY <1>1, <1>2 DEF TombstoneHolds
<1> QED
  BY <1>1, <1>3, <1>4, <1>5, OffLine

-----------------------------------------------------------------------------
(* The queues *)

LEMMA InBoth ==
    ASSUME NEW S, NEW s \in Seq(S), NEW a, NEW b, Before(s, a, b)
    PROVE  Contains(s, a) /\ Contains(s, b)
<1>1. DOMAIN s = 1 .. Len(s)
  BY LenProperties
<1> QED
  BY <1>1 DEF Before, Contains

LEMMA Queued ==
    ASSUME unbound \in Seq(Kids), NEW k \in Kids
    PROVE  /\ Queue(k) \in Seq(Kids)
           /\ \A y : Contains(Queue(k), y) <=> Contains(unbound, y) \/ y = k
           /\ \A a, b : Before(Queue(k), a, b) =>
                 \/ Before(unbound, a, b)
                 \/ Contains(unbound, a) /\ b = k /\ ~ Contains(unbound, k)
<1>1. CASE Contains(unbound, k)
  BY <1>1 DEF Queue
<1>2. CASE ~ Contains(unbound, k)
  <2>1. Queue(k) = Append(unbound, k)
    BY <1>2 DEF Queue
  <2> QED
    BY <1>2, <2>1, AppendedTo
<1> QED
  BY <1>1, <1>2

\* A child that is bound is bound to its own record.
LEMMA BoundToItself ==
    ASSUME RoomsInv, ~ early, NEW k \in Kids
    PROVE  SessionBound(k) <=> boundTo[k] = k
<1>1. k # NoKid
  BY RoomsAssumption
<1>2. \A r \in Kids : boundTo[r] \in {r, NoKid}
  BY DEF RoomsInv, BindingsRight
<1> QED
  BY <1>1, <1>2 DEF SessionBound

LEMMA MarkerStep ==
    ASSUME RoomsInv, NEW k \in Kids, onChildMarker(k)
    PROVE  RoomsInv'
<1>0. RoomTypes /\ TombstoneHolds /\ Walk /\ BindingsRight
  BY DEF RoomsInv
<1>1. /\ stage[k] = "none" /\ stage' = [stage EXCEPT ![k] = "marked"]
      /\ admitted' = (IF k \in InKids THEN Append(admitted, k) ELSE admitted)
      /\ unbound' = (IF SessionBound(k) THEN unbound ELSE Queue(k))
      /\ row' = [row EXCEPT ![k] = IF row[k] = "none" THEN "live" ELSE row[k]]
      /\ UNCHANGED <<marks, rootUp, children, inProcess, released, tagged, boundTo, over, early, breaks>>
      /\ ~ over
  BY DEF onChildMarker, RowSeen
<1>2. /\ Queue(k) \in Seq(Kids)
      /\ \A y : Contains(Queue(k), y) <=> Contains(unbound, y) \/ y = k
      /\ \A a, b : Before(Queue(k), a, b) =>
             \/ Before(unbound, a, b)
             \/ Contains(unbound, a) /\ b = k /\ ~ Contains(unbound, k)
  BY <1>0, Queued DEF RoomTypes
<1>3. /\ admitted' \in Seq(InKids)
      /\ \A y : Contains(admitted', y) <=> Contains(admitted, y) \/ (k \in InKids /\ y = k)
      /\ \A a, b : Before(admitted', a, b) =>
             \/ Before(admitted, a, b)
             \/ Contains(admitted, a) /\ b = k
  <2>1. CASE k \in InKids
    <3>1. admitted' = Append(admitted, k)
      BY <1>1, <2>1
    <3> QED
      BY <1>0, <2>1, <3>1, AppendedTo DEF RoomTypes
  <2>2. CASE k \notin InKids
    BY <1>0, <1>1, <2>2 DEF RoomTypes
  <2> QED
    BY <2>1, <2>2
<1>4. /\ unbound' \in Seq(Kids)
      /\ \A y : Contains(unbound', y) => Contains(unbound, y) \/ y = k
  BY <1>0, <1>1, <1>2 DEF RoomTypes
<1>5. stage' \in [Kids -> Stages] /\ row' \in [Kids -> {"none", "live", "terminal"}]
  BY <1>0, <1>1 DEF RoomTypes, Stages
<1>6. /\ rooms' \in Seq(RoomRecords) /\ Len(rooms') <= MaxRooms
      /\ building' \subseteq Kids /\ pendingAttach' \subseteq Kids
  <2>1. CASE rootUp
    <3>1. ensureChildRoom(k, FALSE) /\ FALSE \in BOOLEAN
      BY <2>1 DEF onChildMarker
    <3> QED
      BY <1>0, <3>1, Ensured
  <2>2. CASE ~ rootUp
    BY <1>0, <2>2 DEF onChildMarker, RoomTypes
  <2> QED
    BY <2>1, <2>2
<1>7. RoomTypes'
  BY <1>0, <1>1, <1>3, <1>4, <1>5, <1>6 DEF RoomTypes, Kids, RoomRecords, Stages
<1>8. TombstoneHolds' /\ BindingsRight'
  BY <1>0, <1>1 DEF TombstoneHolds, BindingsRight, Kids
<1>9. Walk'
  <2> SUFFICES ASSUME NEW j \in Kids
               PROVE  /\ stage'[j] \in {"begun", "started", "finished"} => j \in inProcess'
                      /\ j \in inProcess' => stage'[j] \notin {"none", "marked"}
                      /\ boundTo'[j] # NoKid => j \in inProcess'
                      /\ stage'[j] = "none" => ~ Contains(unbound', j) /\ ~ Contains(admitted', j)
    BY DEF Walk, Kids
  <2>1. stage'[j] = IF j = k THEN "marked" ELSE stage[j]
    BY <1>0, <1>1 DEF RoomTypes
  <2>2. k \notin inProcess
    BY <1>0, <1>1 DEF Walk
  <2> QED
    BY <1>0, <1>1, <1>3, <1>4, <2>1, <2>2 DEF Walk
<1>10. ASSUME ~ early', ~ over' PROVE InLine'
  <2>1. InLine /\ ~ early
    BY <1>1, <1>10 DEF RoomsInv
  <2>2. boundTo[k] = NoKid /\ k \notin inProcess /\ ~ Contains(unbound, k) /\ ~ Contains(admitted, k)
        /\ k \notin tagged
    BY <1>0, <1>1, <2>1 DEF Walk, InLine
  <2>3. unbound' = Queue(k)
    BY <1>1, <2>1, <2>2, BoundToItself, RoomsAssumption
  <2>4. \A j \in Kids : stage'[j] = IF j = k THEN "marked" ELSE stage[j]
    BY <1>0, <1>1 DEF RoomTypes
  <2>5. ASSUME NEW j \in Kids
        PROVE  /\ j \in InKids /\ stage'[j] = "marked" => Contains(unbound', j) /\ Contains(admitted', j)
               /\ stage'[j] = "begun" /\ boundTo'[j] = NoKid =>
                     Contains(unbound', j) /\ Contains(admitted', j) /\ j \in tagged'
               /\ j \in tagged' => stage'[j] = "begun" /\ boundTo'[j] = NoKid
               /\ j \in inProcess' /\ stage'[j] # "begun" => boundTo'[j] = j
    BY <1>1, <1>2, <1>3, <2>1, <2>2, <2>3, <2>4 DEF InLine
  <2>6. ASSUME NEW a \in Kids, NEW b \in Kids, Before(admitted', a, b), Before(unbound', b, a)
        PROVE  FALSE
    <3>1. /\ Before(admitted, a, b) => Contains(admitted, a) /\ Contains(admitted, b)
          /\ Before(unbound, b, a) => Contains(unbound, a) /\ Contains(unbound, b)
      BY <1>0, InBoth DEF RoomTypes
    <3> QED
      BY <1>2, <1>3, <2>1, <2>2, <2>3, <2>6, <3>1 DEF InLine
  <2> QED
    BY <2>5, <2>6 DEF InLine, Kids
<1> QED
  BY <1>7, <1>8, <1>9, <1>10 DEF RoomsInv

LEMMA SessionStep ==
    ASSUME RoomsInv, NEW k \in Kids, onChildSession(k)
    PROVE  RoomsInv'
<1>0. RoomTypes /\ TombstoneHolds /\ Walk /\ BindingsRight
  BY DEF RoomsInv
<1>1. /\ k \in InKids /\ stage' = [stage EXCEPT ![k] = "begun"]
      /\ inProcess' = inProcess \cup {k} /\ released' = released \ {k}
      /\ early' = (early \/ ~ rootUp)
      /\ UNCHANGED <<marks, rootUp, children, boundTo, over, breaks>>
      /\ ~ over
  BY DEF onChildSession
<1>2. /\ Queue(k) \in Seq(Kids)
      /\ \A y : Contains(Queue(k), y) <=> Contains(unbound, y) \/ y = k
      /\ \A a, b : Before(Queue(k), a, b) =>
             \/ Before(unbound, a, b)
             \/ Contains(unbound, a) /\ b = k /\ ~ Contains(unbound, k)
  BY <1>0, Queued DEF RoomTypes
<1>a. /\ Append(admitted, k) \in Seq(InKids)
      /\ \A y : Contains(Append(admitted, k), y) <=> Contains(admitted, y) \/ y = k
      /\ \A a, b : Before(Append(admitted, k), a, b) =>
             \/ Before(admitted, a, b)
             \/ Contains(admitted, a) /\ b = k
  BY <1>0, <1>1, AppendedTo DEF RoomTypes
<1>3. admitted' = admitted \/ admitted' = Append(admitted, k)
  BY DEF onChildSession
<1>4. \/ unbound' = unbound /\ tagged' = tagged
      \/ unbound' = Queue(k) /\ tagged' = tagged \cup {k}
  BY DEF onChildSession
<1>5. row' = row \/ row' = [row EXCEPT ![k] = IF row[k] = "none" THEN "live" ELSE row[k]]
  BY DEF onChildSession, RowSeen
<1>6. /\ rooms' \in Seq(RoomRecords) /\ Len(rooms') <= MaxRooms
      /\ building' \subseteq Kids /\ pendingAttach' \subseteq Kids
  <2>1. CASE rootUp
    <3>1. ensureChildRoom(k, TRUE) /\ TRUE \in BOOLEAN
      BY <2>1 DEF onChildSession
    <3> QED
      BY <1>0, <3>1, Ensured
  <2>2. CASE ~ rootUp
    BY <1>0, <2>2 DEF onChildSession, RoomTypes
  <2> QED
    BY <2>1, <2>2
<1>7. RoomTypes'
  <2>1. early' \in BOOLEAN
    BY <1>1, Zenon
  <2>2. stage' \in [Kids -> Stages] /\ row' \in [Kids -> {"none", "live", "terminal"}]
    BY <1>0, <1>1, <1>5 DEF RoomTypes, Stages
  <2>3. /\ unbound' \in Seq(Kids) /\ admitted' \in Seq(InKids) /\ tagged' \subseteq InKids
        /\ inProcess' \subseteq InKids /\ released' \subseteq Kids
    BY <1>0, <1>1, <1>2, <1>a, <1>3, <1>4 DEF RoomTypes
  <2> QED
    BY <1>0, <1>1, <1>6, <2>1, <2>2, <2>3 DEF RoomTypes, Kids, RoomRecords, Stages
<1>8. TombstoneHolds' /\ BindingsRight'
  BY <1>0, <1>1 DEF TombstoneHolds, BindingsRight, Kids
<1>s. \A j \in Kids : stage'[j] = IF j = k THEN "begun" ELSE stage[j]
  BY <1>0, <1>1 DEF RoomTypes
<1>9. Walk'
  <2> SUFFICES ASSUME NEW j \in Kids
               PROVE  /\ stage'[j] \in {"begun", "started", "finished"} => j \in inProcess'
                      /\ j \in inProcess' => stage'[j] \notin {"none", "marked"}
                      /\ boundTo'[j] # NoKid => j \in inProcess'
                      /\ stage'[j] = "none" => ~ Contains(unbound', j) /\ ~ Contains(admitted', j)
    BY DEF Walk, Kids
  <2>1. stage'[j] = "none" => j # k /\ stage[j] = "none"
    BY <1>s
  <2>2. j # k => (Contains(unbound', j) <=> Contains(unbound, j))
               /\ (Contains(admitted', j) <=> Contains(admitted, j))
    BY <1>2, <1>a, <1>3, <1>4
  <2> QED
    BY <1>0, <1>1, <1>s, <2>1, <2>2 DEF Walk
<1>10. ASSUME ~ early', ~ over' PROVE InLine'
  <2>1. InLine /\ ~ early /\ rootUp
    BY <1>1, <1>10 DEF RoomsInv
  <2>2. SessionBound(k) <=> boundTo[k] = k
    BY <2>1, BoundToItself
  <2>3. CASE boundTo[k] = k
    <3>1. /\ unbound' = unbound /\ tagged' = tagged
      BY <2>1, <2>2, <2>3 DEF onChildSession
    <3>2. k \in inProcess /\ boundTo[k] # NoKid
      BY <1>0, <2>3, RoomsAssumption DEF Walk
    <3>3. admitted' = admitted
      BY <1>0, <3>2 DEF onChildSession, Walk
    <3>4. k \notin tagged
      BY <2>1, <3>2 DEF InLine
    <3>5. ASSUME NEW j \in Kids
          PROVE  /\ j \in InKids /\ stage'[j] = "marked" => Contains(unbound, j) /\ Contains(admitted, j)
                 /\ stage'[j] = "begun" /\ boundTo[j] = NoKid =>
                       Contains(unbound, j) /\ Contains(admitted, j) /\ j \in tagged
                 /\ j \in tagged => stage'[j] = "begun" /\ boundTo[j] = NoKid
                 /\ j \in inProcess' /\ stage'[j] # "begun" => boundTo[j] = j
      BY <1>1, <1>s, <2>1, <2>3, <3>2, <3>4 DEF InLine
    <3> QED
      BY <1>1, <2>1, <3>1, <3>3, <3>5 DEF InLine, Kids
  <2>4. CASE boundTo[k] # k
    <3>1. /\ unbound' = Queue(k) /\ tagged' = tagged \cup {k}
      BY <2>1, <2>2, <2>4 DEF onChildSession
    <3>2. boundTo[k] = NoKid
      BY <1>0, <2>1, <2>4 DEF BindingsRight
    <3>3. ~ (stage[k] = "disposed" /\ k \in inProcess)
      BY <2>1, <2>4 DEF InLine
    <3>4. /\ Contains(unbound', k) /\ Contains(admitted', k)
          /\ \A j : Contains(unbound, j) => Contains(unbound', j)
          /\ \A j : Contains(admitted, j) => Contains(admitted', j)
      BY <1>1, <1>2, <1>a, <1>3, <2>1, <3>1, <3>3 DEF onChildSession, InLine
    <3>5. ASSUME NEW j \in Kids
          PROVE  /\ j \in InKids /\ stage'[j] = "marked" => Contains(unbound', j) /\ Contains(admitted', j)
                 /\ stage'[j] = "begun" /\ boundTo'[j] = NoKid =>
                       Contains(unbound', j) /\ Contains(admitted', j) /\ j \in tagged'
                 /\ j \in tagged' => stage'[j] = "begun" /\ boundTo'[j] = NoKid
                 /\ j \in inProcess' /\ stage'[j] # "begun" => boundTo'[j] = j
      BY <1>1, <1>s, <2>1, <3>1, <3>2, <3>4 DEF InLine
    <3>6. ASSUME NEW a \in Kids, NEW b \in Kids, Before(admitted', a, b), Before(unbound', b, a)
          PROVE  FALSE
      <4>1. /\ Before(admitted, a, b) => Contains(admitted, a) /\ Contains(admitted, b)
            /\ Before(unbound, b, a) => Contains(unbound, a) /\ Contains(unbound, b)
        BY <1>0, InBoth DEF RoomTypes
      <4>2. CASE stage[k] = "marked" /\ admitted' = admitted
        <5>1. Contains(unbound, k)
          BY <1>1, <2>1, <4>2 DEF InLine
        <5> QED
          BY <1>2, <2>1, <3>1, <3>6, <4>2, <5>1 DEF InLine
      <4>3. CASE stage[k] = "none" /\ admitted' = Append(admitted, k)
        <5>1. ~ Contains(unbound, k) /\ ~ Contains(admitted, k)
          BY <1>0, <4>3 DEF Walk
        <5> QED
          BY <1>2, <1>a, <2>1, <3>1, <3>6, <4>1, <4>3, <5>1 DEF InLine
      <4> QED
        BY <3>3, <4>2, <4>3 DEF onChildSession
    <3> QED
      BY <3>5, <3>6 DEF InLine, Kids
  <2> QED
    BY <2>3, <2>4
<1> QED
  BY <1>7, <1>8, <1>9, <1>10 DEF RoomsInv

\* What a record's status does to the rows.
LEMMA Rows ==
    ASSUME RoomTypes, NEW k \in Kids, NEW s \in {"live", "terminal"},
           boundTo' \in [Kids -> Kids \cup {NoKid}],
           (IF over THEN UNCHANGED row ELSE Status(k, s))
    PROVE  row' \in [Kids -> {"none", "live", "terminal"}]
<1>1. row' = row \/ \E sid : row' = [row EXCEPT ![sid] = s]
  BY DEF Status
<1> QED
  BY <1>1 DEF RoomTypes

LEMMA StartedStep ==
    ASSUME RoomsInv, NEW k \in Kids, onStarted(k)
    PROVE  RoomsInv'
<1>0. RoomTypes /\ TombstoneHolds /\ Walk /\ BindingsRight
  BY DEF RoomsInv
<1> DEFINE poppable == {i \in DOMAIN unbound : unbound[i] \in tagged}
           first == CHOOSE i \in poppable : \A j \in poppable : i <= j
<1>1. /\ stage[k] = "begun" /\ InTurn(k, "begun")
      /\ stage' = [stage EXCEPT ![k] = "started"]
      /\ admitted' = RemoveFirst(admitted, k)
      /\ IF over THEN UNCHANGED row ELSE Status(k, "live")
      /\ UNCHANGED <<marks, rootUp, rooms, children, building, pendingAttach, inProcess, released,
                     over, early, breaks>>
  BY DEF onStarted
<1>2. CASE (over \/ boundTo[k] # NoKid \/ poppable = {}) /\ UNCHANGED <<unbound, tagged, boundTo>>
  <2>1. RoomTypes'
    <3>1. boundTo' \in [Kids -> Kids \cup {NoKid}] /\ "live" \in {"live", "terminal"}
      BY <1>0, <1>2 DEF RoomTypes
    <3>2. row' \in [Kids -> {"none", "live", "terminal"}]
      BY <1>0, <1>1, <3>1, Rows
    <3>3. admitted' \in Seq(InKids)
      BY <1>0, <1>1, WithoutFirst DEF RoomTypes
    <3>4. stage' \in [Kids -> Stages]
      BY <1>0, <1>1 DEF RoomTypes, Stages
    <3> QED
      BY <1>0, <1>1, <1>2, <3>1, <3>2, <3>3, <3>4 DEF RoomTypes, Kids, RoomRecords, Stages
  <2> HIDE DEF poppable
  <2>s. \A j \in Kids : stage'[j] = IF j = k THEN "started" ELSE stage[j]
    BY <1>0, <1>1 DEF RoomTypes
  <2>a. /\ \A y : Contains(admitted', y) => Contains(admitted, y)
        /\ \A y : Contains(admitted, y) /\ y # k => Contains(admitted', y)
        /\ \A a, b : Before(admitted', a, b) => Before(admitted, a, b)
    BY <1>0, <1>1, WithoutFirst DEF RoomTypes
  <2>2. TombstoneHolds' /\ BindingsRight'
    BY <1>0, <1>1, <1>2 DEF TombstoneHolds, BindingsRight, Kids
  <2>3. Walk'
    <3> SUFFICES ASSUME NEW j \in Kids
                 PROVE  /\ stage'[j] \in {"begun", "started", "finished"} => j \in inProcess'
                        /\ j \in inProcess' => stage'[j] \notin {"none", "marked"}
                        /\ boundTo'[j] # NoKid => j \in inProcess'
                        /\ stage'[j] = "none" => ~ Contains(unbound', j) /\ ~ Contains(admitted', j)
      BY DEF Walk, Kids
    <3> QED
      BY <1>0, <1>1, <1>2, <2>s, <2>a DEF Walk
  <2>4. ASSUME ~ early', ~ over' PROVE InLine'
    <3>1. InLine /\ ~ over /\ ~ early
      BY <1>1, <2>4 DEF RoomsInv
    <3>2. boundTo[k] # NoKid
      <4>1. CASE boundTo[k] = NoKid
        <5>1. Contains(unbound, k) /\ k \in tagged
          BY <1>1, <3>1, <4>1 DEF InLine
        <5>2. DOMAIN unbound = 1 .. Len(unbound)
          BY <1>0, LenProperties DEF RoomTypes
        <5>3. poppable # {}
          BY <5>1, <5>2 DEF Contains, poppable
        <5> QED
          BY <1>2, <3>1, <4>1, <5>3
      <4> QED
        BY <4>1
    <3>3. boundTo[k] = k
      BY <1>0, <3>1, <3>2 DEF BindingsRight
    <3>4. ASSUME NEW j \in Kids
          PROVE  /\ j \in InKids /\ stage'[j] = "marked" => Contains(unbound', j) /\ Contains(admitted', j)
                 /\ stage'[j] = "begun" /\ boundTo'[j] = NoKid =>
                       Contains(unbound', j) /\ Contains(admitted', j) /\ j \in tagged'
                 /\ j \in tagged' => stage'[j] = "begun" /\ boundTo'[j] = NoKid
                 /\ j \in inProcess' /\ stage'[j] # "begun" => boundTo'[j] = j
      BY <1>1, <1>2, <2>s, <2>a, <3>1, <3>2, <3>3 DEF InLine
    <3>5. ASSUME NEW a \in Kids, NEW b \in Kids, Before(admitted', a, b), Before(unbound', b, a)
          PROVE  FALSE
      BY <1>2, <2>a, <3>1, <3>5 DEF InLine
    <3> QED
      BY <3>4, <3>5 DEF InLine, Kids
  <2> QED
    BY <2>1, <2>2, <2>3, <2>4 DEF RoomsInv
<1>3. CASE /\ ~ over /\ boundTo[k] = NoKid /\ poppable # {}
           /\ unbound' = RemoveAt(unbound, first) /\ tagged' = tagged \ {unbound[first]}
           /\ boundTo' = [boundTo EXCEPT ![k] = unbound[first]]
  <2>0. DOMAIN unbound = 1 .. Len(unbound) /\ Len(unbound) \in Nat /\ unbound \in Seq(Kids)
    BY <1>0, LenProperties DEF RoomTypes
  <2>1. first \in poppable /\ \A j \in poppable : first <= j
    <3>1. poppable \in SUBSET Nat /\ poppable # {}
      BY <1>3, <2>0
    <3> HIDE DEF poppable
    <3> QED
      BY <3>1, LeastIndex
  <2>2. first \in 1 .. Len(unbound) /\ unbound[first] \in tagged
    BY <2>0, <2>1
  <2>l. \A j \in 1 .. Len(unbound) : unbound[j] \in tagged => first <= j
    <3> HIDE DEF first
    <3> QED
      BY <2>0, <2>1
  <2> HIDE DEF first, poppable
  <2> DEFINE m == unbound[first]
  <2>3. m \in Kids /\ m \in InKids
    BY <1>0, <2>2 DEF RoomTypes, Kids
  <2>u. /\ unbound' \in Seq(Kids)
        /\ \A y : Contains(unbound', y) => Contains(unbound, y)
        /\ \A y : Contains(unbound, y) /\ y # m => Contains(unbound', y)
        /\ \A a, b : Before(unbound', a, b) => Before(unbound, a, b)
    BY <1>3, <2>0, <2>2, CutFrom
  <2>a. /\ admitted' \in Seq(InKids)
        /\ \A y : Contains(admitted', y) => Contains(admitted, y)
        /\ \A y : Contains(admitted, y) /\ y # k => Contains(admitted', y)
        /\ \A a, b : Before(admitted', a, b) => Before(admitted, a, b)
    BY <1>0, <1>1, WithoutFirst DEF RoomTypes
  <2>s. \A j \in Kids : stage'[j] = IF j = k THEN "started" ELSE stage[j]
    BY <1>0, <1>1 DEF RoomTypes
  <2>b. \A j \in Kids : boundTo'[j] = IF j = k THEN m ELSE boundTo[j]
    BY <1>0, <1>3 DEF RoomTypes
  <2>4. RoomTypes'
    <3>1. boundTo' \in [Kids -> Kids \cup {NoKid}] /\ "live" \in {"live", "terminal"}
      BY <1>0, <1>3, <2>3 DEF RoomTypes
    <3>2. row' \in [Kids -> {"none", "live", "terminal"}]
      BY <1>0, <1>1, <3>1, Rows
    <3>4. stage' \in [Kids -> Stages] /\ tagged' \subseteq InKids
      BY <1>0, <1>1, <1>3 DEF RoomTypes, Stages
    <3> QED
      BY <1>0, <1>1, <2>u, <2>a, <3>1, <3>2, <3>4 DEF RoomTypes, Kids, RoomRecords, Stages
  \* The head of the tagged is the child whose turn it is.
  <2>5. ~ early => m = k
    <3> SUFFICES ASSUME ~ early, m # k PROVE FALSE
      OBVIOUS
    <3>1. InLine
      BY <1>3 DEF RoomsInv
    <3>2. Contains(unbound, k) /\ Contains(admitted, k) /\ k \in tagged
      BY <1>1, <1>3, <3>1 DEF InLine
    <3>3. stage[m] = "begun" /\ Contains(admitted, m)
      BY <2>2, <2>3, <3>1 DEF InLine
    <3>4. PICK q \in 1 .. Len(unbound) : unbound[q] = k
      BY <3>2 DEF Contains
    <3>5. first < q
      BY <2>0, <2>2, <2>l, <3>2, <3>4
    <3>6. Before(unbound, m, k)
      BY <2>0, <2>2, <3>4, <3>5 DEF Before
    <3>7. DOMAIN admitted = 1 .. Len(admitted) /\ Len(admitted) \in Nat
      BY <1>0, LenProperties DEF RoomTypes
    <3>8. PICK i, j \in 1 .. Len(admitted) : admitted[i] = m /\ admitted[j] = k
      BY <3>2, <3>3 DEF Contains
    <3>9. ~ (i < j)
      BY <1>1, <3>3, <3>7, <3>8 DEF InTurn
    <3>10. j < i
      BY <3>7, <3>8, <3>9
    <3>11. Before(admitted, k, m)
      BY <3>7, <3>8, <3>10 DEF Before
    <3> QED
      BY <2>3, <3>1, <3>6, <3>11 DEF InLine
  <2>6. TombstoneHolds' /\ BindingsRight'
    BY <1>0, <1>1, <2>b, <2>5 DEF TombstoneHolds, BindingsRight, Kids
  <2>7. Walk'
    <3> SUFFICES ASSUME NEW j \in Kids
                 PROVE  /\ stage'[j] \in {"begun", "started", "finished"} => j \in inProcess'
                        /\ j \in inProcess' => stage'[j] \notin {"none", "marked"}
                        /\ boundTo'[j] # NoKid => j \in inProcess'
                        /\ stage'[j] = "none" => ~ Contains(unbound', j) /\ ~ Contains(admitted', j)
      BY DEF Walk, Kids
    <3>1. k \in inProcess
      BY <1>0, <1>1 DEF Walk
    <3> QED
      BY <1>0, <1>1, <2>u, <2>a, <2>s, <2>b, <3>1 DEF Walk
  <2>8. ASSUME ~ early', ~ over' PROVE InLine'
    <3>1. InLine /\ ~ over /\ ~ early /\ m = k
      BY <1>1, <2>5, <2>8 DEF RoomsInv
    <3>2. tagged' = tagged \ {k} /\ k # NoKid
      BY <1>3, <3>1, RoomsAssumption
    <3>4. ASSUME NEW j \in Kids
          PROVE  /\ j \in InKids /\ stage'[j] = "marked" => Contains(unbound', j) /\ Contains(admitted', j)
                 /\ stage'[j] = "begun" /\ boundTo'[j] = NoKid =>
                       Contains(unbound', j) /\ Contains(admitted', j) /\ j \in tagged'
                 /\ j \in tagged' => stage'[j] = "begun" /\ boundTo'[j] = NoKid
                 /\ j \in inProcess' /\ stage'[j] # "begun" => boundTo'[j] = j
      <4> HIDE DEF m
      <4> QED
        BY <1>1, <2>s, <2>a, <2>u, <2>b, <3>1, <3>2 DEF InLine
    <3>5. ASSUME NEW a \in Kids, NEW b \in Kids, Before(admitted', a, b), Before(unbound', b, a)
          PROVE  FALSE
      BY <2>u, <2>a, <3>1, <3>5 DEF InLine
    <3> QED
      BY <3>4, <3>5 DEF InLine, Kids
  <2> QED
    BY <2>4, <2>6, <2>7, <2>8 DEF RoomsInv
<1> QED
  BY <1>2, <1>3 DEF onStarted

LEMMA FinishedStep ==
    ASSUME RoomsInv, NEW k \in Kids, onFinished(k)
    PROVE  RoomsInv'
<1>0. RoomTypes /\ TombstoneHolds /\ Walk /\ BindingsRight
  BY DEF RoomsInv
<1>1. /\ stage[k] = "started" /\ stage' = [stage EXCEPT ![k] = "finished"]
      /\ IF over THEN UNCHANGED row ELSE Status(k, "terminal")
      /\ UNCHANGED <<marks, admitted, rootUp, rooms, children, building, pendingAttach, inProcess,
                     released, unbound, tagged, boundTo, over, early, breaks>>
  BY DEF onFinished
<1>s. \A j \in Kids : stage'[j] = IF j = k THEN "finished" ELSE stage[j]
  BY <1>0, <1>1 DEF RoomTypes
<1>2. RoomTypes'
  <2>1. boundTo' \in [Kids -> Kids \cup {NoKid}] /\ "terminal" \in {"live", "terminal"}
    BY <1>0, <1>1 DEF RoomTypes
  <2>2. row' \in [Kids -> {"none", "live", "terminal"}]
    BY <1>0, <1>1, <2>1, Rows
  <2>3. stage' \in [Kids -> Stages]
    BY <1>0, <1>1 DEF RoomTypes, Stages
  <2> QED
    BY <1>0, <1>1, <2>2, <2>3 DEF RoomTypes, Kids, RoomRecords, Stages
<1>3. TombstoneHolds' /\ BindingsRight'
  BY <1>0, <1>1 DEF TombstoneHolds, BindingsRight, Kids
<1>4. Walk'
  <2> SUFFICES ASSUME NEW j \in Kids
               PROVE  /\ stage'[j] \in {"begun", "started", "finished"} => j \in inProcess
                      /\ j \in inProcess => stage'[j] \notin {"none", "marked"}
                      /\ boundTo[j] # NoKid => j \in inProcess
                      /\ stage'[j] = "none" => ~ Contains(unbound, j) /\ ~ Contains(admitted, j)
    BY <1>1 DEF Walk, Kids
  <2> QED
    BY <1>0, <1>1, <1>s DEF Walk
<1>5. ASSUME ~ early', ~ over' PROVE InLine'
  <2>1. InLine
    BY <1>1, <1>5 DEF RoomsInv
  <2>2. ASSUME NEW j \in Kids
        PROVE  /\ j \in InKids /\ stage'[j] = "marked" => Contains(unbound, j) /\ Contains(admitted, j)
               /\ stage'[j] = "begun" /\ boundTo[j] = NoKid =>
                     Contains(unbound, j) /\ Contains(admitted, j) /\ j \in tagged
               /\ j \in tagged => stage'[j] = "begun" /\ boundTo[j] = NoKid
               /\ j \in inProcess /\ stage'[j] # "begun" => boundTo[j] = j
    BY <1>1, <1>s, <2>1 DEF InLine
  <2> QED
    BY <1>1, <2>1, <2>2 DEF InLine, Kids
<1> QED
  BY <1>2, <1>3, <1>4, <1>5 DEF RoomsInv

LEMMA DisposedStep ==
    ASSUME RoomsInv, NEW k \in Kids, onChildDisposed(k)
    PROVE  RoomsInv'
<1>0. RoomTypes /\ TombstoneHolds /\ Walk /\ BindingsRight
  BY DEF RoomsInv
<1>1. /\ stage[k] \in {"finished", "marked"} /\ stage' = [stage EXCEPT ![k] = "disposed"]
      /\ admitted' = RemoveFirst(admitted, k)
      /\ UNCHANGED <<marks, rootUp, inProcess, unbound, tagged, boundTo, over, early, breaks>>
  BY DEF onChildDisposed
<1>s. \A j \in Kids : stage'[j] = IF j = k THEN "disposed" ELSE stage[j]
  BY <1>0, <1>1 DEF RoomTypes
<1>a. /\ admitted' \in Seq(InKids)
      /\ \A y : Contains(admitted', y) => Contains(admitted, y)
      /\ \A y : Contains(admitted, y) /\ y # k => Contains(admitted', y)
      /\ \A a, b : Before(admitted', a, b) => Before(admitted, a, b)
  BY <1>0, <1>1, WithoutFirst DEF RoomTypes
<1>2. /\ rooms' \in Seq(RoomRecords) /\ Len(rooms') <= MaxRooms
      /\ children' \in [Kids -> 0 .. MaxRooms] /\ released' \subseteq Kids
      /\ building' \subseteq Kids /\ pendingAttach' \subseteq Kids /\ TombstoneHolds'
  <2>1. CASE Release(k)
    BY <1>0, <2>1, Freed
  <2>2. CASE UNCHANGED <<rooms, children, building, pendingAttach, released>>
    BY <1>0, <2>2 DEF RoomTypes, TombstoneHolds
  <2> QED
    BY <2>1, <2>2 DEF onChildDisposed
<1>3. row' = row \/ row' = [row EXCEPT ![k] = IF row[k] = "none" THEN row[k] ELSE "terminal"]
  BY DEF onChildDisposed
<1>4. RoomTypes'
  <2>1. stage' \in [Kids -> Stages] /\ row' \in [Kids -> {"none", "live", "terminal"}]
    BY <1>0, <1>1, <1>3 DEF RoomTypes, Stages
  <2> QED
    BY <1>0, <1>1, <1>a, <1>2, <2>1 DEF RoomTypes, Kids, RoomRecords, Stages
<1>5. BindingsRight'
  BY <1>0, <1>1 DEF BindingsRight, Kids
<1>6. Walk'
  <2> SUFFICES ASSUME NEW j \in Kids
               PROVE  /\ stage'[j] \in {"begun", "started", "finished"} => j \in inProcess
                      /\ j \in inProcess => stage'[j] \notin {"none", "marked"}
                      /\ boundTo[j] # NoKid => j \in inProcess
                      /\ stage'[j] = "none" => ~ Contains(unbound, j) /\ ~ Contains(admitted', j)
    BY <1>1 DEF Walk, Kids
  <2> QED
    BY <1>0, <1>1, <1>s, <1>a DEF Walk
<1>7. ASSUME ~ early', ~ over' PROVE InLine'
  <2>1. InLine
    BY <1>1, <1>7 DEF RoomsInv
  <2>3. k \in inProcess => stage[k] = "finished"
    BY <1>0, <1>1 DEF Walk
  <2>2. ASSUME NEW j \in Kids
        PROVE  /\ j \in InKids /\ stage'[j] = "marked" => Contains(unbound, j) /\ Contains(admitted', j)
               /\ stage'[j] = "begun" /\ boundTo[j] = NoKid =>
                     Contains(unbound, j) /\ Contains(admitted', j) /\ j \in tagged
               /\ j \in tagged => stage'[j] = "begun" /\ boundTo[j] = NoKid
               /\ j \in inProcess /\ stage'[j] # "begun" => boundTo[j] = j
    BY <1>1, <1>s, <1>a, <2>1, <2>3 DEF InLine
  <2>4. ASSUME NEW a \in Kids, NEW b \in Kids, Before(admitted', a, b), Before(unbound, b, a)
        PROVE  FALSE
    BY <1>a, <2>1, <2>4 DEF InLine
  <2> QED
    BY <1>1, <2>2, <2>4 DEF InLine, Kids
<1> QED
  BY <1>2, <1>4, <1>5, <1>6, <1>7 DEF RoomsInv

LEMMA DisposeRoomsStep ==
    ASSUME RoomsInv, disposeRooms
    PROVE  RoomsInv'
<1>0. RoomTypes /\ TombstoneHolds /\ Walk /\ BindingsRight
  BY DEF RoomsInv
<1>1. /\ over' = TRUE /\ children' = [k \in Kids |-> 0]
      /\ rooms' = [r \in DOMAIN rooms |->
            IF \E k \in Kids : children[k] = r THEN [rooms[r] EXCEPT !.at = "gone"] ELSE rooms[r]]
      /\ UNCHANGED <<stage, marks, admitted, rootUp, building, pendingAttach, inProcess, released,
                     row, unbound, tagged, boundTo, early, breaks>>
  BY DEF disposeRooms
<1>2. rooms' \in Seq(RoomRecords) /\ Len(rooms') = Len(rooms)
  <2>1. Len(rooms) \in Nat /\ DOMAIN rooms = 1 .. Len(rooms) /\ rooms \in Seq(RoomRecords)
    BY <1>0, LenProperties DEF RoomTypes
  <2>2. \A r \in DOMAIN rooms : rooms[r] \in RoomRecords
    BY <2>1, ElementOfSeq
  <2>3. \A r \in DOMAIN rooms : [rooms[r] EXCEPT !.at = "gone"] \in RoomRecords
    BY <2>2, RoomForms
  <2>4. rooms' \in [1 .. Len(rooms) -> RoomRecords]
    BY <1>1, <2>1, <2>2, <2>3
  <2> QED
    BY <2>1, <2>4, LenProperties, IsASeq
<1>3. RoomTypes'
  <2>1. children' \in [Kids -> 0 .. MaxRooms] /\ over' \in BOOLEAN
    BY <1>1, RoomsAssumption
  <2> QED
    BY <1>0, <1>1, <1>2, <2>1 DEF RoomTypes, Kids, RoomRecords, Stages
<1>4. TombstoneHolds'
  BY <1>0, <1>1 DEF RoomTypes, TombstoneHolds
<1>5. Walk' /\ BindingsRight'
  BY <1>0, <1>1 DEF Walk, BindingsRight, Kids, Contains
<1> QED
  BY <1>1, <1>3, <1>4, <1>5 DEF RoomsInv

LEMMA RoomsStart == RoomsInit => RoomsInv
<1> SUFFICES ASSUME RoomsInit PROVE RoomsInv
  OBVIOUS
<1>1. rooms = <<>> /\ unbound = <<>> /\ admitted = <<>>
  BY DEF RoomsInit
<1>2. /\ rooms \in Seq(RoomRecords) /\ Len(rooms) <= MaxRooms
      /\ unbound \in Seq(Kids) /\ admitted \in Seq(InKids)
  BY <1>1, RoomsAssumption
<1>3. RoomTypes
  <2>1. children \in [Kids -> 0 .. MaxRooms] /\ breaks \in 0 .. MaxBreaks
    BY RoomsAssumption DEF RoomsInit
  <2>2. over \in BOOLEAN /\ early \in BOOLEAN /\ marks \in BOOLEAN /\ rootUp \in BOOLEAN
    BY DEF RoomsInit
  <2>3. /\ stage \in [Kids -> Stages] /\ row \in [Kids -> {"none", "live", "terminal"}]
        /\ boundTo \in [Kids -> Kids \cup {NoKid}]
    BY DEF RoomsInit, Stages
  <2>4. /\ building \subseteq Kids /\ pendingAttach \subseteq Kids
        /\ inProcess \subseteq InKids /\ released \subseteq Kids /\ tagged \subseteq InKids
    BY DEF RoomsInit
  <2> QED
    BY <1>2, <2>1, <2>2, <2>3, <2>4 DEF RoomTypes
<1>4. \A y : ~ Contains(<<>>, y) /\ \A a, b : ~ Before(<<>>, a, b)
  BY DEF Contains, Before
<1>5. TombstoneHolds /\ BindingsRight
  BY DEF RoomsInit, TombstoneHolds, BindingsRight
<1>6. Walk
  BY <1>1, <1>4 DEF RoomsInit, Walk
<1>7. InLine
  BY <1>1, <1>4 DEF RoomsInit, InLine
<1> QED
  BY <1>3, <1>5, <1>6, <1>7 DEF RoomsInv

(***************************************************************************)
(* subagent_rooms.ts learns of a child by a marker, a session_start and a  *)
(* record of the manager, in any interleaving with builds, closes and      *)
(* drops: a closed room stays closed until the session starts again, and a *)
(* record is bound to its own child if the root room was up when the       *)
(* children started, for any number of children.                           *)
(***************************************************************************)
THEOREM ChildrenSafe == RoomsSpec => []ChildrenRight
<1>1. RoomsInv /\ [RoomsNext]_roomsVars => RoomsInv'
  <2> SUFFICES ASSUME RoomsInv, [RoomsNext]_roomsVars PROVE RoomsInv'
    OBVIOUS
  <2>1. ASSUME NEW k \in Kids,
               \/ onChildMarker(k) \/ onChildSession(k) \/ onStarted(k) \/ onFinished(k)
               \/ onChildDisposed(k) \/ terminateChildRoom(k)
        PROVE  RoomsInv'
    BY <2>1, MarkerStep, SessionStep, StartedStep, FinishedStep, DisposedStep, TerminateStep
  <2>2. ASSUME NEW r \in DOMAIN rooms, BuildDone(r) \/ BuildFails(r) \/ RoomCloses(r)
        PROVE  RoomsInv'
    BY <2>2, BuildStep, RoomClosesStep
  <2>3. CASE RootComesUp \/ disposeRooms \/ UNCHANGED roomsVars
    BY <2>3, RootStep, DisposeRoomsStep
  <2> QED
    BY <2>1, <2>2, <2>3 DEF RoomsNext
<1>2. RoomsInv => ChildrenRight
  <2> SUFFICES ASSUME RoomsInv PROVE ChildrenRight
    OBVIOUS
  <2>1. RoomTypes /\ TombstoneHolds /\ BindingsRight
    BY DEF RoomsInv
  <2>2. /\ \A r \in DOMAIN rooms : rooms[r] \in RoomRecords
        /\ \A i \in DOMAIN unbound : unbound[i] \in Kids
    BY <2>1, LenProperties, ElementOfSeq DEF RoomTypes
  <2>3. RoomsTypeOK
    BY <2>1, <2>2 DEF RoomTypes, RoomsTypeOK, RoomRecords
  <2> QED
    BY <2>1, <2>3 DEF ChildrenRight
<1> QED
  BY <1>1, <1>2, RoomsStart, PTL DEF RoomsSpec
=============================================================================
