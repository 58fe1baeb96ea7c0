----------------------------- MODULE MqueueRmd -----------------------------
(***************************************************************************)
(* The replies' half of NV_Driver_G3/Tool/Mqueue.c: the answer to a        *)
(* process's request waits here until that process reads it.  The buffer   *)
(* is only ever filled, never freed reply by reply: when it runs low all   *)
(* of it is cleared.  A process is registered by its first reply and is    *)
(* not forgotten when it closes the device.  All calls are made by system  *)
(* calls, so each is one step.                                             *)
(***************************************************************************)
EXTENDS Integers, Sequences

CONSTANTS
    User,        \* the processes' descriptors (aUID)
    NoUser,      \* 0, the aUID of a free slot
    MaxUser,     \* DC_MQSpace_RmdMaxUser (7)
    RingSize,    \* DC_MQSpace_RmdDataSize (1920)
    Threshold,   \* free space under which everything is cleared (2 * 128)
    Sizes,       \* the sizes of a reply, its header included
    Followed     \* bound of the model: the hazards after which it goes on

ASSUME UserAssumption == NoUser \notin User /\ MaxUser \in Nat \ {0}
ASSUME SizeAssumption ==
    /\ RingSize \in Nat /\ Threshold \in Nat /\ Sizes \subseteq Nat \ {0}
    \* at most 8 + DC_MQSpace_MaxMsgSize (244) bytes
    /\ \A n \in Sizes : n + 1 < Threshold
    /\ Threshold < RingSize

VARIABLES
    slot,        \* aRmdUserInfo: each user and the list of its replies
    num,         \* aRmdUserNum
    begin,       \* aRmdIdleBegin; the idle area ends at the buffer's end
    owed,        \* history: the replies each user was promised and has not read
    spoilt       \* history: which of the hazards have happened

rmdVars == <<slot, num, begin, owed, spoilt>>

Slot     == 1 .. MaxUser
Reply    == [at : 0 .. RingSize - 1, size : Sizes]
Vacant   == [uid |-> NoUser, msgs |-> <<>>]
Hazard   == {"buffer cleared", "table full"}
Running  == spoilt \subseteq Followed

IdleSize(b) == RingSize - b

\* A user table: the slots and the number of users in them.
Nobody == [slot |-> [i \in Slot |-> Vacant], num |-> 0]

Holds(t, u) == {i \in Slot : t.slot[i].uid = u}

\* SetRmdUser: refused when the table is full, even to a user that is in it; else a
\* user not in it takes the slot after the num-th.
CanAdd(t) == t.num < MaxUser

Added(t, u) == IF CanAdd(t) /\ Holds(t, u) = {}
               THEN [slot |-> [t.slot EXCEPT ![t.num + 1] = [uid |-> u, msgs |-> <<>>]], num |-> t.num + 1]
               ELSE t

\* sfClearStubbornUser(ClrRmd): the users with nothing to read are forgotten.
WithoutIdle(t) ==
    LET idle == {i \in Slot : t.slot[i].uid # NoUser /\ t.slot[i].msgs = <<>>}
        left[i \in 0 .. MaxUser] == IF i = 0 THEN t.num ELSE left[i - 1] - (IF i \in idle THEN 1 ELSE 0)
    IN  [slot |-> [i \in Slot |-> IF i \in idle THEN Vacant ELSE t.slot[i]], num |-> left[MaxUser]]

\* A mutant, which breaks RepliesInOrder: the reply replaces those that wait.
LengthenedOnly(msgs, reply, new) == <<reply>>

Lengthened(msgs, reply, new) == IF new THEN <<reply>> ELSE Append(msgs, reply)

\* The reply goes to the end of the user's list, or, for a user taken for new, is the
\* list; a user that could not be registered does not get it.
Given(t, u, reply, new) ==
    [slot |-> [i \in Slot |->
                  IF i \in Holds(t, u)
                  THEN [uid |-> u, msgs |-> Lengthened(t.slot[i].msgs, reply, new)]
                  ELSE t.slot[i]],
     num  |-> t.num]

RmdInit ==
    /\ slot   = Nobody.slot
    /\ num    = 0
    /\ begin  = 0
    /\ owed   = [u \in User |-> <<>>]
    /\ spoilt = {}

\* A mutant, which breaks NoReplyOverwritten: an idle area that holds the reply is
\* thought to hold the next one too.
LowIfFull(b) == IdleSize(b) = 0

Low(b) == IdleSize(b) < Threshold

\* sfAddAUserMsgForRmd.
AddReply(u, n) ==
    LET clear   == Low(begin)
        old     == IF clear THEN Nobody ELSE [slot |-> slot, num |-> num]
        at      == IF clear \/ n > IdleSize(begin) THEN 0 ELSE begin
        full    == ~CanAdd(old)
        table   == Added(IF full THEN WithoutIdle(old) ELSE old, u)
        reply   == [at |-> at, size |-> n]
        t       == Given(table, u, reply, full)
        dropped == {v \in User : clear /\ owed[v] # <<>>}
    IN  /\ Running
        /\ slot' = t.slot /\ num' = t.num
        /\ begin' = IF at + n >= RingSize - 1 THEN 0 ELSE at + n
        /\ owed' = [owed EXCEPT ![u] = Append(@, reply)]
        /\ spoilt' = spoilt \cup {h \in Hazard : \/ h = "buffer cleared" /\ dropped # {}
                                                 \/ h = "table full" /\ full}

\* sfGetAUserMsg, its first part.
Read(i) ==
    /\ Running
    /\ slot[i].uid # NoUser /\ slot[i].msgs # <<>>
    /\ slot' = [slot EXCEPT ![i].msgs = Tail(@)]
    /\ owed' = [owed EXCEPT ![slot[i].uid] = IF @ = <<>> THEN @ ELSE Tail(@)]
    /\ UNCHANGED <<num, begin, spoilt>>

RmdNext == \/ \E u \in User, n \in Sizes : AddReply(u, n)
        \/ \E i \in Slot : Read(i)

RmdSpec == RmdInit /\ [][RmdNext]_rmdVars

-----------------------------------------------------------------------------
RmdTypeOK ==
    /\ slot \in [Slot -> [uid : User \cup {NoUser}, msgs : Seq(Reply)]]
    /\ num \in 0 .. MaxUser
    /\ begin \in 0 .. RingSize - 1
    /\ owed \in [User -> Seq(Reply)]
    /\ spoilt \subseteq Hazard

Pending(u) == {i \in Slot : slot[i].uid = u /\ slot[i].msgs # <<>>}

\* CommunicateProtocol.md:25: each of several applications gets the answers to its
\* requests, in order; until a hazard has happened.
RepliesInOrder ==
    spoilt = {} =>
        \A u \in User : IF owed[u] = <<>> THEN Pending(u) = {}
                        ELSE \E i \in Slot : Pending(u) = {i} /\ slot[i].msgs = owed[u]

\* Whatever else goes wrong, the bytes of a reply that is still to be read are never
\* written again: the next reply goes behind them, and the buffer never wraps.
NoReplyOverwritten ==
    \A i \in Slot : \A n \in DOMAIN slot[i].msgs :
        slot[i].msgs[n].at + slot[i].msgs[n].size <= begin
=============================================================================
