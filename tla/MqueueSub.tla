----------------------------- MODULE MqueueSub -----------------------------
(***************************************************************************)
(* The subscribers' half of NV_Driver_G3/Tool/Mqueue.c: one ring buffer    *)
(* that holds each report once, a linked list through it, and per          *)
(* subscriber a pointer to the oldest report that subscriber has not read. *)
(* A report's node carries the set of slots that have still to read it.    *)
(*                                                                         *)
(* Reports are added by event handlers in the kernel timer's softirq;      *)
(* subscribing, unsubscribing and reading are system calls.  The code      *)
(* takes no lock and there is one core: the softirq may preempt a system   *)
(* call between two of its steps and is not preempted by one.  A step here *)
(* is one load or store of what both use, or several, where a report in    *)
(* between does what it does before them.                                  *)
(***************************************************************************)
EXTENDS Integers, FiniteSets, Sequences

CONSTANTS
    User,        \* the processes' descriptors (aUID)
    NoUser,      \* 0, the aUID of a free slot
    MaxUser,     \* DC_MQSpace_SubMaxUser (4)
    RingSize,    \* DC_MQSpace_SubDataSize (2048)
    Threshold,   \* free space under which readers are evicted (3 * 128)
    Sizes,       \* the sizes of a report, its header included
    Followed     \* bound of the model: the hazards after which it goes on

ASSUME UserAssumption == NoUser \notin User /\ MaxUser \in 1 .. 255
ASSUME SizeAssumption ==
    /\ RingSize \in Nat /\ Threshold \in Nat /\ Sizes \subseteq Nat \ {0}
    /\ Threshold < RingSize
    \* The reports of MsgCenter.c are far below the 76 bytes this allows: readers are
    \* dropped one by one, and each time one more report is written.
    /\ \E longest \in 2 .. Threshold : /\ (MaxUser + 1) * longest <= Threshold
                                      /\ \A n \in Sizes : n <= longest

VARIABLES
    q,           \* the manage header and the nodes in the ring
    reading,     \* the read call that was preempted, if any
    changing,    \* the call of a user that comes or goes that was preempted, if any
    freeing,     \* what a call has still to store in the header, if it frees reports
    owed,        \* history: the reports each subscriber has still to read, oldest first
    spoilt,      \* history: which of the hazards below have happened
    crashed      \* a pointer to an overwritten node, or to none, was followed

vars == <<q, reading, changing, freeing, owed, spoilt, crashed>>

-----------------------------------------------------------------------------
Slot    == 1 .. MaxUser
Addr    == 0 .. RingSize - 1
Null    == RingSize            \* NULL, no byte of the ring
Pointer == Addr \cup {Null}
Vacant  == [uid |-> NoUser, msg |-> Null]
Hazard  == {"read preempted", "change preempted", "stores preempted", "slots sparse",
            "reports orphaned"}

NotReading  == [step |-> "none", slot |-> 0, node |-> Null, mask |-> {}, next |-> Null]
NotChanging == [step |-> "none", slot |-> 0, head |-> Null]
NotFreeing  == [step |-> "none", node |-> Null, size |-> 0]

Node == [size : Sizes, next : Pointer, mask : SUBSET Slot]

\* uint8 *aSubUserNum
Uint8(n) == n % 256

Occupied(s)    == {i \in Slot : s[i].uid # NoUser}
Subscribers(r) == {r.slot[i].uid : i \in Slot} \ {NoUser}

\* Following paNext from a: the pointers met, the last of them NULL, or one to where no
\* whole node is left, or, if the list is circular, whatever.
Trail(mem, a) ==
    LET walk[n \in 0 .. RingSize] ==
            IF n = 0 THEN <<a>>
            ELSE LET t == walk[n - 1]
                     p == t[Len(t)]
                 IN  IF p \in DOMAIN mem THEN Append(t, mem[p].next) ELSE t
    IN  walk[RingSize]

Sound(mem, a) == LET t == Trail(mem, a) IN t[Len(t)] = Null

\* The addresses of the nodes from a on.
Path(mem, a) == LET t == Trail(mem, a) IN SubSeq(t, 1, Len(t) - 1)

OnPath(mem, a) == LET p == Path(mem, a) IN {p[n] : n \in DOMAIN p}

Bytes(a, n) == a .. a + n - 1

\* The idle area runs from begin to end, round the ring's edge if need be.
IdleBytes(r) == IF r.begin <= r.end THEN r.begin .. r.end
                ELSE (r.begin .. RingSize - 1) \cup (0 .. r.end)

\* aSubIdleSize, as it is recomputed: round the edge it is one byte too small (not in
\* sfClearStubbornUser, whose caller computes it again).
IdleSize(begin, end) == IF begin > end THEN end + RingSize - begin ELSE 1 + end - begin

\* A mutant, which breaks UnreadIsNotIdle: the idle area ends on the oldest report.
ByteAt(a) == a

ByteBefore(a) == IF a = 0 THEN RingSize - 1 ELSE a - 1

NoSubscriber == [i \in Slot |-> Vacant]

\* The list forgotten, the subscribers and the bytes in the ring kept.
Emptied(r) == [r EXCEPT !.first = Null, !.begin = 0, !.end = RingSize - 1, !.size = RingSize]

\* The nodes from a on give up the slots in gone; the first that somebody still has to
\* read becomes the oldest, and what is before it is idle.
Released(r, a, gone) ==
    LET on    == OnPath(r.mem, a)
        mem   == [x \in DOMAIN r.mem |->
                    IF x \in on THEN [r.mem[x] EXCEPT !.mask = @ \ gone] ELSE r.mem[x]]
        path  == Path(r.mem, a)
        kept  == {n \in DOMAIN path : mem[path[n]].mask # {}}
        first == path[CHOOSE n \in kept : \A m \in kept : n <= m]
        end   == ByteBefore(first)
    IN  IF kept = {} THEN Emptied([r EXCEPT !.mem = mem])
        ELSE [r EXCEPT !.mem = mem, !.first = first, !.end = end, !.size = IdleSize(r.begin, end)]

\* The model forgets the nodes nothing points to.
Collected(r, also) ==
    LET roots == {r.first} \cup {r.slot[i].msg : i \in Slot} \cup also
        used  == UNION {OnPath(r.mem, a) : a \in roots}
    IN  [r EXCEPT !.mem = [x \in used |-> r.mem[x]]]

Sparse(r) == Occupied(r.slot) # 1 .. r.num /\ r.num # 0

Init ==
    /\ q = [mem |-> [x \in {} |-> Null], first |-> Null, begin |-> 0, end |-> RingSize - 1,
            size |-> RingSize, slot |-> NoSubscriber, num |-> 0]
    /\ reading = NotReading
    /\ changing = NotChanging
    /\ freeing = NotFreeing
    /\ owed    = [u \in User |-> <<>>]
    /\ spoilt  = {}
    /\ crashed = FALSE

Crash == crashed' = TRUE /\ UNCHANGED <<q, reading, changing, freeing, owed>>

Running    == ~crashed /\ spoilt \subseteq Followed
SystemCall == Running /\ reading = NotReading /\ changing = NotChanging /\ freeing = NotFreeing

-----------------------------------------------------------------------------
(* System calls.                                                           *)

\* sfMsgQueue_addSubUser.  A full table refuses before it looks for the user; so does
\* the user's own slot.  The slot is taken (lines 867-883) ...
Subscribe(u) ==
    LET free == Slot \ Occupied(q.slot)
        i    == CHOOSE k \in free : \A j \in free : k <= j
    IN  /\ SystemCall
        /\ q.num < MaxUser
        /\ u \notin Subscribers(q)
        /\ IF free = {} THEN Crash /\ UNCHANGED spoilt
           ELSE /\ q' = [q EXCEPT !.slot[i] = [uid |-> u, msg |-> Null]]
                /\ changing' = [step |-> "taken", slot |-> i, head |-> Null]
                /\ UNCHANGED <<reading, freeing, owed, spoilt, crashed>>

\* ... and then the user is counted.
SubscribeEnd ==
    /\ Running /\ changing.step = "taken"
    /\ q' = [q EXCEPT !.num = Uint8(@ + 1)]
    /\ changing' = NotChanging
    /\ UNCHANGED <<reading, freeing, owed, spoilt, crashed>>

\* sfMsgQueue_delSubUser loads the user's oldest report (lines 405-416) ...
Unsubscribe(i) ==
    /\ SystemCall
    /\ i \in Occupied(q.slot)
    /\ changing' = [step |-> "found", slot |-> i, head |-> q.slot[i].msg]
    /\ UNCHANGED <<q, reading, freeing, owed, spoilt, crashed>>

\* ... vacates its slot (lines 418-420) ...
UnsubscribeVacate ==
    LET r == [q EXCEPT !.slot[changing.slot] = Vacant, !.num = Uint8(@ - 1)]
    IN  /\ Running /\ changing.step = "found"
        /\ q' = r
        /\ changing' = [changing EXCEPT !.step = "vacated"]
        /\ spoilt' = spoilt \cup {h \in Hazard : h = "slots sparse" /\ Sparse(r)}
        /\ owed' = [u \in User |-> IF u \in Subscribers(r) THEN owed[u] ELSE <<>>]
        /\ UNCHANGED <<reading, freeing, crashed>>

\* ... and, if nobody is left, forgets the list (lines 464-470).  A report that comes in
\* between finds no subscriber and writes nothing but begin and size, which are stored here.
UnsubscribeLast ==
    /\ Running /\ changing.step = "vacated" /\ q.num = 0
    /\ q' = Collected([Emptied(q) EXCEPT !.slot = NoSubscriber], {})
    /\ changing' = NotChanging
    /\ UNCHANGED <<reading, freeing, owed, spoilt, crashed>>

\* If somebody is, it walks the user's reports to the end, which takes it out of their masks
\* and makes the first that is still read the oldest (lines 422-433).  A report that comes
\* in between is linked to the end and walked too.
UnsubscribeWalk ==
    LET head == changing.head
        r    == Released(q, head, {changing.slot})
        orphaned == \E j \in Occupied(q.slot) : q.slot[j].msg \notin OnPath(q.mem, head) \cup {Null}
    IN  /\ Running /\ changing.step = "vacated" /\ q.num # 0
        /\ IF ~Sound(q.mem, head) THEN Crash /\ UNCHANGED spoilt
           ELSE /\ q' = [q EXCEPT !.mem = r.mem, !.first = IF r.first = Null THEN @ ELSE r.first]
                /\ freeing' = [NotFreeing EXCEPT !.step = IF r.first = Null THEN "first" ELSE "advance"]
                /\ changing' = NotChanging
                /\ spoilt' = spoilt \cup {h \in Hazard : h = "reports orphaned" /\ orphaned}
                /\ UNCHANGED <<reading, owed, crashed>>

\* A mutant, which breaks ReportsInOrder: whoever reads the oldest report frees it.
IsFreeForAnyReader(r, node) == r.first = node

\* A report all have read is freed if it is the oldest.
IsFree(r, node) == r.first = node /\ r.mem[node].mask = {}

\* sfGetAUserMsg finds the user's oldest report (line 233) ...
ReadBegin(i) ==
    /\ SystemCall
    /\ i \in Occupied(q.slot) /\ q.slot[i].msg # Null
    /\ reading' = [NotReading EXCEPT !.step = "found", !.slot = i, !.node = q.slot[i].msg]
    /\ UNCHANGED <<q, changing, freeing, owed, spoilt, crashed>>

\* ... copies it and loads its mask (lines 235-244) ...
ReadMask ==
    LET node == reading.node
    IN  /\ Running /\ reading.step = "found"
        /\ IF node \notin DOMAIN q.mem THEN Crash
           ELSE /\ reading' = [reading EXCEPT !.step = "masked", !.mask = q.mem[node].mask]
                /\ UNCHANGED <<q, changing, freeing, owed, crashed>>
        /\ UNCHANGED spoilt

\* ... stores it without the user and loads paNext (lines 244-246) ...
ReadLoad ==
    LET i == reading.slot  u == q.slot[i].uid  node == reading.node
    IN  /\ Running /\ reading.step = "masked"
        /\ IF node \notin DOMAIN q.mem THEN Crash
           ELSE /\ q' = [q EXCEPT !.mem[node].mask = reading.mask \ {i}]
                /\ reading' = [reading EXCEPT !.step = "loaded", !.mask = {}, !.next = q.mem[node].next]
                /\ owed' = [v \in User |-> IF v = u /\ owed[v] # <<>> THEN Tail(owed[v]) ELSE owed[v]]
                /\ UNCHANGED <<changing, freeing, crashed>>
        /\ UNCHANGED spoilt

\* ... and stores that (line 245).
ReadStore ==
    /\ Running /\ reading.step = "loaded"
    /\ q' = [q EXCEPT !.slot[reading.slot].msg = reading.next]
    /\ reading' = [reading EXCEPT !.step = "stored"]
    /\ UNCHANGED <<changing, freeing, owed, spoilt, crashed>>

\* The last reader of the oldest report is to free it, and loads paNext again (lines 248-250) ...
ReadTest ==
    /\ Running /\ reading.step = "stored"
    /\ IF IsFree(q, reading.node)
       THEN /\ reading' = [reading EXCEPT !.step = "freed", !.next = q.mem[reading.node].next]
            /\ UNCHANGED q
       ELSE reading' = NotReading /\ q' = Collected(q, {})
    /\ UNCHANGED <<changing, freeing, owed, spoilt, crashed>>

\* ... makes the next one the oldest (line 250) ...
ReadFirst ==
    /\ Running /\ reading.step = "freed"
    /\ q' = [q EXCEPT !.first = reading.next]
    /\ freeing' = [NotFreeing EXCEPT !.step = "test", !.node = reading.node]
    /\ reading' = NotReading
    /\ UNCHANGED <<changing, owed, spoilt, crashed>>

\* ... and tests whether there is one (line 252).
ReadEnd ==
    /\ Running /\ freeing.step = "test"
    /\ freeing' = [freeing EXCEPT !.step = IF q.first = Null THEN "begin" ELSE "advance"]
    /\ UNCHANGED <<q, reading, changing, owed, spoilt, crashed>>

-----------------------------------------------------------------------------
(* The rest of the stores of a call that frees reports.                    *)

\* The next of the stores that forget the list (lines 253-258 of a read; 458-461).
Forget(step, then, r) ==
    /\ Running /\ freeing.step = step
    /\ q' = r
    /\ freeing' = then
    /\ UNCHANGED <<reading, changing, owed, spoilt, crashed>>

ForgetFirst == Forget("first", [freeing EXCEPT !.step = "begin"], [q EXCEPT !.first = Null])
ForgetBegin == Forget("begin", [freeing EXCEPT !.step = "end"], [q EXCEPT !.begin = 0])
ForgetEnd   == Forget("end", [freeing EXCEPT !.step = "size"], [q EXCEPT !.end = RingSize - 1])
ForgetSize  == Forget("size", NotFreeing, Collected([q EXCEPT !.size = RingSize], {}))

\* The idle area ends before the oldest report, which a read loads from the freed node once
\* more (lines 261-266, 436-443) ...
AdvanceEnd ==
    LET node == freeing.node
        next == IF node = Null THEN q.first ELSE q.mem[node].next
    IN  /\ Running /\ freeing.step = "advance"
        /\ IF next = Null \/ node \notin DOMAIN q.mem \cup {Null} THEN Crash
           ELSE /\ q' = [q EXCEPT !.end = ByteBefore(next)]
                /\ freeing' = [freeing EXCEPT !.step = "measure"]
                /\ UNCHANGED <<reading, changing, owed, crashed>>
        /\ UNCHANGED spoilt

\* ... its size is computed ...
AdvanceMeasure ==
    /\ Running /\ freeing.step = "measure"
    /\ freeing' = [freeing EXCEPT !.step = "room", !.size = IdleSize(q.begin, q.end)]
    /\ UNCHANGED <<q, reading, changing, owed, spoilt, crashed>>

\* ... and stored (lines 268-290, 445-456).
AdvanceSize ==
    /\ Running /\ freeing.step = "room"
    /\ q' = Collected([q EXCEPT !.size = freeing.size], {})
    /\ freeing' = NotFreeing
    /\ UNCHANGED <<reading, changing, owed, spoilt, crashed>>

-----------------------------------------------------------------------------
(* A handler of the kernel timer reports: sfAddAUserMsgForSub.             *)

\* sfClearStubbornUser(ClrSub): whoever has not read the oldest report is dropped.
Evicted(r) ==
    LET late == r.mem[r.first].mask
        left == [r EXCEPT !.slot = [i \in Slot |-> IF i \in late THEN Vacant ELSE @[i]],
                          !.num  = Uint8(@ - Cardinality(late))]
    IN  IF left.num = 0 THEN [Emptied(left) EXCEPT !.slot = NoSubscriber]
        ELSE Released(left, r.first, late)

\* A report that does not fit before the ring's edge goes to its start.
Wrapped(r, n) == IF n > RingSize - r.begin THEN [r EXCEPT !.begin = 0, !.size = 1 + r.end] ELSE r

Behind(at, n) == IF at + n >= RingSize - 1 THEN 0 ELSE at + n

\* The header and the report are copied over what was there.
Written(r, n) ==
    LET at    == r.begin
        whole == {x \in DOMAIN r.mem : Bytes(x, r.mem[x].size) \cap Bytes(at, n) = {}}
    IN  [x \in whole \cup {at} |->
            IF x = at THEN [size |-> n, next |-> Null, mask |-> 1 .. r.num] ELSE r.mem[x]]

\* The node is linked to the list's last, given to the subscribers that have nothing to
\* read, and the idle area begins behind it.
Linked(r, n) ==
    LET at    == r.begin
        mem   == Written(r, n)
        path  == Path(mem, r.first)
        begin == Behind(at, n)
    IN  [r EXCEPT !.mem   = IF r.first = Null THEN mem ELSE [mem EXCEPT ![path[Len(path)]].next = at],
                  !.first = IF @ = Null THEN at ELSE @,
                  !.slot  = [i \in Slot |-> IF i <= r.num /\ @[i].msg = Null
                                            THEN [@[i] EXCEPT !.msg = at] ELSE @[i]],
                  !.begin = begin,
                  !.size  = IdleSize(begin, r.end)]

\* A mutant, which breaks OnlyLateAreEvicted: a limit that is reached counts as passed.
CrowdedAtLimit(r) == r.size <= Threshold

Crowded(r) == r.size < Threshold

\* The reads that a report catches out; room is the ring after any eviction.  That is so if
\* the reader is dropped before it has left the mask, or others are while the
\* mask is loaded; if paNext is loaded as NULL, and the report is linked there; or if others
\* are dropped while the oldest report is freed or about to be: too little is freed, or what
\* is freed is freed again.  Some of these reports do no harm, none that does is left out.
Caught(evicts, room) ==
    \/ /\ reading.step \in {"found", "masked"}
       /\ room.slot[reading.slot] # q.slot[reading.slot]
    \/ reading.step \in {"loaded", "freed"} /\ reading.next = Null
    \/ /\ evicts
       /\ \/ reading.step = "masked"
          \/ reading.step = "loaded" /\ q.mem[q.first].mask = {}
          \/ reading.step \in {"stored", "freed"} /\ q.first = reading.node

\* A call of a user that comes or goes is caught out if others are dropped meanwhile, and one
\* that frees reports if a report finds the header half stored.  Who has a slot and is not
\* counted yet is owed nothing.
AddReport(n) ==
    LET evicts == Crowded(q)
        room   == Wrapped(IF evicts THEN Evicted(q) ELSE q, n)
        r      == IF room.num = 0 THEN room ELSE Linked(room, n)
        gone   == \/ q.first \notin DOMAIN q.mem
                  \/ ~Sound(q.mem, q.first)
        lost    == evicts /\ gone
        pending == IF changing.step = "taken" THEN {q.slot[changing.slot].uid} ELSE {}
        wild   == room.num # 0 /\ (room.num > MaxUser \/ ~Sound(Written(room, n), room.first))
    IN  /\ Running
        /\ spoilt' = spoilt \cup
              {h \in Hazard : \/ h = "change preempted" /\ evicts /\ changing # NotChanging
                              \/ h = "stores preempted" /\ freeing # NotFreeing
                              \/ h = "slots sparse" /\ evicts /\ ~lost /\ Sparse(room)
                              \/ h = "read preempted" /\ ~lost /\ Caught(evicts, room)}
        /\ IF lost \/ wild THEN Crash
           ELSE /\ q' = Collected(r, {reading.node, changing.head, freeing.node})
                /\ owed' = [u \in User |-> IF u \in Subscribers(room) \ pending
                                            THEN Append(owed[u], room.begin)
                                            ELSE <<>>]
                /\ UNCHANGED <<reading, changing, freeing, crashed>>

Next ==
    \/ \E u \in User : Subscribe(u)
    \/ \E i \in Slot : Unsubscribe(i) \/ ReadBegin(i)
    \/ SubscribeEnd \/ UnsubscribeVacate \/ UnsubscribeLast \/ UnsubscribeWalk
    \/ ReadMask \/ ReadLoad \/ ReadStore \/ ReadTest \/ ReadFirst \/ ReadEnd
    \/ ForgetFirst \/ ForgetBegin \/ ForgetEnd \/ ForgetSize
    \/ AdvanceEnd \/ AdvanceMeasure \/ AdvanceSize
    \/ \E n \in Sizes : AddReport(n)

Spec == Init /\ [][Next]_vars

-----------------------------------------------------------------------------
TypeOK ==
    /\ DOMAIN q.mem \subseteq Addr /\ \A x \in DOMAIN q.mem : q.mem[x] \in Node
    /\ q.first \in Pointer /\ q.begin \in Addr /\ q.end \in Addr
    /\ q.size \in 0 .. RingSize
    /\ q.slot \in [Slot -> [uid : User \cup {NoUser}, msg : Pointer]]
    /\ q.num \in 0 .. 255
    /\ reading \in [step : {"found", "masked", "loaded", "stored", "freed"}, slot : Slot, node : Addr,
                    mask : SUBSET Slot, next : Pointer] \cup {NotReading}
    /\ changing \in [step : {"taken", "found", "vacated"}, slot : Slot, head : Pointer]
                     \cup {NotChanging}
    /\ freeing \in [step : {"test", "first", "begin", "end", "size", "advance", "measure", "room"},
                    node : Pointer, size : 0 .. RingSize] \cup {NotFreeing}
    /\ \A u \in User : owed[u] \in Seq(Addr)
    /\ spoilt \subseteq Hazard
    /\ crashed \in BOOLEAN

\* The oldest report slot i has not read: a read that has loaded paNext is done with one.
Unread(i) == IF reading.step = "loaded" /\ reading.slot = i THEN reading.next ELSE q.slot[i].msg

\* What each subscriber will read is what it is owed: every report made since it
\* subscribed, once, in order, no node of it overwritten.
Delivers ==
    /\ ~crashed
    /\ \A i \in Occupied(q.slot) :
          Sound(q.mem, Unread(i)) /\ Path(q.mem, Unread(i)) = owed[q.slot[i].uid]

\* CommunicateProtocol.md:23: the driver gives a subscriber every report.
ReportsInOrder == spoilt \subseteq Followed => Delivers

\* The next report is written over idle bytes: none of an unread report is among them,
\* and the idle size is not overstated, unless it is about to be stored.
UnreadIsNotIdle ==
    spoilt = {} =>
        /\ \A i \in Occupied(q.slot) : \A x \in OnPath(q.mem, Unread(i)) :
              Bytes(x, q.mem[x].size) \cap IdleBytes(q) = {}
        /\ freeing = NotFreeing => q.size <= Cardinality(IdleBytes(q))

\* A subscriber is dropped only for lack of room, and only if it has yet to read the
\* oldest report; who has read it stays.
OnlyLateAreEvicted ==
    [][spoilt' = {} =>
         \A n \in Sizes : AddReport(n) =>
            \A i \in Occupied(q.slot) :
               q'.slot[i].uid = NoUser <=> /\ q.size < Threshold
                                           /\ owed[q.slot[i].uid] # <<>>
                                           /\ Head(owed[q.slot[i].uid]) = q.first]_vars
=============================================================================
