------------------------------ MODULE LinuxAPI ------------------------------
(***************************************************************************)
(* The device file of NV_Driver_G3/LinuxAPI.c: open, close, write and the  *)
(* blocking read, and sfWakeUpAllLock, which the message queue calls when  *)
(* it has added a message.  sSleepQueue lists the wait queues to wake.     *)
(*                                                                         *)
(* The kernel runs on one core and is not preemptive: a system call keeps  *)
(* the core until it returns or sleeps.  Softirqs may interrupt it         *)
(* anywhere; there event handlers report, and a report wakes.  The queue   *)
(* itself (modules MqueueSub and MqueueRmd) is here the number of messages *)
(* that wait for each user.                                                *)
(***************************************************************************)
EXTENDS Integers, FiniteSets

CONSTANTS
    File,        \* the mUserInfo structures, one per open of the device
    NoFile,      \* none
    Cap,         \* DC_FUNMASTER_SleepQueueNum (10)
    UidSpace,    \* sModuleCounts is a uint16 (65536)
    CountFirst,  \* the build stores sSleepQueueNum before the queue's address, as
                 \* the compiler of the committed NV_Driver.ko does
    MaxOpens,    \* bound of the model: calls of open
    MaxMsg       \* bound of the model: messages that wait for a user

ASSUME FileAssumption ==
    /\ NoFile \notin File
    /\ Cap \in Nat \ {0} /\ UidSpace \in Nat \ {0} /\ MaxOpens \in Nat /\ MaxMsg \in Nat
    /\ CountFirst \in BOOLEAN

VARIABLES
    file,        \* per structure: its state, its user's descriptor and the read call on it
    sleepQueue,  \* sSleepQueue, and the place behind it
    sleepNum,    \* sSleepQueueNum
    opens,       \* calls of open so far; sModuleCounts is its low 16 bits
    core,        \* the structure whose system call has the core, if any
    pos,         \* _i in onClose
    subscribed,  \* the users that have subscribed to reports
    reports,     \* per user, the reports that wait
    replies      \* per user, the replies that wait

vars == <<file, sleepQueue, sleepNum, opens, core, pos, subscribed, reports, replies>>

Uid   == 0 .. UidSpace - 1
Place == 1 .. Cap + 1
Phase == {"free", "opening", "storing", "open", "closing", "uncounted"}
At    == {"user", "check", "prepare", "recheck", "schedule", "asleep", "finish", "get"}
Task  == {"running", "interruptible"}

Unused == [phase |-> "free", uid |-> 0, at |-> "user", task |-> "running"]

HasMsg(u) == reports[u] > 0 \/ replies[u] > 0
Queued    == {sleepQueue[i] : i \in 1 .. sleepNum}
InUse(f)  == file[f].phase # "free"

\* onOpen refuses only when sleepNum > Cap, which is when it has already written behind
\* the end of sSleepQueue: there the model ends.
Sane == sleepNum <= Cap

Free    == Sane /\ core = NoFile
Runs(f) == Sane /\ core = f

Init ==
    /\ file       = [f \in File |-> Unused]
    /\ sleepQueue = [i \in Place |-> NoFile]
    /\ sleepNum   = 0
    /\ opens      = 0
    /\ core       = NoFile
    /\ pos        = 1
    /\ subscribed = {}
    /\ reports    = [u \in Uid |-> 0]
    /\ replies    = [u \in Uid |-> 0]

\* A mutant, which breaks ReaderReturns: only the first that is listed is waked.
WakedFirst(fs) ==
    [f \in File |-> IF f \in fs /\ f = sleepQueue[1] THEN [file[f] EXCEPT !.task = "running"]
                    ELSE file[f]]

\* A waiting task is waked by wake_up_interruptible on its structure's queue; after
\* prepare_to_wait it is on that queue.
Waked(fs) == [f \in File |-> IF f \in fs THEN [file[f] EXCEPT !.task = "running"] ELSE file[f]]

-----------------------------------------------------------------------------
(* onOpen: allocate, number, and list the wait queue; the statement that   *)
(* lists it is two stores, in the order the build chose.                   *)

OpenBegin(f) ==
    LET uid == (opens + 1) % UidSpace
    IN  /\ Free /\ opens < MaxOpens
        /\ file[f].phase = "free"
        /\ opens' = opens + 1
        /\ file' = [file EXCEPT ![f] = [Unused EXCEPT !.phase = "opening", !.uid = uid]]
        /\ core' = f
        /\ UNCHANGED <<sleepQueue, sleepNum, pos, subscribed, reports, replies>>

OpenStore1(f) ==
    /\ Runs(f) /\ file[f].phase = "opening"
    /\ file' = [file EXCEPT ![f].phase = "storing"]
    /\ IF CountFirst THEN sleepNum' = sleepNum + 1 /\ UNCHANGED sleepQueue
       ELSE sleepQueue' = [sleepQueue EXCEPT ![sleepNum + 1] = f] /\ UNCHANGED sleepNum
    /\ UNCHANGED <<opens, core, pos, subscribed, reports, replies>>

OpenStore2(f) ==
    /\ Runs(f) /\ file[f].phase = "storing"
    /\ file' = [file EXCEPT ![f].phase = "open"]
    /\ IF CountFirst THEN sleepQueue' = [sleepQueue EXCEPT ![sleepNum] = f] /\ UNCHANGED sleepNum
       ELSE sleepNum' = sleepNum + 1 /\ UNCHANGED sleepQueue
    /\ core' = NoFile
    /\ UNCHANGED <<opens, pos, subscribed, reports, replies>>

-----------------------------------------------------------------------------
(* onClose: the wait queue is taken off the list, the ones behind it move  *)
(* up one by one, then the user unsubscribes and the structure is freed.   *)

CloseBegin(f) ==
    /\ Free /\ file[f].phase = "open" /\ file[f].at = "user"
    /\ file' = [file EXCEPT ![f].phase = "closing"]
    /\ core' = f
    /\ pos' = CHOOSE i \in 1 .. sleepNum + 1 :
                 /\ i <= sleepNum => sleepQueue[i] = f
                 /\ \A j \in 1 .. i - 1 : sleepQueue[j] # f
    /\ UNCHANGED <<sleepQueue, sleepNum, opens, subscribed, reports, replies>>

CloseShift(f) ==
    /\ Runs(f) /\ file[f].phase = "closing"
    /\ pos < sleepNum
    /\ sleepQueue' = [sleepQueue EXCEPT ![pos] = sleepQueue[pos + 1]]
    /\ pos' = pos + 1
    /\ UNCHANGED <<file, sleepNum, opens, core, subscribed, reports, replies>>

\* A mutant, which breaks ListIsOfTheOpen: the list is cut before it is moved.
CloseCountUnmoved(f) ==
    /\ Runs(f) /\ file[f].phase = "closing"
    /\ sleepNum' = sleepNum - 1
    /\ pos' = 1
    /\ file' = [file EXCEPT ![f].phase = "uncounted"]
    /\ UNCHANGED <<sleepQueue, opens, core, subscribed, reports, replies>>

CloseCount(f) ==
    /\ Runs(f) /\ file[f].phase = "closing"
    /\ pos >= sleepNum
    /\ sleepNum' = sleepNum - 1
    /\ pos' = 1
    /\ file' = [file EXCEPT ![f].phase = "uncounted"]
    /\ UNCHANGED <<sleepQueue, opens, core, subscribed, reports, replies>>

\* A mutant, which breaks ClosedHaveNoReports: the user stays subscribed.
CloseFreeOnly(f) ==
    /\ Runs(f) /\ file[f].phase = "uncounted"
    /\ file' = [file EXCEPT ![f] = Unused]
    /\ core' = NoFile
    /\ UNCHANGED <<sleepQueue, sleepNum, opens, pos, subscribed, reports, replies>>

CloseFree(f) ==
    /\ Runs(f) /\ file[f].phase = "uncounted"
    /\ subscribed' = subscribed \ {file[f].uid}
    /\ reports' = [reports EXCEPT ![file[f].uid] = 0]
    /\ file' = [file EXCEPT ![f] = Unused]
    /\ core' = NoFile
    /\ UNCHANGED <<sleepQueue, sleepNum, opens, pos, replies>>

-----------------------------------------------------------------------------
(* optRead, step by step.                                                  *)

Goes(f, place) == file' = [file EXCEPT ![f].at = place]

ReadBegin(f) ==
    /\ Free /\ file[f].phase = "open" /\ file[f].at = "user"
    /\ Goes(f, "check")
    /\ core' = f
    /\ UNCHANGED <<sleepQueue, sleepNum, opens, pos, subscribed, reports, replies>>

ReadCheck(f) ==
    /\ Runs(f) /\ file[f].at = "check"
    /\ Goes(f, IF HasMsg(file[f].uid) THEN "get" ELSE "prepare")
    /\ UNCHANGED <<sleepQueue, sleepNum, opens, core, pos, subscribed, reports, replies>>

\* prepare_to_wait
ReadPrepare(f) ==
    /\ Runs(f) /\ file[f].at = "prepare"
    /\ file' = [file EXCEPT ![f].at = "recheck", ![f].task = "interruptible"]
    /\ UNCHANGED <<sleepQueue, sleepNum, opens, core, pos, subscribed, reports, replies>>

ReadRecheck(f) ==
    /\ Runs(f) /\ file[f].at = "recheck"
    /\ Goes(f, IF HasMsg(file[f].uid) THEN "finish" ELSE "schedule")
    /\ UNCHANGED <<sleepQueue, sleepNum, opens, core, pos, subscribed, reports, replies>>

\* A mutant, which breaks NoLostWakeup: the task is made interruptible (again) as it goes
\* to sleep, after the test.
ReadScheduleSetsState(f) ==
    /\ Runs(f) /\ file[f].at = "schedule"
    /\ file' = [file EXCEPT ![f].at = "asleep", ![f].task = "interruptible"]
    /\ core' = NoFile
    /\ UNCHANGED <<sleepQueue, sleepNum, opens, pos, subscribed, reports, replies>>

\* schedule(): others get the core; who is runnable gets it back some time.
ReadSchedule(f) ==
    /\ Runs(f) /\ file[f].at = "schedule"
    /\ Goes(f, "asleep")
    /\ core' = NoFile
    /\ UNCHANGED <<sleepQueue, sleepNum, opens, pos, subscribed, reports, replies>>

ReadResume(f) ==
    /\ Free /\ file[f].at = "asleep" /\ file[f].task = "running"
    /\ Goes(f, "finish")
    /\ core' = f
    /\ UNCHANGED <<sleepQueue, sleepNum, opens, pos, subscribed, reports, replies>>

\* finish_wait, and the loop's next turn
ReadFinish(f) ==
    /\ Runs(f) /\ file[f].at = "finish"
    /\ file' = [file EXCEPT ![f].at = "check", ![f].task = "running"]
    /\ UNCHANGED <<sleepQueue, sleepNum, opens, core, pos, subscribed, reports, replies>>

\* prfACT_GetMsg, replies before reports.  If an eviction has taken the reports since
\* they were seen there is none, and the call fails.  A message too long for the
\* caller's buffer is consumed all the same.
ReadGet(f) ==
    LET u == file[f].uid
    IN  /\ Runs(f) /\ file[f].at = "get"
        /\ \/ /\ replies[u] > 0
              /\ replies' = [replies EXCEPT ![u] = @ - 1]
              /\ UNCHANGED reports
           \/ /\ replies[u] = 0 /\ reports[u] > 0
              /\ reports' = [reports EXCEPT ![u] = @ - 1]
              /\ UNCHANGED replies
           \/ ~HasMsg(u) /\ UNCHANGED <<reports, replies>>
        /\ Goes(f, "user")
        /\ core' = NoFile
        /\ UNCHANGED <<sleepQueue, sleepNum, opens, pos, subscribed>>

-----------------------------------------------------------------------------
(* Messages.                                                               *)

\* optWrite, by any thread that has the device open: the reply is queued, and all are
\* waked.  The request may have been to subscribe, which the user numbered 0 cannot, or to
\* unsubscribe.
Write(f) ==
    LET u == file[f].uid
    IN  /\ Free /\ file[f].phase = "open"
        /\ replies[u] < MaxMsg
        /\ replies' = [replies EXCEPT ![u] = @ + 1]
        /\ \/ u # 0 /\ subscribed' = subscribed \cup {u} /\ UNCHANGED reports
           \/ subscribed' = subscribed \ {u} /\ reports' = [reports EXCEPT ![u] = 0]
           \/ UNCHANGED <<subscribed, reports>>
        /\ file' = Waked(Queued)
        /\ UNCHANGED <<sleepQueue, sleepNum, opens, core, pos>>

\* A handler of the kernel timer reports to the subscribers, those left if the queue
\* has to drop some that were late, and sfWakeUpAllLock wakes whatever is listed.  It does
\* not survive a NULL pointer: there the model goes no further.
Report(dropped) ==
    LET left == subscribed \ dropped
    IN  /\ Sane /\ \A f \in Queued : f \in File
        /\ dropped \subseteq {u \in subscribed : reports[u] > 0}
        /\ left # {} \/ dropped # {}
        /\ \A u \in left : reports[u] < MaxMsg
        /\ subscribed' = left
        /\ reports' = [u \in Uid |-> IF u \in left THEN reports[u] + 1 ELSE 0]
        /\ file' = IF left = {} THEN file ELSE Waked(Queued)
        /\ UNCHANGED <<sleepQueue, sleepNum, opens, core, pos, replies>>

SystemCall(f) ==
    \/ OpenStore1(f) \/ OpenStore2(f)
    \/ CloseShift(f) \/ CloseCount(f) \/ CloseFree(f)
    \/ ReadCheck(f) \/ ReadPrepare(f) \/ ReadRecheck(f) \/ ReadSchedule(f)
    \/ ReadResume(f) \/ ReadFinish(f) \/ ReadGet(f)

Next ==
    \/ \E f \in File : OpenBegin(f) \/ CloseBegin(f) \/ ReadBegin(f) \/ Write(f) \/ SystemCall(f)
    \/ \E dropped \in SUBSET subscribed : Report(dropped)

Spec == Init /\ [][Next]_vars

\* A system call that has the core goes on, and the scheduler gives the core to a task
\* that stays runnable, however often others ask for it.
FairSpec == Spec /\ \A f \in File : SF_vars(SystemCall(f))

-----------------------------------------------------------------------------
TypeOK ==
    /\ file       \in [File -> [phase : Phase, uid : Uid, at : At, task : Task]]
    /\ sleepQueue \in [Place -> File \cup {NoFile}]
    /\ sleepNum   \in 0 .. Cap + 1
    /\ opens      \in 0 .. MaxOpens
    /\ core       \in File \cup {NoFile}
    /\ pos        \in 1 .. Cap + 1
    /\ subscribed \subseteq Uid
    /\ reports    \in [Uid -> 0 .. MaxMsg]
    /\ replies    \in [Uid -> 0 .. MaxMsg]

\* A read call that sleeps, and that nobody has waked, has no message: the message that
\* came between its test and schedule() has waked it (lines 331-341).
NoLostWakeup ==
    \A f \in File : file[f].at = "asleep" /\ file[f].task = "interruptible" => ~HasMsg(file[f].uid)

Stale(i) == sleepQueue[i] = NoFile \/ ~InUse(sleepQueue[i])

\* However opens and closes follow each other, and whenever a report interrupts them, the
\* queue of every open structure is listed, however far another's onClose has moved the list
\* (lines 235-243), and the list holds no freed structure, except in the place an onOpen has
\* counted and not yet filled (line 202).
ListIsOfTheOpen ==
    /\ \A f \in File : file[f].phase = "open" => f \in Queued
    /\ \A i \in 1 .. sleepNum :
          Stale(i) => i = sleepNum /\ core # NoFile /\ file[core].phase = "storing"

\* sfWakeUpAllLock resumes all threads of the list (lines 416-419): none of the places it
\* visits is empty, or holds a freed structure.
WakesThreadsOnly == \A i \in 1 .. sleepNum : ~Stale(i)

\* Once a user's structure is freed, no report is left for it and none will be put.
ClosedHaveNoReports ==
    \A u \in Uid : reports[u] > 0 \/ u \in subscribed => \E f \in File : InUse(f) /\ file[f].uid = u

\* A read call ends when there is something to read, unless it is evicted meanwhile.
ReaderReturns ==
    \A f \in File : file[f].at # "user" /\ HasMsg(file[f].uid)
                        ~> file[f].at = "user" \/ ~HasMsg(file[f].uid)

\* onOpen's "support no more users" (line 197): the list never grows beyond its array.
ListFits == sleepNum <= Cap
=============================================================================
