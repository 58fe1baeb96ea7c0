-------------------------- MODULE LinuxAPI_proofs --------------------------
(***************************************************************************)
(* What a process sees of the driver: the device file it reads, and the    *)
(* replies that wait for it.                                               *)
(*                                                                         *)
(* The device file for any number of structures, any length of the list,   *)
(* either order of onOpen's stores and any bounds: the list names exactly  *)
(* the open structures, so whoever queues a message wakes every reader,    *)
(* and no sleeping reader is left with one (IInv).                         *)
(*                                                                         *)
(* The bytes of a waiting reply are never written again, for any number of *)
(* users, any buffer and any sizes that UserAssumption and SizeAssumption  *)
(* admit (RmdInv).  Replies lie below the idle area's begin; a reply is    *)
(* copied to begin and moves it behind itself, unless the buffer was low,  *)
(* and then no reply is left in it.  Which user sits in which slot does    *)
(* not matter.  That the replies come in order, until a hazard has         *)
(* happened, does need the slots: the first num of them are taken, each by *)
(* a user of its own, and hold what that user is owed (OrderInv).          *)
(***************************************************************************)
EXTENDS LinuxAPI, MqueueRmd, TLAPS

\* A call that has not slept has the core; only the user of an open structure reads.
OneCall ==
    \A f \in File : /\ file[f].phase \in {"opening", "storing", "closing", "uncounted"} => core = f
                    /\ file[f].at # "user" => file[f].phase = "open"
                    /\ file[f].at \notin {"user", "asleep"} => core = f

IsIn(phase) == \E f \in File : file[f].phase = phase

\* The place that is being given up, or is counted and not yet filled.
Hole(i) == \/ i = pos /\ IsIn("closing")
           \/ i = sleepNum /\ IsIn("storing") /\ CountFirst

Live == {i \in 1 .. sleepNum : ~Hole(i)}

LiveAreOpen == \A i \in Live : sleepQueue[i] \in File /\ file[sleepQueue[i]].phase = "open"
LiveDiffer  == \A i, j \in Live : sleepQueue[i] = sleepQueue[j] => i = j
OpenAreLive == \A f \in File : file[f].phase = "open" => \E i \in Live : sleepQueue[i] = f

\* onClose moves the list up from the leaver's place, whose entry is in use to the end.
ClosingPlace ==
    IsIn("closing") => /\ pos \in 1 .. sleepNum
                       /\ sleepQueue[pos] \in File /\ InUse(sleepQueue[pos])

StoringPlace ==
    \A f \in File : file[f].phase = "storing" =>
        IF CountFirst THEN sleepNum > 0 ELSE sleepNum <= Cap /\ sleepQueue[sleepNum + 1] = f

ListInv == LiveAreOpen /\ LiveDiffer /\ OpenAreLive /\ ClosingPlace /\ StoringPlace

\* From its test on, a reader that has found nothing and was not waked has nothing.
NothingToRead ==
    \A f \in File : file[f].at \in {"schedule", "asleep"} /\ file[f].task = "interruptible"
                       => ~HasMsg(file[f].uid)

IInv == TypeOK /\ OneCall /\ ListInv /\ NothingToRead /\ ClosedHaveNoReports

-----------------------------------------------------------------------------
LEMMA UidIsTyped ==
  ASSUME NEW n \in Nat
  PROVE  n % UidSpace \in Uid
  BY FileAssumption DEF Uid

\* In a list without duplicates the place of an open structure is the first one onClose
\* finds.
LEMMA PlaceIsFound ==
  ASSUME TypeOK, ListInv, ~IsIn("closing"), ~IsIn("storing"),
         NEW f \in File, file[f].phase = "open", CloseBegin(f)
  PROVE  pos' \in 1 .. sleepNum /\ sleepQueue[pos'] = f
<1> DEFINE P(i) == /\ i <= sleepNum => sleepQueue[i] = f
                   /\ \A j \in 1 .. i - 1 : sleepQueue[j] # f
<1>0. sleepNum \in Nat
  BY FileAssumption DEF TypeOK
<1>1. PICK i \in 1 .. sleepNum : sleepQueue[i] = f
  BY DEF ListInv, OpenAreLive, Live
<1>2. \A j \in 1 .. sleepNum : sleepQueue[j] = f => j = i
  BY <1>1 DEF ListInv, LiveDiffer, Live, Hole
<1>3. i \in 1 .. sleepNum + 1 /\ P(i)
  BY <1>0, <1>1, <1>2
<1>4. pos' = CHOOSE k \in 1 .. sleepNum + 1 : P(k)
  BY DEF CloseBegin
<1>5. pos' \in 1 .. sleepNum + 1 /\ P(pos')
  BY <1>3, <1>4
<1>6. pos' <= sleepNum
  <2>1. i \notin 1 .. pos' - 1
    BY <1>1, <1>5
  <2> QED BY <1>0, <1>1, <1>5, <2>1
<1> QED BY <1>0, <1>5, <1>6

FileRecord == [phase : Phase, uid : Uid, at : At, task : Task]

\* The members of a structure keep their types when one is assigned.
LEMMA AssignedIsTyped ==
  ASSUME file \in [File -> FileRecord], NEW f \in File
  PROVE  /\ \A v \in Phase : [file EXCEPT ![f].phase = v] \in [File -> FileRecord]
         /\ \A a \in At : [file EXCEPT ![f].at = a] \in [File -> FileRecord]
         /\ \A a \in At, t \in Task :
               [file EXCEPT ![f].at = a, ![f].task = t] \in [File -> FileRecord]
         /\ \A r \in FileRecord : [file EXCEPT ![f] = r] \in [File -> FileRecord]
  BY DEF FileRecord

LEMMA WakedIsTyped ==
  ASSUME file \in [File -> FileRecord], NEW fs
  PROVE  Waked(fs) \in [File -> FileRecord]
  BY DEF FileRecord, Waked, Task

LEMMA TypeStep ==
  ASSUME TypeOK, OneCall, ListInv, [Next]_vars
  PROVE  TypeOK'
<1>0. file \in [File -> FileRecord]
  BY DEF TypeOK, FileRecord
<1> DEFINE Rest == /\ sleepQueue' \in [Place -> File \cup {NoFile}]
                   /\ sleepNum' \in 0 .. Cap + 1 /\ opens' \in 0 .. MaxOpens
                   /\ core' \in File \cup {NoFile} /\ pos' \in 1 .. Cap + 1
                   /\ subscribed' \subseteq Uid
                   /\ reports' \in [Uid -> 0 .. MaxMsg] /\ replies' \in [Uid -> 0 .. MaxMsg]
<1>1. ASSUME file' \in [File -> FileRecord], Rest PROVE TypeOK'
  BY <1>1 DEF TypeOK, FileRecord
<1> HIDE DEF Rest
<1>2. ASSUME NEW f \in File, OpenBegin(f) PROVE TypeOK'
  <2>0. opens + 1 \in Nat
    BY FileAssumption DEF TypeOK
  <2>1. (opens + 1) % UidSpace \in Uid
    BY <2>0, UidIsTyped
  <2>2. [Unused EXCEPT !.phase = "opening", !.uid = (opens + 1) % UidSpace] \in FileRecord
    BY <2>1 DEF Unused, FileRecord, Phase, At, Task
  <2>3. file' \in [File -> FileRecord]
    BY <1>0, <1>2, <2>2, AssignedIsTyped DEF OpenBegin
  <2>4. Rest
    BY <1>2, FileAssumption DEF OpenBegin, TypeOK, Rest
  <2> QED BY <1>1, <2>3, <2>4
<1>3. ASSUME NEW f \in File, OpenStore1(f) PROVE TypeOK'
  <2>1. file' \in [File -> FileRecord]
    BY <1>0, <1>3, AssignedIsTyped DEF OpenStore1, Phase
  <2>2. Rest
    BY <1>3, FileAssumption, SMTT(30) DEF OpenStore1, Runs, Sane, TypeOK, Rest, Place
  <2> QED BY <1>1, <2>1, <2>2
<1>4. ASSUME NEW f \in File, OpenStore2(f) PROVE TypeOK'
  <2>1. file' \in [File -> FileRecord]
    BY <1>0, <1>4, AssignedIsTyped DEF OpenStore2, Phase
  <2>2. Rest
    <3>1. sleepNum' \in 0 .. Cap + 1
      BY <1>4, FileAssumption DEF OpenStore2, Runs, Sane, TypeOK
    <3>2. sleepQueue' \in [Place -> File \cup {NoFile}]
      BY <1>4 DEF OpenStore2, TypeOK
    <3> QED BY <1>4, <3>1, <3>2 DEF OpenStore2, TypeOK, Rest
  <2> QED BY <1>1, <2>1, <2>2
<1>5. ASSUME NEW f \in File, CloseBegin(f) PROVE TypeOK'
  <2>1. file' \in [File -> FileRecord]
    BY <1>0, <1>5, AssignedIsTyped DEF CloseBegin, Phase
  <2>2. ~IsIn("closing") /\ ~IsIn("storing") /\ file[f].phase = "open"
    BY <1>5, FileAssumption DEF CloseBegin, Free, OneCall, IsIn
  <2>3. pos' \in 1 .. sleepNum
    BY <1>5, <2>2, PlaceIsFound
  <2>4. Rest
    BY <1>5, <2>3, FileAssumption DEF CloseBegin, TypeOK, Rest
  <2> QED BY <1>1, <2>1, <2>4
<1>6. ASSUME NEW f \in File, CloseShift(f) PROVE TypeOK'
  <2>1. Rest
    BY <1>6, FileAssumption DEF CloseShift, Runs, Sane, TypeOK, Rest, Place
  <2> QED BY <1>0, <1>1, <1>6, <2>1 DEF CloseShift
<1>7. ASSUME NEW f \in File, CloseCount(f) PROVE TypeOK'
  <2>1. file' \in [File -> FileRecord]
    BY <1>0, <1>7, AssignedIsTyped DEF CloseCount, Phase
  <2>2. pos \in 1 .. sleepNum
    BY <1>7 DEF CloseCount, ListInv, ClosingPlace, IsIn
  <2>3. Rest
    BY <1>7, <2>2, FileAssumption DEF CloseCount, TypeOK, Rest
  <2> QED BY <1>1, <2>1, <2>3
<1>8. ASSUME NEW f \in File, CloseFree(f) PROVE TypeOK'
  <2>1. Unused \in FileRecord
    BY FileAssumption DEF Unused, FileRecord, Phase, At, Task, Uid
  <2>2. file' \in [File -> FileRecord]
    BY <1>0, <1>8, <2>1, AssignedIsTyped DEF CloseFree
  <2>3. Rest
    BY <1>8, FileAssumption DEF CloseFree, TypeOK, Rest
  <2> QED BY <1>1, <2>2, <2>3
<1>9. ASSUME NEW f \in File,
             \/ ReadBegin(f) \/ ReadCheck(f) \/ ReadPrepare(f) \/ ReadRecheck(f)
             \/ ReadSchedule(f) \/ ReadResume(f) \/ ReadFinish(f)
      PROVE  TypeOK'
  <2>1. CASE ReadPrepare(f) \/ ReadFinish(f)
    <3>0. {"recheck", "check"} \subseteq At /\ {"interruptible", "running"} \subseteq Task
      BY DEF At, Task
    <3>1. PICK a \in At, t \in Task : file' = [file EXCEPT ![f].at = a, ![f].task = t]
      BY <2>1, <3>0 DEF ReadPrepare, ReadFinish
    <3>2. file' \in [File -> FileRecord]
      BY <1>0, <3>1, AssignedIsTyped
    <3>3. Rest
      BY <2>1 DEF ReadPrepare, ReadFinish, TypeOK, Rest
    <3> QED BY <1>1, <3>2, <3>3
  <2>2. CASE ReadBegin(f) \/ ReadCheck(f) \/ ReadRecheck(f) \/ ReadSchedule(f) \/ ReadResume(f)
    <3>1. PICK a \in At : Goes(f, a)
      BY <2>2 DEF ReadBegin, ReadCheck, ReadRecheck, ReadSchedule, ReadResume, At
    <3>2. file' \in [File -> FileRecord]
      BY <1>0, <3>1, AssignedIsTyped DEF Goes
    <3>3. Rest
      BY <2>2, SMTT(30) DEF ReadBegin, ReadCheck, ReadRecheck, ReadSchedule, ReadResume, TypeOK, Rest
    <3> QED BY <1>1, <3>2, <3>3
  <2> QED BY <1>9, <2>1, <2>2
<1>10. ASSUME NEW f \in File, ReadGet(f) PROVE TypeOK'
  <2>1. file' \in [File -> FileRecord]
    BY <1>0, <1>10, AssignedIsTyped DEF ReadGet, Goes, At
  <2>2. file[f].uid \in Uid
    BY <1>0 DEF FileRecord
  <2>3. Rest
    BY <1>10, <2>2, FileAssumption DEF ReadGet, TypeOK, Rest
  <2> QED BY <1>1, <2>1, <2>3
<1>11. ASSUME NEW f \in File, Write(f) PROVE TypeOK'
  <2>1. file' \in [File -> FileRecord]
    BY <1>0, <1>11, WakedIsTyped DEF Write
  <2>2. file[f].uid \in Uid
    BY <1>0 DEF FileRecord
  <2>3. Rest
    BY <1>11, <2>2, FileAssumption DEF Write, TypeOK, Rest
  <2> QED BY <1>1, <2>1, <2>3
<1>12. ASSUME NEW dropped \in SUBSET subscribed, Report(dropped) PROVE TypeOK'
  <2>1. file' \in [File -> FileRecord]
    BY <1>0, <1>12, WakedIsTyped DEF Report
  <2>2. Rest
    BY <1>12, FileAssumption DEF Report, TypeOK, Rest
  <2> QED BY <1>1, <2>1, <2>2
<1>13. CASE UNCHANGED vars
  BY <1>13 DEF vars, TypeOK
<1> QED BY <1>2, <1>3, <1>4, <1>5, <1>6, <1>7, <1>8, <1>9, <1>10, <1>11, <1>12, <1>13
       DEF Next, SystemCall

\* What a call does to the phase and the place of its structure; the others keep theirs.
Others(f) == \A g \in File \ {f} : file'[g] = file[g]

Moves(f, phase, at) == /\ Others(f) /\ file'[f].phase = phase /\ file'[f].at = at

LEMMA CallMoves ==
  ASSUME TypeOK, NEW f \in File
  PROVE  /\ OpenBegin(f)    => Moves(f, "opening", "user")
         /\ OpenStore1(f)   => Moves(f, "storing", file[f].at)
         /\ OpenStore2(f)   => Moves(f, "open", file[f].at)
         /\ CloseBegin(f)   => Moves(f, "closing", "user")
         /\ CloseShift(f)   => Moves(f, "closing", file[f].at)
         /\ CloseCount(f)   => Moves(f, "uncounted", file[f].at)
         /\ CloseFree(f)    => Moves(f, "free", "user")
         /\ ReadBegin(f)    => Moves(f, "open", "check")
         /\ ReadPrepare(f)  => Moves(f, file[f].phase, "recheck")
         /\ ReadSchedule(f) => Moves(f, file[f].phase, "asleep")
         /\ ReadResume(f)   => Moves(f, file[f].phase, "finish")
         /\ ReadFinish(f)   => Moves(f, file[f].phase, "check")
         /\ ReadGet(f)      => Moves(f, file[f].phase, "user")
         /\ ReadCheck(f)    => \E a \in {"get", "prepare"} : Moves(f, file[f].phase, a)
         /\ ReadRecheck(f)  => \E a \in {"finish", "schedule"} : Moves(f, file[f].phase, a)
<1> USE DEF TypeOK, Moves, Others
<1>1. /\ OpenBegin(f)    => Moves(f, "opening", "user")
      /\ OpenStore1(f)   => Moves(f, "storing", file[f].at)
      /\ OpenStore2(f)   => Moves(f, "open", file[f].at)
  BY DEF OpenBegin, OpenStore1, OpenStore2, Unused
<1>2. /\ CloseBegin(f)   => Moves(f, "closing", "user")
      /\ CloseShift(f)   => Moves(f, "closing", file[f].at)
  BY DEF CloseBegin, CloseShift
<1>3. /\ CloseCount(f)   => Moves(f, "uncounted", file[f].at)
      /\ CloseFree(f)    => Moves(f, "free", "user")
  BY DEF CloseCount, CloseFree, Unused
<1>4. /\ ReadBegin(f)    => Moves(f, "open", "check")
      /\ ReadPrepare(f)  => Moves(f, file[f].phase, "recheck")
      /\ ReadSchedule(f) => Moves(f, file[f].phase, "asleep")
  BY DEF ReadBegin, ReadPrepare, ReadSchedule, Goes
<1>5. /\ ReadResume(f)   => Moves(f, file[f].phase, "finish")
      /\ ReadFinish(f)   => Moves(f, file[f].phase, "check")
      /\ ReadGet(f)      => Moves(f, file[f].phase, "user")
  BY DEF ReadResume, ReadFinish, ReadGet, Goes
<1>6. /\ ReadCheck(f)    => \E a \in {"get", "prepare"} : Moves(f, file[f].phase, a)
      /\ ReadRecheck(f)  => \E a \in {"finish", "schedule"} : Moves(f, file[f].phase, a)
  BY DEF ReadCheck, ReadRecheck, Goes
<1> QED BY <1>1, <1>2, <1>3, <1>4, <1>5, <1>6

\* Waking changes neither.
LEMMA WakingMoves ==
  ASSUME TypeOK, NEW fs, file' = Waked(fs)
  PROVE  \A g \in File : /\ file'[g].phase = file[g].phase /\ file'[g].at = file[g].at
                         /\ file'[g].uid = file[g].uid
                         /\ file'[g].task \in {file[g].task, "running"}
                         /\ g \in fs => file'[g].task = "running"
  BY DEF TypeOK, Waked

\* A report may find nobody left to wake.
LEMMA ReportMoves ==
  ASSUME TypeOK, NEW dropped \in SUBSET subscribed, Report(dropped)
  PROVE  \A g \in File : /\ file'[g].phase = file[g].phase /\ file'[g].at = file[g].at
                         /\ file'[g].uid = file[g].uid
                         /\ file'[g].task \in {file[g].task, "running"}
<1>1. file' = file \/ file' = Waked(Queued)
  BY DEF Report
<1> QED BY <1>1, WakingMoves

LEMMA OneCallStep ==
  ASSUME TypeOK, OneCall, [Next]_vars
  PROVE  OneCall'
<1>1. ASSUME NEW f \in File,
             OpenBegin(f) \/ OpenStore1(f) \/ OpenStore2(f) \/ CloseBegin(f)
      PROVE  OneCall'
  BY <1>1, CallMoves, FileAssumption
     DEF OneCall, Moves, Others, OpenBegin, OpenStore1, OpenStore2, CloseBegin, Free, Runs
<1>2. ASSUME NEW f \in File, CloseShift(f) \/ CloseCount(f) \/ CloseFree(f)
      PROVE  OneCall'
  BY <1>2, CallMoves, FileAssumption DEF OneCall, Moves, Others, CloseShift, CloseCount, CloseFree, Runs
<1>3. ASSUME NEW f \in File, ReadBegin(f) \/ ReadPrepare(f) \/ ReadSchedule(f) \/ ReadResume(f)
      PROVE  OneCall'
  BY <1>3, CallMoves, FileAssumption
     DEF OneCall, Moves, Others, ReadBegin, ReadPrepare, ReadSchedule, ReadResume, Free, Runs
<1>4. ASSUME NEW f \in File, ReadCheck(f) \/ ReadRecheck(f) \/ ReadFinish(f) \/ ReadGet(f)
      PROVE  OneCall'
  BY <1>4, CallMoves, FileAssumption
     DEF OneCall, Moves, Others, ReadCheck, ReadRecheck, ReadFinish, ReadGet, Runs
<1>5. ASSUME NEW f \in File, Write(f) PROVE OneCall'
  BY <1>5, WakingMoves DEF OneCall, Write
<1>6. ASSUME NEW dropped \in SUBSET subscribed, Report(dropped) PROVE OneCall'
  <2>1. core' = core
    BY <1>6 DEF Report
  <2> QED BY <1>6, <2>1, ReportMoves DEF OneCall
<1>7. CASE UNCHANGED vars
  BY <1>7 DEF vars, OneCall
<1> QED BY <1>1, <1>2, <1>3, <1>4, <1>5, <1>6, <1>7 DEF Next, SystemCall

\* The list depends on the phases only.
LEMMA ListIsKept ==
  ASSUME ListInv, UNCHANGED <<sleepQueue, sleepNum, pos>>,
         \A g \in File : file'[g].phase = file[g].phase
  PROVE  ListInv'
<1>1. \A p : IsIn(p)' <=> IsIn(p)
  BY DEF IsIn
<1>2. Live' = Live
  BY <1>1 DEF Live, Hole
<1>3. LiveAreOpen' /\ LiveDiffer' /\ OpenAreLive'
  BY <1>2 DEF ListInv, LiveAreOpen, LiveDiffer, OpenAreLive
<1>4. ClosingPlace'
  BY <1>1 DEF ListInv, ClosingPlace, InUse
<1>5. StoringPlace'
  BY DEF ListInv, StoringPlace
<1> QED BY <1>3, <1>4, <1>5 DEF ListInv

LEMMA OpenKeepsList ==
  ASSUME TypeOK, OneCall, ListInv, NEW f \in File,
         OpenBegin(f) \/ OpenStore1(f) \/ OpenStore2(f)
  PROVE  ListInv'
<1>0. sleepNum \in Nat /\ Cap \in Nat
  BY FileAssumption DEF TypeOK
<1>1. CASE OpenBegin(f)
  <2>1. Moves(f, "opening", "user") /\ core = NoFile /\ file[f].phase = "free"
    BY <1>1, CallMoves DEF OpenBegin, Free
  <2>2. \A g \in File : file[g].phase \notin {"storing", "closing"}
    BY <2>1, FileAssumption DEF OneCall
  <2>3. ~IsIn("storing") /\ ~IsIn("closing") /\ ~IsIn("storing")' /\ ~IsIn("closing")'
    BY <2>1, <2>2 DEF IsIn, Moves, Others
  <2>4. Live' = Live /\ sleepQueue' = sleepQueue
    BY <1>1, <2>3 DEF Live, Hole, OpenBegin
  <2>5. LiveAreOpen' /\ LiveDiffer' /\ OpenAreLive'
    BY <2>1, <2>4 DEF ListInv, LiveAreOpen, LiveDiffer, OpenAreLive, Moves, Others
  <2> QED BY <2>3, <2>5 DEF ListInv, ClosingPlace, StoringPlace, IsIn
<1>2. CASE OpenStore1(f)
  <2>1. Moves(f, "storing", file[f].at) /\ core = f /\ file[f].phase = "opening" /\ sleepNum <= Cap
    BY <1>2, CallMoves DEF OpenStore1, Runs, Sane
  <2>2. \A g \in File : file[g].phase \notin {"storing", "closing"}
    BY <2>1 DEF OneCall
  <2>3. ~IsIn("storing") /\ ~IsIn("closing") /\ IsIn("storing")' /\ ~IsIn("closing")'
    BY <2>1, <2>2 DEF IsIn, Moves, Others
  <2>4. Live = 1 .. sleepNum
    BY <2>3 DEF Live, Hole
  <2>5. /\ Live' = Live
        /\ \A i \in Live : sleepQueue'[i] = sleepQueue[i]
    <3>1. CASE CountFirst
      BY <1>0, <1>2, <2>3, <2>4, <3>1 DEF Live, Hole, OpenStore1
    <3>2. CASE ~CountFirst
      BY <1>0, <1>2, <2>3, <2>4, <3>2 DEF Live, Hole, OpenStore1, TypeOK, Place
    <3> QED BY <3>1, <3>2
  <2>6. LiveAreOpen' /\ LiveDiffer' /\ OpenAreLive'
    BY <2>1, <2>5 DEF ListInv, LiveAreOpen, LiveDiffer, OpenAreLive, Moves, Others
  <2>7. StoringPlace'
    <3>1. \A g \in File : file'[g].phase = "storing" => g = f
      BY <2>1, <2>2 DEF Moves, Others
    <3>2. IF CountFirst THEN sleepNum' > 0 ELSE sleepNum' <= Cap /\ sleepQueue'[sleepNum' + 1] = f
      <4>1. CASE CountFirst
        BY <1>0, <1>2, <4>1 DEF OpenStore1
      <4>2. CASE ~CountFirst
        BY <1>0, <1>2, <2>1, <4>2 DEF OpenStore1, TypeOK, Place
      <4> QED BY <4>1, <4>2
    <3> QED BY <3>1, <3>2 DEF StoringPlace
  <2> QED BY <2>3, <2>6, <2>7 DEF ListInv, ClosingPlace
<1>3. CASE OpenStore2(f)
  <2>1. Moves(f, "open", file[f].at) /\ core = f /\ file[f].phase = "storing"
    BY <1>3, CallMoves DEF OpenStore2, Runs
  <2>2. \A g \in File : file[g].phase # "closing" /\ (file[g].phase = "storing" => g = f)
    BY <2>1 DEF OneCall
  <2>3. IsIn("storing") /\ ~IsIn("closing") /\ ~IsIn("storing")' /\ ~IsIn("closing")'
    BY <2>1, <2>2 DEF IsIn, Moves, Others
  <2>4. Live' = 1 .. sleepNum'
    BY <2>3 DEF Live, Hole
  <2>5. /\ sleepNum' \in Nat \ {0} /\ Live = 1 .. sleepNum' - 1
        /\ \A i \in Live : sleepQueue'[i] = sleepQueue[i]
        /\ sleepQueue'[sleepNum'] = f
    <3>1. CASE CountFirst
      <4>1. sleepNum > 0 /\ sleepNum' = sleepNum
        BY <1>3, <2>1, <3>1 DEF OpenStore2, ListInv, StoringPlace
      <4> QED BY <1>0, <1>3, <2>3, <3>1, <4>1 DEF Live, Hole, OpenStore2, TypeOK, Place
    <3>2. CASE ~CountFirst
      <4>1. sleepQueue[sleepNum + 1] = f
        BY <2>1, <3>2 DEF ListInv, StoringPlace
      <4> QED BY <1>0, <1>3, <2>3, <3>2, <4>1 DEF Live, Hole, OpenStore2
    <3> QED BY <3>1, <3>2
  <2>6. \A i \in Live' : i \in Live \/ i = sleepNum'
    <3>1. \A n \in Nat \ {0} : \A i \in 1 .. n : i \in 1 .. n - 1 \/ i = n
      OBVIOUS
    <3> QED BY <2>4, <2>5, <3>1
  <2>7. sleepNum' \in Live' /\ \A i \in Live : i \in Live' /\ i # sleepNum'
    <3>1. \A n \in Nat \ {0} : n \in 1 .. n /\ \A i \in 1 .. n - 1 : i \in 1 .. n /\ i # n
      OBVIOUS
    <3> QED BY <2>4, <2>5, <3>1
  <2>8. \A i \in Live : sleepQueue[i] # f
    BY <2>1 DEF ListInv, LiveAreOpen
  <2>9. LiveAreOpen'
    BY <2>1, <2>5, <2>6, ZenonT(40) DEF ListInv, LiveAreOpen, Moves, Others
  <2>10. LiveDiffer'
    BY <2>5, <2>6, <2>8 DEF ListInv, LiveDiffer
  <2>11. OpenAreLive'
    <3>1. ASSUME NEW g \in File, file'[g].phase = "open" PROVE \E i \in Live' : sleepQueue'[i] = g
      <4>1. CASE g = f
        BY <2>5, <2>7, <4>1
      <4>2. CASE g # f
        <5>1. PICK i \in Live : sleepQueue[i] = g
          BY <2>1, <3>1, <4>2 DEF ListInv, OpenAreLive, Moves, Others
        <5> QED BY <2>5, <2>7, <5>1
      <4> QED BY <4>1, <4>2
    <3> QED BY <3>1 DEF OpenAreLive
  <2> QED BY <2>3, <2>9, <2>10, <2>11 DEF ListInv, ClosingPlace, StoringPlace, IsIn
<1> QED BY <1>1, <1>2, <1>3

LEMMA CloseKeepsList ==
  ASSUME TypeOK, OneCall, ListInv, NEW f \in File,
         CloseBegin(f) \/ CloseShift(f) \/ CloseCount(f) \/ CloseFree(f)
  PROVE  ListInv'
<1>0. sleepNum \in Nat /\ pos \in Nat /\ Cap \in Nat
  BY FileAssumption DEF TypeOK
<1>1. CASE CloseBegin(f)
  <2>1. Moves(f, "closing", "user") /\ core = NoFile /\ file[f].phase = "open"
    BY <1>1, CallMoves DEF CloseBegin, Free
  <2>2. \A g \in File : file[g].phase \notin {"storing", "closing"}
    BY <2>1, FileAssumption DEF OneCall
  <2>3. ~IsIn("storing") /\ ~IsIn("closing") /\ ~IsIn("storing")' /\ IsIn("closing")'
    BY <2>1, <2>2 DEF IsIn, Moves, Others
  <2>4. pos' \in 1 .. sleepNum /\ sleepQueue[pos'] = f
    BY <1>1, <2>1, <2>3, PlaceIsFound
  <2>5. Live = 1 .. sleepNum /\ Live' = 1 .. sleepNum \ {pos'} /\ sleepQueue' = sleepQueue
    BY <1>1, <2>3 DEF Live, Hole, CloseBegin
  <2>6. \A i \in Live' : i \in Live /\ sleepQueue[i] # f
    BY <2>4, <2>5 DEF ListInv, LiveDiffer
  <2>7. LiveAreOpen' /\ LiveDiffer'
    BY <2>1, <2>5, <2>6 DEF ListInv, LiveAreOpen, LiveDiffer, Moves, Others
  <2>8. OpenAreLive'
    BY <2>1, <2>4, <2>5 DEF ListInv, OpenAreLive, Moves, Others
  <2>9. ClosingPlace'
    BY <1>1, <2>1, <2>4 DEF ClosingPlace, InUse, Moves, CloseBegin
  <2> QED BY <2>3, <2>7, <2>8, <2>9 DEF ListInv, StoringPlace, IsIn
<1>2. CASE CloseShift(f)
  <2>1. file' = file /\ core = f /\ file[f].phase = "closing" /\ pos < sleepNum /\ sleepNum <= Cap
    BY <1>2 DEF CloseShift, Runs, Sane
  <2>2. ~IsIn("storing") /\ IsIn("closing")
    BY <2>1 DEF OneCall, IsIn
  <2>3. ~IsIn("storing")' /\ IsIn("closing")'
    BY <2>1, <2>2 DEF IsIn
  <2>4. pos \in 1 .. sleepNum /\ sleepNum' = sleepNum /\ pos' = pos + 1
    BY <1>2, <2>2 DEF CloseShift, ListInv, ClosingPlace
  <2>5. Live = 1 .. sleepNum \ {pos} /\ Live' = 1 .. sleepNum \ {pos + 1}
    BY <2>2, <2>3, <2>4 DEF Live, Hole
  <2>6. /\ pos + 1 \in Live /\ pos \in Live' /\ sleepQueue'[pos] = sleepQueue[pos + 1]
        /\ sleepQueue'[pos + 1] = sleepQueue[pos + 1]
        /\ \A i \in Live' \ {pos} : i \in Live /\ i # pos + 1 /\ sleepQueue'[i] = sleepQueue[i]
        /\ \A i \in Live \ {pos + 1} : i \in Live' /\ i # pos /\ sleepQueue'[i] = sleepQueue[i]
    BY <1>0, <1>2, <2>1, <2>4, <2>5 DEF CloseShift, TypeOK, Place
  <2>7. LiveAreOpen'
    BY <2>1, <2>6 DEF ListInv, LiveAreOpen
  <2>8. LiveDiffer'
    BY <2>6 DEF ListInv, LiveDiffer
  <2>9. OpenAreLive'
    BY <2>1, <2>6 DEF ListInv, OpenAreLive
  <2>10. ClosingPlace'
    <3>1. sleepQueue'[pos'] \in File /\ file[sleepQueue'[pos']].phase = "open"
      BY <2>4, <2>6 DEF ListInv, LiveAreOpen
    <3> QED BY <1>0, <2>1, <2>4, <3>1 DEF ClosingPlace, InUse
  <2> QED BY <2>3, <2>7, <2>8, <2>9, <2>10 DEF ListInv, StoringPlace, IsIn
<1>3. CASE CloseCount(f)
  <2>1. Moves(f, "uncounted", file[f].at) /\ core = f /\ file[f].phase = "closing" /\ pos >= sleepNum
    BY <1>3, CallMoves DEF CloseCount, Runs
  <2>2. \A g \in File : file[g].phase # "storing" /\ (file[g].phase = "closing" => g = f)
    BY <2>1 DEF OneCall
  <2>3. ~IsIn("storing") /\ IsIn("closing") /\ ~IsIn("storing")' /\ ~IsIn("closing")'
    BY <2>1, <2>2 DEF IsIn, Moves, Others
  <2>4. pos = sleepNum /\ sleepNum > 0 /\ sleepNum' = sleepNum - 1 /\ sleepQueue' = sleepQueue
    BY <1>0, <1>3, <2>1, <2>3 DEF CloseCount, ListInv, ClosingPlace
  <2>5. Live = 1 .. sleepNum \ {sleepNum} /\ Live' = 1 .. sleepNum - 1
    BY <2>3, <2>4 DEF Live, Hole
  <2>6. Live' = Live
    BY <1>0, <2>4, <2>5
  <2>7. LiveAreOpen' /\ LiveDiffer' /\ OpenAreLive'
    BY <2>1, <2>4, <2>6 DEF ListInv, LiveAreOpen, LiveDiffer, OpenAreLive, Moves, Others
  <2> QED BY <2>3, <2>7 DEF ListInv, ClosingPlace, StoringPlace, IsIn
<1>4. CASE CloseFree(f)
  <2>1. Moves(f, "free", "user") /\ core = f /\ file[f].phase = "uncounted"
    BY <1>4, CallMoves DEF CloseFree, Runs
  <2>2. \A g \in File : file[g].phase \notin {"storing", "closing"}
    BY <2>1 DEF OneCall
  <2>3. ~IsIn("storing") /\ ~IsIn("closing") /\ ~IsIn("storing")' /\ ~IsIn("closing")'
    BY <2>1, <2>2 DEF IsIn, Moves, Others
  <2>4. Live' = Live /\ sleepQueue' = sleepQueue
    BY <1>4, <2>3 DEF Live, Hole, CloseFree
  <2>5. LiveAreOpen' /\ LiveDiffer' /\ OpenAreLive'
    BY <2>1, <2>4 DEF ListInv, LiveAreOpen, LiveDiffer, OpenAreLive, Moves, Others
  <2> QED BY <2>3, <2>5 DEF ListInv, ClosingPlace, StoringPlace, IsIn
<1> QED BY <1>1, <1>2, <1>3, <1>4

LEMMA ListStep ==
  ASSUME TypeOK, OneCall, ListInv, [Next]_vars
  PROVE  ListInv'
<1>1. ASSUME NEW f \in File,
             \/ ReadBegin(f) \/ ReadCheck(f) \/ ReadPrepare(f) \/ ReadRecheck(f)
             \/ ReadSchedule(f) \/ ReadResume(f) \/ ReadFinish(f) \/ ReadGet(f)
      PROVE  ListInv'
  <2>1. UNCHANGED <<sleepQueue, sleepNum, pos>>
    BY <1>1 DEF ReadBegin, ReadCheck, ReadPrepare, ReadRecheck, ReadSchedule, ReadResume,
                ReadFinish, ReadGet
  <2>2. file'[f].phase = file[f].phase /\ Others(f)
    BY <1>1, CallMoves DEF Moves, ReadBegin
  <2> QED BY <2>1, <2>2, ListIsKept DEF Others
<1>2. ASSUME NEW f \in File, Write(f) PROVE ListInv'
  BY <1>2, WakingMoves, ListIsKept DEF Write
<1>3. ASSUME NEW dropped \in SUBSET subscribed, Report(dropped) PROVE ListInv'
  <2>1. UNCHANGED <<sleepQueue, sleepNum, pos>>
    BY <1>3 DEF Report
  <2> QED BY <1>3, <2>1, ReportMoves, ListIsKept
<1>4. CASE UNCHANGED vars
  BY <1>4, ListIsKept DEF vars
<1> QED BY <1>1, <1>2, <1>3, <1>4, OpenKeepsList, CloseKeepsList DEF Next, SystemCall

\* Whoever queues a message wakes every structure that is open.
LEMMA OpenIsQueued ==
  ASSUME ListInv, NEW f \in File, file[f].phase = "open"
  PROVE  f \in Queued
  BY DEF ListInv, OpenAreLive, Live, Queued

LEMMA NothingStep ==
  ASSUME TypeOK, OneCall, ListInv, NothingToRead, [Next]_vars
  PROVE  NothingToRead'
<1> DEFINE Waits(f) == file[f].at \in {"schedule", "asleep"} /\ file[f].task = "interruptible"
<1>1. ASSUME \A u \in Uid : HasMsg(u)' => HasMsg(u),
             \A g \in File : Waits(g)' => /\ file'[g].uid = file[g].uid
                                          /\ ~HasMsg(file[g].uid)
      PROVE  NothingToRead'
  <2>1. \A g \in File : file[g].uid \in Uid
    BY DEF TypeOK
  <2> QED BY <1>1, <2>1 DEF NothingToRead
<1>2. ASSUME NEW f \in File,
             \/ OpenBegin(f) \/ OpenStore1(f) \/ OpenStore2(f)
             \/ CloseBegin(f) \/ CloseShift(f) \/ CloseCount(f) \/ CloseFree(f)
      PROVE  NothingToRead'
  <2>1. Others(f) /\ file'[f].at = "user"
    BY <1>2, CallMoves
       DEF Moves, OneCall, OpenStore1, OpenStore2, CloseShift, CloseCount
  <2>2. \A u \in Uid : HasMsg(u)' => HasMsg(u)
    BY <1>2 DEF HasMsg, TypeOK, OpenBegin, OpenStore1, OpenStore2, CloseBegin, CloseShift,
                CloseCount, CloseFree
  <2>3. \A g \in File : Waits(g)' => file'[g] = file[g]
    BY <2>1 DEF Others
  <2> QED BY <1>1, <2>2, <2>3 DEF NothingToRead
<1>3. ASSUME NEW f \in File,
             \/ ReadBegin(f) \/ ReadCheck(f) \/ ReadPrepare(f) \/ ReadResume(f) \/ ReadFinish(f)
             \/ ReadGet(f)
      PROVE  NothingToRead'
  <2>1. Others(f) /\ file'[f].at \in {"user", "check", "get", "prepare", "recheck", "finish"}
    BY <1>3, CallMoves DEF Moves
  <2>2. \A u \in Uid : HasMsg(u)' => HasMsg(u)
    <3>1. CASE ReadGet(f)
      <4>1. file[f].uid \in Uid
        BY DEF TypeOK
      <4> QED BY <3>1, <4>1 DEF HasMsg, TypeOK, ReadGet
    <3> QED BY <1>3, <3>1
            DEF HasMsg, ReadBegin, ReadCheck, ReadPrepare, ReadResume, ReadFinish
  <2>3. \A g \in File : Waits(g)' => file'[g] = file[g]
    BY <2>1 DEF Others
  <2> QED BY <1>1, <2>2, <2>3 DEF NothingToRead
<1>4. ASSUME NEW f \in File, ReadRecheck(f) PROVE NothingToRead'
  <2>1. Others(f) /\ file'[f].uid = file[f].uid
    BY <1>4 DEF TypeOK, Others, ReadRecheck, Goes
  <2>2. file'[f].at = "schedule" => ~HasMsg(file[f].uid)
    BY <1>4 DEF TypeOK, ReadRecheck, Goes
  <2>3. file'[f].at # "asleep"
    BY <1>4, CallMoves DEF Moves
  <2>4. \A u \in Uid : HasMsg(u)' => HasMsg(u)
    BY <1>4 DEF ReadRecheck, HasMsg
  <2> QED BY <1>1, <2>1, <2>2, <2>3, <2>4 DEF NothingToRead, Others
<1>5. ASSUME NEW f \in File, ReadSchedule(f) PROVE NothingToRead'
  <2>1. Others(f) /\ file'[f].uid = file[f].uid /\ file'[f].task = file[f].task
    BY <1>5 DEF TypeOK, Others, ReadSchedule, Goes
  <2>2. file[f].at = "schedule" /\ \A u \in Uid : HasMsg(u)' => HasMsg(u)
    BY <1>5 DEF ReadSchedule, HasMsg
  <2> QED BY <1>1, <2>1, <2>2 DEF NothingToRead, Others
<1>6. ASSUME NEW f \in File, Write(f) PROVE NothingToRead'
  <2>1. file' = Waked(Queued)
    BY <1>6 DEF Write
  <2>2. \A g \in File : Waits(g) => g \in Queued
    BY OpenIsQueued DEF OneCall
  <2> QED BY <2>1, <2>2, WakingMoves DEF NothingToRead
<1>7. ASSUME NEW dropped \in SUBSET subscribed, Report(dropped) PROVE NothingToRead'
  <2>1. CASE subscribed \ dropped = {}
    <3>1. file' = file /\ replies' = replies /\ \A u \in Uid : reports'[u] = 0
      BY <1>7, <2>1 DEF Report
    <3>2. \A u \in Uid : HasMsg(u)' => HasMsg(u)
      BY <3>1 DEF HasMsg
    <3> QED BY <1>1, <3>1, <3>2 DEF NothingToRead
  <2>2. CASE subscribed \ dropped # {}
    <3>1. file' = Waked(Queued)
      BY <1>7, <2>2 DEF Report
    <3>2. \A g \in File : Waits(g) => g \in Queued
      BY OpenIsQueued DEF OneCall
    <3> QED BY <3>1, <3>2, WakingMoves DEF NothingToRead
  <2> QED BY <2>1, <2>2
<1>8. CASE UNCHANGED vars
  BY <1>8 DEF vars, NothingToRead, HasMsg
<1> QED BY <1>2, <1>3, <1>4, <1>5, <1>6, <1>7, <1>8 DEF Next, SystemCall

\* A call leaves every structure in use, with its user, but for the last step of onClose.
LEMMA UsersStay ==
  ASSUME TypeOK, OneCall, [Next]_vars
  PROVE  \A g \in File : InUse(g) =>
            \/ InUse(g)' /\ file'[g].uid = file[g].uid
            \/ CloseFree(g)
<1>1. ASSUME NEW f \in File,
             OpenStore1(f) \/ OpenStore2(f) \/ CloseBegin(f) \/ CloseShift(f) \/ CloseCount(f)
      PROVE  \A g \in File : InUse(g) => InUse(g)' /\ file'[g].uid = file[g].uid
  BY <1>1 DEF TypeOK, InUse, OpenStore1, OpenStore2, CloseBegin, CloseShift, CloseCount
<1>2. ASSUME NEW f \in File,
             ReadBegin(f) \/ ReadCheck(f) \/ ReadPrepare(f) \/ ReadRecheck(f)
      PROVE  \A g \in File : InUse(g) => InUse(g)' /\ file'[g].uid = file[g].uid
  BY <1>2 DEF TypeOK, InUse, ReadBegin, ReadCheck, ReadPrepare, ReadRecheck, Goes
<1>3. ASSUME NEW f \in File,
             ReadSchedule(f) \/ ReadResume(f) \/ ReadFinish(f) \/ ReadGet(f)
      PROVE  \A g \in File : InUse(g) => InUse(g)' /\ file'[g].uid = file[g].uid
  BY <1>3 DEF TypeOK, InUse, ReadSchedule, ReadResume, ReadFinish, ReadGet, Goes
<1>4. ASSUME NEW f \in File, OpenBegin(f) \/ CloseFree(f)
      PROVE  \A g \in File : InUse(g) => \/ InUse(g)' /\ file'[g].uid = file[g].uid
                                         \/ CloseFree(g)
  BY <1>4, CallMoves DEF InUse, OpenBegin, Moves, Others
<1>5. ASSUME NEW f \in File, Write(f)
      PROVE  \A g \in File : InUse(g) => InUse(g)' /\ file'[g].uid = file[g].uid
  BY <1>5, WakingMoves DEF Write, InUse
<1>6. ASSUME NEW dropped \in SUBSET subscribed, Report(dropped)
      PROVE  \A g \in File : InUse(g) => InUse(g)' /\ file'[g].uid = file[g].uid
  BY <1>6, ReportMoves DEF InUse
<1>7. CASE UNCHANGED vars
  BY <1>7 DEF vars, InUse
<1> QED BY <1>1, <1>2, <1>3, <1>4, <1>5, <1>6, <1>7 DEF Next, SystemCall

LEMMA ClosedStep ==
  ASSUME TypeOK, OneCall, ClosedHaveNoReports, [Next]_vars
  PROVE  ClosedHaveNoReports'
<1> DEFINE Told(u) == reports[u] > 0 \/ u \in subscribed
<1>1. ASSUME ~(\E f \in File : CloseFree(f)), \A u \in Uid : Told(u)' => Told(u)
      PROVE  ClosedHaveNoReports'
  BY <1>1, UsersStay DEF ClosedHaveNoReports
<1>2. ASSUME NEW f \in File, CloseFree(f) PROVE ClosedHaveNoReports'
  <2>1. Others(f) /\ file[f].uid \in Uid
    BY <1>2, CallMoves DEF Moves, TypeOK
  <2>2. \A u \in Uid : Told(u)' => Told(u) /\ u # file[f].uid
    BY <1>2, <2>1 DEF CloseFree, TypeOK
  <2> QED BY <2>1, <2>2 DEF ClosedHaveNoReports, Others, InUse
<1>3. ASSUME ~(\E f \in File : CloseFree(f)), NEW f \in File, Write(f)
      PROVE  ClosedHaveNoReports'
  <2>1. InUse(f) /\ file[f].uid \in Uid
    BY <1>3 DEF Write, InUse, TypeOK
  <2>2. \A u \in Uid : Told(u)' => Told(u) \/ u = file[f].uid
    BY <1>3, <2>1 DEF Write, TypeOK
  <2> QED BY <1>3, <2>1, <2>2, UsersStay DEF ClosedHaveNoReports
<1>4. ASSUME NEW dropped \in SUBSET subscribed, Report(dropped)
      PROVE  \A u \in Uid : Told(u)' => Told(u)
  BY <1>4 DEF Report
<1>5. ASSUME NEW f \in File, ReadGet(f)
      PROVE  \A u \in Uid : Told(u)' => Told(u)
  <2>1. file[f].uid \in Uid
    BY DEF TypeOK
  <2> QED BY <1>5, <2>1 DEF ReadGet, TypeOK
<1>6. ASSUME NEW f \in File,
             \/ OpenBegin(f) \/ OpenStore1(f) \/ OpenStore2(f)
             \/ CloseBegin(f) \/ CloseShift(f) \/ CloseCount(f)
             \/ ReadBegin(f) \/ ReadCheck(f) \/ ReadPrepare(f) \/ ReadRecheck(f)
             \/ ReadSchedule(f) \/ ReadResume(f) \/ ReadFinish(f)
      PROVE  \A u \in Uid : Told(u)' => Told(u)
  BY <1>6 DEF OpenBegin, OpenStore1, OpenStore2, CloseBegin, CloseShift, CloseCount, ReadBegin,
              ReadCheck, ReadPrepare, ReadRecheck, ReadSchedule, ReadResume, ReadFinish
<1>7. CASE UNCHANGED vars
  BY <1>7 DEF vars, ClosedHaveNoReports, InUse
<1> HIDE DEF Told
<1> QED BY <1>1, <1>2, <1>3, <1>4, <1>5, <1>6, <1>7 DEF Next, SystemCall

-----------------------------------------------------------------------------
LEMMA InitHolds == Init => IInv
<1> SUFFICES ASSUME Init PROVE IInv
  OBVIOUS
<1>1. TypeOK
  BY FileAssumption DEF Init, TypeOK, Unused, Phase, At, Task, Uid, Place
<1>2. OneCall /\ NothingToRead
  BY DEF Init, OneCall, NothingToRead, Unused
<1>3. \A p : p # "free" => ~IsIn(p)
  BY DEF Init, IsIn, Unused
<1>4. ListInv
  BY <1>3 DEF Init, ListInv, LiveAreOpen, LiveDiffer, OpenAreLive, ClosingPlace, StoringPlace,
              Live, IsIn
<1>5. ClosedHaveNoReports
  BY DEF Init, ClosedHaveNoReports
<1> QED BY <1>1, <1>2, <1>4, <1>5 DEF IInv

\* The structures, the list and the calls under way fit together at every step.
THEOREM DeviceIsSound == Spec => []IInv
<1>1. IInv /\ [Next]_vars => IInv'
  BY TypeStep, OneCallStep, ListStep, NothingStep, ClosedStep DEF IInv
<1> QED BY InitHolds, <1>1, PTL DEF Spec

\* For any number of structures, and wherever reports interrupt its statements, optRead
\* never sleeps on a message that came between its test and schedule() (lines 331-341).
THEOREM WakeupsAreNotLost == Spec => []NoLostWakeup
<1>1. IInv => NoLostWakeup
  BY DEF IInv, NothingToRead, NoLostWakeup
<1> QED BY DeviceIsSound, <1>1, PTL

\* For any number of structures and either order of onOpen's stores, the list holds every
\* open structure's queue and no freed one's, through all of onClose's shifting.
THEOREM ListIsSound == Spec => []ListIsOfTheOpen
<1>1. ASSUME IInv PROVE ListIsOfTheOpen
  <2>1. \A f \in File : file[f].phase = "open" => f \in Queued
    BY <1>1, OpenIsQueued DEF IInv
  <2>2. ASSUME NEW i \in 1 .. sleepNum, Stale(i)
        PROVE  i = sleepNum /\ core # NoFile /\ file[core].phase = "storing"
    <3>1. i \notin Live
      BY <1>1, <2>2, FileAssumption DEF IInv, ListInv, LiveAreOpen, Stale, InUse
    <3>2. ~(i = pos /\ IsIn("closing"))
      BY <1>1, <2>2, FileAssumption DEF IInv, ListInv, ClosingPlace, Stale
    <3>3. i = sleepNum /\ IsIn("storing")
      BY <3>1, <3>2 DEF Live, Hole
    <3>4. core # NoFile /\ file[core].phase = "storing"
      BY <1>1, <3>3, FileAssumption DEF IInv, OneCall, IsIn
    <3> QED BY <3>3, <3>4
  <2> QED BY <2>1, <2>2 DEF ListIsOfTheOpen
<1> QED BY DeviceIsSound, <1>1, PTL

\* For any number of structures and users, though numbers wrap and are shared: no report
\* stays, or is put, for a user all of whose structures are freed.
THEOREM ClosedAreForgotten == Spec => []ClosedHaveNoReports
<1>1. IInv => ClosedHaveNoReports
  BY DEF IInv
<1> QED BY DeviceIsSound, <1>1, PTL

-----------------------------------------------------------------------------
(* The replies that wait for the processes.                                *)

Slots == [Slot -> [uid : User \cup {NoUser}, msgs : Seq(Reply)]]

\* All replies in slots s end at or before byte b.
EndsBy(s, b) == \A i \in Slot : \A k \in DOMAIN s[i].msgs : s[i].msgs[k].at + s[i].msgs[k].size <= b

\* s has the replies of r, slot by slot, or less.
NoMoreThan(s, r) == \A i \in Slot : s[i].msgs \in {r[i].msgs, <<>>}

RmdInv == slot \in Slots /\ begin \in 0 .. RingSize - 1 /\ EndsBy(slot, begin)

LEMMA EmptyIsSeq == <<>> \in Seq(Reply) /\ DOMAIN <<>> = {}
  OBVIOUS

LEMMA ReplyIsInt == ASSUME NEW x \in Reply PROVE x.at \in Int /\ x.size \in Int
<1>1. x.at \in 0 .. RingSize - 1 /\ x.size \in Sizes
  BY DEF Reply
<1>2. RingSize \in Nat /\ Sizes \subseteq Nat
  BY SizeAssumption
<1>3. x.at \in Int
  BY <1>1, <1>2
<1>4. x.size \in Int
  <2>1. x.size \in Nat
    BY <1>1, <1>2, Zenon
  <2> QED BY <2>1
<1> QED BY <1>3, <1>4

\* Registering a user adds no reply.
LEMMA AddedKeeps ==
  ASSUME NEW s \in Slots, NEW c, NEW u \in User
  PROVE  LET t == Added([slot |-> s, num |-> c], u)
         IN  /\ t = [slot |-> t.slot, num |-> t.num]
             /\ t.slot \in Slots /\ NoMoreThan(t.slot, s)
<1> DEFINE t == Added([slot |-> s, num |-> c], u)
           r == [s EXCEPT ![c + 1] = [uid |-> u, msgs |-> <<>>]]
<1>1. t = [slot |-> s, num |-> c] \/ t = [slot |-> r, num |-> c + 1]
  BY DEF Added
<1>2. r \in Slots /\ NoMoreThan(r, s) /\ NoMoreThan(s, s)
  BY EmptyIsSeq DEF Slots, NoMoreThan
<1> HIDE DEF t, r
<1>3. t = [slot |-> t.slot, num |-> t.num] /\ t.slot \in {s, r}
  BY <1>1
<1>4. t.slot \in Slots /\ NoMoreThan(t.slot, s)
  BY <1>2, <1>3
<1> QED BY <1>3, <1>4 DEF t

\* Nor does forgetting those with nothing to read.
LEMMA WithoutIdleKeeps ==
  ASSUME NEW s \in Slots, NEW c
  PROVE  LET t == WithoutIdle([slot |-> s, num |-> c])
         IN  /\ t = [slot |-> t.slot, num |-> t.num]
             /\ t.slot \in Slots /\ NoMoreThan(t.slot, s)
<1> DEFINE t    == WithoutIdle([slot |-> s, num |-> c])
           idle == {i \in Slot : s[i].uid # NoUser /\ s[i].msgs = <<>>}
           r    == [i \in Slot |-> IF i \in idle THEN Vacant ELSE s[i]]
<1>1. t.slot = r /\ t = [slot |-> t.slot, num |-> t.num]
  BY DEF WithoutIdle
<1>2. r \in Slots
  BY EmptyIsSeq DEF Slots, Vacant
<1>3. NoMoreThan(r, s)
  BY DEF NoMoreThan, Vacant
<1> QED BY <1>1, <1>2, <1>3

\* What a slot holds once the reply is given: its old replies or the new one.
LEMMA GivenKeeps ==
  ASSUME NEW s \in Slots, NEW c, NEW u \in User, NEW reply \in Reply, NEW new \in BOOLEAN,
         NEW b \in Nat, EndsBy(s, b), NEW e \in Nat, b <= e, reply.at + reply.size <= e
  PROVE  LET t == Given([slot |-> s, num |-> c], u, reply, new)
         IN  t.slot \in Slots /\ EndsBy(t.slot, e)
<1> DEFINE mine == Holds([slot |-> s, num |-> c], u)
           m(i) == Lengthened(s[i].msgs, reply, new)
           r    == [i \in Slot |-> IF i \in mine THEN [uid |-> u, msgs |-> m(i)] ELSE s[i]]
           t    == Given([slot |-> s, num |-> c], u, reply, new)
<1>1. t.slot = r
  BY DEF Given
<1>2. ASSUME NEW i \in Slot PROVE m(i) \in Seq(Reply)
  BY DEF Slots, Lengthened
<1>3. r \in Slots
  BY <1>2 DEF Slots
<1>4. ASSUME NEW i \in Slot, NEW k \in DOMAIN r[i].msgs
      PROVE  r[i].msgs[k].at + r[i].msgs[k].size <= e
  <2>1. CASE i \notin mine
    <3>1. r[i] = s[i]
      BY <2>1
    <3>2. s[i].msgs[k].at + s[i].msgs[k].size <= b
      BY <3>1, <1>4 DEF EndsBy
    <3>3. s[i].msgs[k] \in Reply
      BY <3>1, <1>4 DEF Slots
    <3>4. s[i].msgs[k].at \in Int /\ s[i].msgs[k].size \in Int
      BY <3>3, ReplyIsInt
    <3> QED BY <3>1, <3>2, <3>4
  <2>2. CASE i \in mine
    <3>1. r[i].msgs = m(i)
      BY <2>2 DEF Slots
    <3>2. CASE new
      BY <3>1, <3>2, <1>4 DEF Lengthened
    <3>3. CASE ~new /\ k \in DOMAIN s[i].msgs
      <4>1. r[i].msgs[k] = s[i].msgs[k]
        BY <3>1, <3>3 DEF Slots, Lengthened
      <4>2. s[i].msgs[k].at + s[i].msgs[k].size <= b
        BY <3>3 DEF EndsBy
      <4>3. s[i].msgs[k] \in Reply
        BY <3>3 DEF Slots
      <4>4. s[i].msgs[k].at \in Int /\ s[i].msgs[k].size \in Int
        BY <4>3, ReplyIsInt
      <4> QED BY <4>1, <4>2, <4>4
    <3>4. CASE ~new /\ k \notin DOMAIN s[i].msgs
      <4>1. r[i].msgs[k] = reply
        BY <3>1, <3>4, <1>4 DEF Slots, Lengthened
      <4> QED BY <4>1
    <3> QED BY <3>2, <3>3, <3>4
  <2> QED BY <2>1, <2>2
<1> QED BY <1>1, <1>3, <1>4 DEF EndsBy

\* With fewer replies, all the more.
LEMMA FewerEndBy ==
  ASSUME NEW s \in Slots, NEW r \in Slots, NoMoreThan(s, r), NEW b, EndsBy(r, b)
  PROVE  EndsBy(s, b)
BY EmptyIsSeq DEF EndsBy, NoMoreThan

LEMMA RmdInitHolds == RmdInit => RmdInv
<1> SUFFICES ASSUME RmdInit PROVE RmdInv
  OBVIOUS
<1>1. slot \in Slots
  BY EmptyIsSeq DEF RmdInit, Nobody, Vacant, Slots
<1>2. begin \in 0 .. RingSize - 1
  BY SizeAssumption DEF RmdInit
<1>3. EndsBy(slot, begin)
  BY EmptyIsSeq DEF RmdInit, Nobody, Vacant, EndsBy
<1> QED BY <1>1, <1>2, <1>3 DEF RmdInv

\* Where the reply goes, and where the idle area begins then.
LEMMA AddReplyHolds ==
  ASSUME RmdInv, NEW u \in User, NEW n \in Sizes, AddReply(u, n)
  PROVE  RmdInv'
<1> DEFINE clear == Low(begin)
           old   == IF clear THEN Nobody ELSE [slot |-> slot, num |-> num]
           at    == IF clear \/ n > IdleSize(begin) THEN 0 ELSE begin
           full  == ~CanAdd(old)
           kept  == IF full THEN WithoutIdle(old) ELSE old
           table == Added(kept, u)
           reply == [at |-> at, size |-> n]
           low   == IF clear THEN 0 ELSE begin
<1>0. /\ n \in Nat /\ RingSize \in Nat /\ Threshold \in Nat /\ begin \in 0 .. RingSize - 1
      /\ n + 1 < Threshold /\ Threshold < RingSize
  BY SizeAssumption DEF RmdInv
<1>1. at = low /\ at \in 0 .. RingSize - 1 /\ at + n < RingSize - 1
  BY <1>0 DEF Low, IdleSize
<1>2. begin' = at + n
  <2>1. begin' = IF at + n >= RingSize - 1 THEN 0 ELSE at + n
    BY ZenonT(30) DEF AddReply
  <2> QED BY <2>1, <1>0, <1>1
<1>9. slot' = Given(table, u, reply, full).slot
  BY DEF AddReply
<1>3. begin' \in 0 .. RingSize - 1 /\ reply.at + reply.size <= begin' /\ low <= begin'
  BY <1>0, <1>1, <1>2
<1>4. old = [slot |-> old.slot, num |-> old.num] /\ old.slot \in Slots /\ EndsBy(old.slot, low)
  <2>1. CASE clear
    <3>1. old = Nobody
      BY <2>1
    <3>2. Nobody.slot \in Slots /\ EndsBy(Nobody.slot, low)
      BY EmptyIsSeq DEF Nobody, Vacant, Slots, EndsBy
    <3> QED BY <3>1, <3>2 DEF Nobody
  <2>2. CASE ~clear
    BY <2>2 DEF RmdInv
  <2> QED BY <2>1, <2>2
<1>5. kept = [slot |-> kept.slot, num |-> kept.num] /\ kept.slot \in Slots /\ EndsBy(kept.slot, low)
  <2>1. CASE full
    <3>1. /\ WithoutIdle(old) = [slot |-> WithoutIdle(old).slot, num |-> WithoutIdle(old).num]
          /\ WithoutIdle(old).slot \in Slots /\ NoMoreThan(WithoutIdle(old).slot, old.slot)
      BY <1>4, WithoutIdleKeeps
    <3>2. EndsBy(WithoutIdle(old).slot, low)
      BY <1>4, <3>1, FewerEndBy
    <3> QED BY <2>1, <3>1, <3>2
  <2>2. CASE ~full
    BY <2>2, <1>4
  <2> QED BY <2>1, <2>2
<1>6. /\ table = [slot |-> table.slot, num |-> table.num]
      /\ table.slot \in Slots /\ EndsBy(table.slot, low)
  <2>1. /\ table = [slot |-> table.slot, num |-> table.num]
        /\ table.slot \in Slots /\ NoMoreThan(table.slot, kept.slot)
    BY <1>5, AddedKeeps
  <2> QED BY <2>1, <1>5, FewerEndBy
<1>7. reply \in Reply /\ full \in BOOLEAN
  BY <1>1 DEF Reply, CanAdd
<1> HIDE DEF table, reply, full, at, low
<1>8. Given(table, u, reply, full).slot \in Slots /\ EndsBy(Given(table, u, reply, full).slot, begin')
  <2>1. low \in Nat /\ begin' \in Nat
    BY <1>0, <1>1, <1>3
  <2>2. Given([slot |-> table.slot, num |-> table.num], u, reply, full).slot \in Slots
    BY <2>1, <1>3, <1>6, <1>7, GivenKeeps
  <2>3. EndsBy(Given([slot |-> table.slot, num |-> table.num], u, reply, full).slot, begin')
    BY <2>1, <1>3, <1>6, <1>7, GivenKeeps
  <2> QED BY <2>2, <2>3, <1>6
<1>10. slot' \in Slots /\ EndsBy(slot', begin')
  BY <1>8, <1>9
<1> QED BY <1>3, <1>10 DEF RmdInv, EndsBy, Slots, Slot, Reply

LEMMA ReadHolds ==
  ASSUME RmdInv, NEW i \in Slot, Read(i)
  PROVE  RmdInv'
<1>1. slot' = [slot EXCEPT ![i].msgs = Tail(@)] /\ begin' = begin /\ slot[i].msgs # <<>>
  BY DEF Read
<1>2. slot[i].msgs \in Seq(Reply) /\ Tail(slot[i].msgs) \in Seq(Reply)
  BY <1>1 DEF RmdInv, Slots
<1>3. slot' \in Slots
  BY <1>1, <1>2 DEF RmdInv, Slots
<1>4. EndsBy(slot', begin)
  <2> SUFFICES ASSUME NEW j \in Slot, NEW k \in DOMAIN slot'[j].msgs
               PROVE  slot'[j].msgs[k].at + slot'[j].msgs[k].size <= begin
    BY DEF EndsBy
  <2>1. CASE j # i
    <3>1. slot'[j] = slot[j]
      BY <1>1, <2>1 DEF RmdInv, Slots
    <3> QED BY <3>1 DEF RmdInv, EndsBy
  <2>2. CASE j = i
    <3>1. slot'[j].msgs = Tail(slot[i].msgs)
      BY <1>1, <2>2 DEF RmdInv, Slots
    <3>2. k + 1 \in DOMAIN slot[i].msgs /\ slot'[j].msgs[k] = slot[i].msgs[k + 1]
      BY <3>1, <1>1, <1>2
    <3> QED BY <3>2 DEF RmdInv, EndsBy
  <2> QED BY <2>1, <2>2
<1> QED BY <1>1, <1>3, <1>4 DEF RmdInv, EndsBy, Slots, Slot, Reply

LEMMA RmdStepHolds == RmdInv /\ [RmdNext]_rmdVars => RmdInv'
<1> SUFFICES ASSUME RmdInv, [RmdNext]_rmdVars PROVE RmdInv'
  OBVIOUS
<1>1. ASSUME NEW u \in User, NEW n \in Sizes, AddReply(u, n) PROVE RmdInv'
  BY <1>1, AddReplyHolds
<1>2. ASSUME NEW i \in Slot, Read(i) PROVE RmdInv'
  BY <1>2, ReadHolds
<1>3. CASE UNCHANGED rmdVars
  BY <1>3 DEF rmdVars, RmdInv, EndsBy, Slots, Slot, Reply
<1> QED BY <1>1, <1>2, <1>3 DEF RmdNext

-----------------------------------------------------------------------------
(* The order of the replies, until the table fills up or the buffer is     *)
(* cleared with replies in it: the users fill the slots from the first on, *)
(* each in one, which holds the replies that user is owed.                 *)

Filled(s, c) ==
    /\ c \in 0 .. MaxUser
    /\ \A i \in Slot : s[i].uid # NoUser <=> i <= c
    /\ \A i, j \in Slot : s[i].uid # NoUser /\ s[i].uid = s[j].uid => i = j

\* The slots s hold what the users are owed.
Repaid(s, o) ==
    \A u \in User : /\ \A i \in Slot : s[i].uid = u => s[i].msgs = o[u]
                    /\ (\A i \in Slot : s[i].uid # u) => o[u] = <<>>

OrderInv == spoilt = {} => Filled(slot, num) /\ Repaid(slot, owed)

Owes(o) == o \in [User -> Seq(Reply)]

\* A user that is registered in a table with room gets one slot, with what is owed.
LEMMA AddedIsFilled ==
  ASSUME NEW s \in Slots, NEW c, Filled(s, c), c < MaxUser, NEW u \in User,
         NEW o, Owes(o), Repaid(s, o)
  PROVE  LET t == Added([slot |-> s, num |-> c], u)
         IN  /\ t = [slot |-> t.slot, num |-> t.num] /\ t.slot \in Slots
             /\ Filled(t.slot, t.num) /\ Repaid(t.slot, o)
             /\ \E i \in Slot : t.slot[i].uid = u
<1> DEFINE t == Added([slot |-> s, num |-> c], u)
           r == [s EXCEPT ![c + 1] = [uid |-> u, msgs |-> <<>>]]
<1>0. u # NoUser /\ MaxUser \in Nat /\ c \in 0 .. MaxUser
  BY UserAssumption DEF Filled
<1>1. CASE \E i \in Slot : s[i].uid = u
  <2>1. t = [slot |-> s, num |-> c]
    BY <1>1 DEF Added, Holds
  <2> QED BY <1>1, <2>1
<1>2. CASE \A i \in Slot : s[i].uid # u
  <2>1. t = [slot |-> r, num |-> c + 1]
    BY <1>2 DEF Added, Holds, CanAdd
  <2>2. c + 1 \in Slot /\ c + 1 \in 0 .. MaxUser
    BY <1>0 DEF Slot
  <2>3. /\ r \in Slots
        /\ \A i \in Slot : r[i] = IF i = c + 1 THEN [uid |-> u, msgs |-> <<>>] ELSE s[i]
    BY <2>2, EmptyIsSeq DEF Slots
  <2> HIDE DEF r
  <2>4. \A i \in Slot : r[i].uid = (IF i = c + 1 THEN u ELSE s[i].uid)
                        /\ r[i].msgs = (IF i = c + 1 THEN <<>> ELSE s[i].msgs)
    BY <2>3
  <2>5. \A i \in Slot : i <= c + 1 <=> i <= c \/ i = c + 1
    BY <1>0 DEF Slot
  <2>6. Filled(r, c + 1)
    BY <1>0, <1>2, <2>2, <2>4, <2>5 DEF Filled
  <2>7. Repaid(r, o)
    <3>1. s[c + 1].uid = NoUser /\ o[u] = <<>>
      BY <1>0, <1>2, <2>2, ~(c + 1 <= c) DEF Filled, Repaid
    <3>2. ASSUME NEW v \in User, NEW i \in Slot, r[i].uid = v PROVE r[i].msgs = o[v]
      BY <2>4, <3>1, <3>2 DEF Repaid
    <3>3. ASSUME NEW v \in User, \A i \in Slot : r[i].uid # v PROVE o[v] = <<>>
      <4>1. v # u
        BY <2>2, <2>4, <3>3
      <4>2. \A i \in Slot : s[i].uid # v
        BY <2>4, <3>1, <3>3, UserAssumption
      <4> QED BY <4>2 DEF Repaid
    <3> QED BY <3>2, <3>3 DEF Repaid
  <2>8. t.slot = r /\ t.num = c + 1
    BY <2>1
  <2> HIDE DEF t
  <2>9. t = [slot |-> t.slot, num |-> t.num] /\ t.slot \in Slots
        /\ Filled(t.slot, t.num) /\ Repaid(t.slot, o) /\ \E i \in Slot : t.slot[i].uid = u
    BY <2>1, <2>2, <2>3, <2>4, <2>6, <2>7, <2>8
  <2> QED BY <2>9 DEF t
<1> QED BY <1>1, <1>2

\* The reply goes to the end of what its user is owed.
LEMMA GivenIsOwed ==
  ASSUME NEW s \in Slots, NEW c, Filled(s, c), NEW u \in User, \E i \in Slot : s[i].uid = u,
         NEW reply \in Reply, NEW o, Owes(o), Repaid(s, o)
  PROVE  LET t == Given([slot |-> s, num |-> c], u, reply, FALSE)
         IN  /\ Filled(t.slot, t.num)
             /\ Repaid(t.slot, [o EXCEPT ![u] = Append(@, reply)])
<1> DEFINE t == Given([slot |-> s, num |-> c], u, reply, FALSE)
           p == [o EXCEPT ![u] = Append(@, reply)]
<1>1. /\ t.num = c
      /\ \A i \in Slot : t.slot[i] = IF s[i].uid = u
                                     THEN [uid |-> u, msgs |-> Append(s[i].msgs, reply)] ELSE s[i]
  BY DEF Given, Lengthened, Holds
<1> HIDE DEF t
<1>2. \A i \in Slot : /\ t.slot[i].uid = s[i].uid
                      /\ s[i].uid = u => t.slot[i].msgs = Append(s[i].msgs, reply)
                      /\ s[i].uid # u => t.slot[i].msgs = s[i].msgs
  <2> SUFFICES ASSUME NEW i \in Slot
               PROVE  /\ t.slot[i].uid = s[i].uid
                      /\ s[i].uid = u => t.slot[i].msgs = Append(s[i].msgs, reply)
                      /\ s[i].uid # u => t.slot[i].msgs = s[i].msgs
    OBVIOUS
  <2>1. CASE s[i].uid = u
    <3> DEFINE e == [uid |-> u, msgs |-> Append(s[i].msgs, reply)]
    <3>1. e.uid = u /\ e.msgs = Append(s[i].msgs, reply)
      OBVIOUS
    <3>2. t.slot[i] = e
      BY <1>1, <2>1
    <3> HIDE DEF e
    <3> QED BY <2>1, <3>1, <3>2, Zenon
  <2>2. CASE s[i].uid # u
    <3>1. t.slot[i] = s[i]
      BY <1>1, <2>2
    <3> QED BY <2>2, <3>1, Zenon
  <2> QED BY <2>1, <2>2
<1>3. p[u] = Append(o[u], reply) /\ \A v \in User : v # u => p[v] = o[v]
  BY DEF Owes
<1> HIDE DEF p
<1>4. Filled(t.slot, t.num)
  BY <1>1, <1>2 DEF Filled
<1>5. Repaid(t.slot, p)
  <2>1. ASSUME NEW v \in User, NEW i \in Slot, t.slot[i].uid = v PROVE t.slot[i].msgs = p[v]
    <3>1. s[i].uid = v /\ s[i].msgs = o[v]
      BY <1>2, <2>1 DEF Repaid
    <3> QED BY <1>2, <1>3, <3>1, Zenon
  <2>2. ASSUME NEW v \in User, \A i \in Slot : t.slot[i].uid # v PROVE p[v] = <<>>
    <3>1. \A i \in Slot : s[i].uid # v
      BY <1>2, <2>2, Zenon
    <3>2. v # u /\ o[v] = <<>>
      BY <3>1, Zenon DEF Repaid
    <3> QED BY <1>3, <3>2, Zenon
  <2> QED BY <2>1, <2>2 DEF Repaid
<1> QED BY <1>4, <1>5 DEF t, p

LEMMA AddReplyRepays ==
  ASSUME RmdInv, Owes(owed), OrderInv, NEW u \in User, NEW n \in Sizes, AddReply(u, n)
  PROVE  OrderInv' /\ Owes(owed')
<1> DEFINE clear == Low(begin)
           old   == IF clear THEN Nobody ELSE [slot |-> slot, num |-> num]
           at    == IF clear \/ n > IdleSize(begin) THEN 0 ELSE begin
           full  == ~CanAdd(old)
           table == Added(IF full THEN WithoutIdle(old) ELSE old, u)
           reply == [at |-> at, size |-> n]
<1>1. /\ slot' = Given(table, u, reply, full).slot /\ num' = Given(table, u, reply, full).num
      /\ owed' = [owed EXCEPT ![u] = Append(@, reply)]
  BY DEF AddReply
<1>2. reply \in Reply
  BY SizeAssumption DEF RmdInv, Reply
<1>3. Owes(owed')
  BY <1>1, <1>2 DEF Owes
<1>4. ASSUME spoilt' = {} PROVE Filled(slot', num') /\ Repaid(slot', owed')
  <2>1. spoilt = {} /\ ~full /\ (clear => \A v \in User : owed[v] = <<>>)
    <3>1. spoilt' = spoilt \cup {h \in Hazard :
             \/ h = "buffer cleared" /\ {v \in User : clear /\ owed[v] # <<>>} # {}
             \/ h = "table full" /\ full}
      BY DEF AddReply
    <3>2. "buffer cleared" \in Hazard /\ "table full" \in Hazard
      BY DEF Hazard
    <3> HIDE DEF clear, full
    <3> QED BY <1>4, <3>1, <3>2
  <2>2. Filled(slot, num) /\ Repaid(slot, owed)
    BY <2>1 DEF OrderInv
  <2>3. /\ old = [slot |-> old.slot, num |-> old.num] /\ old.slot \in Slots
        /\ Filled(old.slot, old.num) /\ Repaid(old.slot, owed)
    <3>1. CASE clear
      <4>1. old.slot = [i \in Slot |-> Vacant] /\ old.num = 0 /\ old = [slot |-> old.slot, num |-> old.num]
        BY <3>1 DEF Nobody
      <4> HIDE DEF old
      <4>2. \A i \in Slot : old.slot[i].uid = NoUser /\ old.slot[i].msgs = <<>>
        BY <4>1 DEF Vacant
      <4>3. Filled(old.slot, old.num)
        BY <4>1, <4>2, UserAssumption DEF Filled, Slot
      <4>4. Repaid(old.slot, owed)
        BY <2>1, <3>1, <4>2, UserAssumption DEF Repaid
      <4>5. old.slot \in Slots
        BY <4>1, EmptyIsSeq DEF Slots, Vacant
      <4> QED BY <4>1, <4>3, <4>4, <4>5
    <3>2. CASE ~clear
      BY <2>2, <3>2 DEF RmdInv
    <3> QED BY <3>1, <3>2
  <2>4. old.num < MaxUser
    BY <2>1 DEF CanAdd
  <2>5. table = Added(old, u)
    BY <2>1
  <2> HIDE DEF old, reply, full, clear
  <2>6. /\ table = [slot |-> table.slot, num |-> table.num] /\ table.slot \in Slots
        /\ Filled(table.slot, table.num) /\ Repaid(table.slot, owed)
        /\ \E i \in Slot : table.slot[i].uid = u
    <3> DEFINE s == old.slot
               c == old.num
    <3>1. old = [slot |-> s, num |-> c] /\ s \in Slots /\ Filled(s, c) /\ Repaid(s, owed) /\ c < MaxUser
      BY <2>3, <2>4
    <3> HIDE DEF s, c
    <3>2. LET t == Added([slot |-> s, num |-> c], u)
          IN  /\ t = [slot |-> t.slot, num |-> t.num] /\ t.slot \in Slots
              /\ Filled(t.slot, t.num) /\ Repaid(t.slot, owed)
              /\ \E i \in Slot : t.slot[i].uid = u
      BY <3>1, AddedIsFilled
    <3> QED BY <2>5, <3>1, <3>2
  <2> HIDE DEF table
  <2>7. /\ Filled(Given(table, u, reply, FALSE).slot, Given(table, u, reply, FALSE).num)
        /\ Repaid(Given(table, u, reply, FALSE).slot, [owed EXCEPT ![u] = Append(@, reply)])
    <3> DEFINE s == table.slot
               c == table.num
    <3>1. /\ table = [slot |-> s, num |-> c] /\ s \in Slots /\ Filled(s, c) /\ Repaid(s, owed)
          /\ \E i \in Slot : s[i].uid = u
      BY <2>6
    <3> HIDE DEF s, c
    <3>2. LET t == Given([slot |-> s, num |-> c], u, reply, FALSE)
          IN  /\ Filled(t.slot, t.num)
              /\ Repaid(t.slot, [owed EXCEPT ![u] = Append(@, reply)])
      BY <1>2, <3>1, GivenIsOwed
    <3> QED BY <3>1, <3>2
  <2>8. slot' = Given(table, u, reply, FALSE).slot /\ num' = Given(table, u, reply, FALSE).num
    BY <1>1, <2>1 DEF full
  <2> QED BY <1>1, <2>7, <2>8
<1> QED BY <1>3, <1>4 DEF OrderInv

LEMMA ReadRepays ==
  ASSUME RmdInv, Owes(owed), OrderInv, NEW i \in Slot, Read(i)
  PROVE  OrderInv' /\ Owes(owed')
<1> DEFINE u == slot[i].uid
<1>1. /\ slot' = [slot EXCEPT ![i].msgs = Tail(@)] /\ num' = num /\ spoilt' = spoilt
      /\ owed' = [owed EXCEPT ![u] = IF @ = <<>> THEN @ ELSE Tail(@)]
      /\ u # NoUser /\ slot[i].msgs # <<>>
  BY DEF Read
<1>2. u \in User
  BY <1>1 DEF RmdInv, Slots
<1> HIDE DEF u
<1>3. Owes(owed')
  BY <1>1, <1>2 DEF Owes
<1>4. ASSUME spoilt = {} PROVE Filled(slot', num') /\ Repaid(slot', owed')
  <2>1. Filled(slot, num) /\ Repaid(slot, owed)
    BY <1>4 DEF OrderInv
  <2>2. \A j \in Slot : /\ slot'[j].uid = slot[j].uid
                        /\ slot'[j].msgs = IF j = i THEN Tail(slot[i].msgs) ELSE slot[j].msgs
    BY <1>1 DEF RmdInv, Slots
  <2>3. Filled(slot', num')
    BY <1>1, <2>1, <2>2 DEF Filled
  <2>4. owed[u] = slot[i].msgs
    BY <1>2, <2>1 DEF Repaid, u
  <2>5. owed'[u] = Tail(slot[i].msgs) /\ \A v \in User : v # u => owed'[v] = owed[v]
    BY <1>1, <1>2, <2>4 DEF Owes
  <2>6. \A j \in Slot : slot[j].uid = u => j = i
    BY <1>1, <2>1 DEF Filled, u
  <2>7. Repaid(slot', owed')
    BY <2>1, <2>2, <2>5, <2>6 DEF Repaid, u
  <2> QED BY <2>3, <2>7
<1> QED BY <1>1, <1>3, <1>4 DEF OrderInv

LEMMA OrderHolds == RmdSpec => [](RmdInv /\ Owes(owed) /\ OrderInv)
<1>1. RmdInit => RmdInv /\ Owes(owed) /\ OrderInv
  <2> SUFFICES ASSUME RmdInit PROVE Owes(owed) /\ Filled(slot, num) /\ Repaid(slot, owed)
    BY RmdInitHolds DEF OrderInv
  <2>1. \A i \in Slot : slot[i].uid = NoUser /\ slot[i].msgs = <<>>
    BY DEF RmdInit, Nobody, Vacant
  <2>2. Filled(slot, num)
    BY <2>1, UserAssumption DEF RmdInit, Filled, Slot
  <2>3. Repaid(slot, owed)
    BY <2>1, UserAssumption DEF RmdInit, Repaid
  <2> QED BY <2>2, <2>3, EmptyIsSeq DEF RmdInit, Owes
<1>2. RmdInv /\ Owes(owed) /\ OrderInv /\ [RmdNext]_rmdVars => (RmdInv /\ Owes(owed) /\ OrderInv)'
  <2> SUFFICES ASSUME RmdInv, Owes(owed), OrderInv, [RmdNext]_rmdVars PROVE Owes(owed') /\ OrderInv'
    BY RmdStepHolds DEF Owes, Reply
  <2>1. CASE RmdNext
    BY <2>1, AddReplyRepays, ReadRepays DEF RmdNext
  <2>2. CASE UNCHANGED rmdVars
    BY <2>2 DEF rmdVars, OrderInv, Owes, Filled, Repaid
  <2> QED BY <2>1, <2>2
<1> QED BY <1>1, <1>2, PTL DEF RmdSpec

\* No reply that waits is overwritten by a later one, whatever happened to the table of
\* users before (sfAddAUserMsgForRmd, Mqueue.c:693-792).
THEOREM WaitingRepliesAreKept == RmdSpec => []NoReplyOverwritten
<1>1. RmdInv => NoReplyOverwritten
  BY DEF RmdInv, EndsBy, NoReplyOverwritten
<1> QED BY <1>1, RmdInitHolds, RmdStepHolds, PTL DEF RmdSpec

\* Until a hazard has happened, each process gets the answers to its requests, all of them
\* and in order, whatever the order of requests and reads (Mqueue.c:693-830).
THEOREM RepliesStayInOrder == RmdSpec => []RepliesInOrder
<1>1. RmdInv /\ Owes(owed) /\ OrderInv => RepliesInOrder
  <2> SUFFICES ASSUME RmdInv, Owes(owed), OrderInv, spoilt = {}, NEW u \in User
               PROVE  IF owed[u] = <<>> THEN Pending(u) = {}
                      ELSE \E i \in Slot : Pending(u) = {i} /\ slot[i].msgs = owed[u]
    BY DEF RepliesInOrder
  <2>1. Filled(slot, num) /\ Repaid(slot, owed) /\ u # NoUser
    BY UserAssumption DEF OrderInv
  <2>2. CASE owed[u] = <<>>
    BY <2>1, <2>2 DEF Repaid, Pending
  <2>3. CASE owed[u] # <<>>
    <3>1. PICK i \in Slot : slot[i].uid = u /\ slot[i].msgs = owed[u]
      BY <2>1, <2>3 DEF Repaid
    <3>2. \A j \in Slot : slot[j].uid = u => j = i
      BY <2>1, <3>1 DEF Filled
    <3>3. Pending(u) = {i}
      BY <2>3, <3>1, <3>2 DEF Pending
    <3> QED BY <2>3, <3>1, <3>3
  <2> QED BY <2>2, <2>3
<1> QED BY <1>1, OrderHolds, PTL
=============================================================================
