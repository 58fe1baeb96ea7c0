# A TLA+ model of the NV driver

`NV_Driver` is a Linux kernel module for IP cameras on HiSilicon chips. Applications
open one device file, write requests (turn the pan-tilt, switch the infrared filter,
subscribe to reports) and read replies and reports. The repository holds several
generations; `NV_Driver_G3` is the current one and the one that is modelled. Line
numbers below are of its files.

## The system

```
 application ──write──▶ LinuxAPI ──▶ MsgCenter ──▶ CTA modules (buttons, PIR, LDR, ...) ──▶ HAL
      ▲                    ▲            │ replies       │ reports            ▲
      │                    │ wake-up    ▼               ▼                    │ handlers
      └─────read────── LinuxAPI ◀──── Mqueue ◀──────────┘     HAL/PeriodEvent (two timers)
```

Three kinds of context run this code, on one core (HI3507, HI3518) and without a single
lock: system calls; the softirq of a kernel timer, which may preempt them; and hardware
interrupts (pins, the converter, a timer every millisecond, the beat of the motors), which
may preempt both. Everything hard in this driver comes from there, from two event tables
of eight slots that everybody shares, and from the hand-written ring buffer.

| component | state | operations | what makes it correct |
|---|---|---|---|
| `HAL/PeriodEvent.c` | two tables of eight slots (handler, period, count) | register, cancel, pause, resume; one scan per timer | a called slot holds a handler; a registration is not lost; an event fires |
| `Tool/Mqueue.c`, reports | ring of 2048 bytes, linked list of nodes with a mask of readers, four subscriber slots | subscribe, unsubscribe, report, read, eviction | each subscriber gets every report, in order; no unread byte is overwritten; only late readers are dropped |
| `Tool/Mqueue.c`, replies | buffer of 1920 bytes, seven process slots with a list each | add a reply, read it, clear | each process gets its replies; no waiting reply is overwritten |
| `LinuxAPI.c` | list of wait queues, user numbers | open, close, read, write, poll, wake all | no lost wake-up; the list holds what is open; identities are distinct |
| `Tool/MsgCenter.c`, `MsgConf.c` | the pending error code, the table of modules | process a request, reply, report | a request gets one true reply, or its error is reported |
| `CTA/Button.c` | a status word per button, edge configuration | edge interrupt, debouncing, report, status | a button at rest was reported where it rests; reports alternate |
| `CTA/PIR.c` | the interrupt's enable, the dead time | trigger, report, release | no report within the dead time; the sensor comes back |
| `CTA/StateLi.c` | the list of lights that blink | on, off, blink; the interrupt that walks the list | off is dark; each light shows what was asked |
| `CTA/PanTilt.c` | status bits, pools of steps, coordinates, presets, path | search of zero, move, stop, preset, import, cruise; the beat | the position is true; every move, search and cruise ends |
| `CTA/LDR.c` | window of averages, limits, judgement | sample, judge, set sensitivity | hysteresis: no flicker; what stays light or dark is recognised |
| `CTA/IfrFilter.c`, `InfraredLi.c` | pins, filter position | switch, delayed motor-off | filter, lamp and judgement agree; the motor rests; its coils are not opposed |
| `CTA/TempMonitor.c`, `CoolFan.c`, `Tool/NTC.c`, `HAL/HI3518/ADC.c`, `PWM.c` | converter's busy flag, last temperature, the fan's export, one structure of modulator settings | convert, look up, drive | the fan follows the heat; two users of the modulator do not mix |
| `CTA/DoorBell.c`, `DoorLock.c`, `DoubLens.c`, `AudioPlug.c`, `EAS.c` | pins | set, get, release | an answer tells what was asked for; the bell is released |
| other `CTA` files, `HAL` chips, `Pro` boards | pins and registers | set, get | thin layers |

The hazards of each are listed, with their lines, under `hazards` in `PROJECT.json`.

## The modules

| module | models | runs |
|---|---|---|
| `PeriodEvent` | `HAL/PeriodEvent.c` with the interrupts and handlers that use it | `events_button`, `events_pir` |
| `EventTable`, `PeriodEventTable` | what it promises: a bag of handlers with room for so many; and the refinement | `events_button`; used by `sensors`, `devices` |
| `MqueueSub` | the subscribers' half of `Tool/Mqueue.c` | `reports` |
| `MqueueRmd` | the replies' half | `replies` |
| `LinuxAPI` | the device file and the wake-up | `device`, `device_eleventh` |
| `Button`, `PIR`, `Sensors` | `CTA/Button.c`, `CTA/PIR.c`, and both over one table and one group of pins | `sensors` |
| `StateLi` | `CTA/StateLi.c` | `lights` |
| `PanTilt`, `Cruise` | the motors and the cruise of `CTA/PanTilt.c` | `pantilt` |
| `LDR`, `Light` | the judgement, and the filter, of `CTA/LDR.c` | `light`; `LDR` also in `daynight` |
| `IfrFilter`, `DayNight` | `CTA/IfrFilter.c`, and its requests, the light sensor and the lamp together | `daynight` |
| `NTC`, `Fan` | the temperature table; the converter, the modulator, fan and night lamp of the board 3518C_D11 | `devices` |
| `MsgCenter`, `Devices` | the dispatch of `Tool/MsgCenter.c` and `MsgConf.c` with the small devices; a board of them | `devices` |
| `PeriodEvent_proofs`, `MqueueSub_proofs`, `LinuxAPI_proofs` (with the replies), `Sensors_proofs`, `StateLi_proofs`, `DayNight_proofs` (with the light sensor), `Devices_proofs`, `Cruise_proofs` | theorems | |

`MC*` modules instantiate them for TLC. A property's mutant is an operator defined beside
the code it imitates, such as `SoftCheckCountOnly`; the specifications do not use it.

### PeriodEvent, EventTable

`table[m][k]` is a slot of `sPE_RegisterIfo_UNINT` or `_INT`; `at[m]` is where a scan
stands and is not `Idle` exactly while its bit of `sPEState` is set. A call made by a task
or by the kernel timer is four steps, the search (`FindFree`, `FindHolder`, kept in `call`) and
the three stores (`CallStore`), because an interrupt may come in between; in
interrupt context it is one step. `MayRun` is the preemption order. Handlers differ by
what they do to the tables: `OneShot` handlers cancel themselves, and may register
`Follow[h]` (the button's debounce handler registers its reporter, the PIR report the
release of the interrupt). A handler of the INT table may run several times before it
cancels itself, as the debounce handler does, and may register before its last run;
it registers one event in a run, at most. The scan of the kernel timer is split where the code tests the
handler (`SoftCheck`, lines 336-341), reads it again to call it (`SoftCallHandler`, 342) and
resets the count (`SoftReturn`, 343).

`events_button` (button and light sensor) and `events_pir` (PIR sensor and state light) are two
products with two slots per table, periods 1 and 2 and three handlers each: registered twice
they fill a table, and two slots suffice for one being stolen.
`armed` and `raced` are history: the acknowledged registrations, and the handlers whose
slot another context overwrote. `ArmedIsInTable` says that this is the only way a
registration disappears. Fairness (`events_pir`): the scan of an interrupt ends (`WF`), and
interrupts leave the kernel timer time to run (`SF`, since they may preempt it again and
again).

`EventTable` is what the peripherals' modules see of this: `events[h]` slots hold handler
`h`, together at most `Cap`; `With` refuses when there is no room, `Without` takes one away.
`TablesAreBags` shows that each of the two tables implements it (by `INSTANCE ... WITH`),
except for a call whose slot an interrupt has taken or freed between its search and its
store of the handler. The two stores that follow in a cancel reach an event that an interrupt
has registered there meanwhile: it stays in its bag, with period 0. That handlers are called again and again is `EventsFire`, which is the reason for
the fairness the peripherals' modules assume of their handlers.

### MqueueSub

One record `q` holds the manage header (`first`, `begin`, `end`, `size`, `slot`, `num` for
`aSub1stNode`, `aSubIdleBegin`, `aSubIdleEnd`, `aSubIdleSize`, `aSubUserInfo`,
`aSubUserNum`) and `mem`, the nodes that are whole in the ring. Copying a report over part
of a node removes it from `mem`: following a pointer to it is the end of the model
(`crashed`). Payloads are left out; a node is its size, its successor and its mask.
Subscribing is two steps, the slot and then the count. Unsubscribing loads the leaver's oldest
report, vacates the slot, and walks and stores what is left of the header; with nobody left
it forgets the list (`UnsubscribeLast`). A read finds the oldest report, loads its mask,
stores it without the reader and loads `paNext` (`ReadLoad`), stores that, tests whether it is
the last reader of the list's head, makes the next node the head, and tests whether there
is one. What remains of a call that frees reports is in `freeing`: the stores of head, begin,
end and size one by one (`ForgetFirst` to `ForgetSize`), or of the end, the computation of the
size and its store (`AdvanceEnd` to `AdvanceSize`). Reports may come between any two steps.

Some accesses share a step, because a report between them does what it does before or after
them, or is one of the hazards below anyway. In the walk (424-433) a report that drops nobody
is linked to the end and walked too; one that drops somebody is *change preempted*, and so it
is within the stores of lines 418-420 and 867-883. With nobody left (464-470) a report finds
`aSubUserNum` 0 and writes begin and size only. Line 244 copies and loads the mask in one
step, since payloads are left out; the store of the mask and the load of `paNext` are one, a
report in between being linked to a node whose `paNext` is read after it. The correction of
the end at the ring's edge (263-267) is in its step, any report there being *stores preempted*.

`owed` is history: for each subscriber the reports made since it subscribed and not yet
read. `ReportsInOrder` says that what the slot's list will deliver is exactly that. The
code breaks this in the ways named by `Hazard` and recorded in `spoilt`; the model stops
there unless `Followed` names the hazard. With `Followed = {}` the run `reports` shows that
nothing else breaks it at the granularity of these steps. Each of the five, put into
`Followed`, gives a behaviour that violates what `CommunicateProtocol.md:23` says of reports.
Two are recorded also of some reports that do no harm: those of a preempted read, and those of
preempted stores. The hazards:

- *read preempted* (`Caught`): the report is linked behind a node whose end-of-list pointer a
  read has just loaded (lines 245-246, and again 250-251); or the reader is dropped before it
  has left the mask; or somebody else is, between the load and the store of the mask (244); or
  the reader has left the oldest node's mask and not freed it when the buffer is crowded, so
  that nobody is dropped and too little is freed, or the node is freed twice (248-251). That is
  recorded also when the report then overwrites the oldest node itself and the model ends there.
- *change preempted*: a report that drops somebody comes while a user subscribes or
  unsubscribes. A leaver whose slot is vacant is dropped, and counted, a second time
  (lines 1004-1016: `aSubUserNum` goes below zero); the table is cleared under a user that
  is not counted yet (line 1073); a node that `delSubUser` has in hand is overwritten.
- *stores preempted*: a report comes while a call that frees reports has the header half
  stored. It need not drop anybody. Say B has read R1, and A, the only one who had not, leaves:
  the walk ends with nobody left to read R1. R2 comes before line 458 and is linked behind R1.
  Lines 458-461 then make the whole ring idle, so that R2 is unread and idle, and R3 becomes the
  head without being linked behind it: B loses R3. The same happens in `sfGetAUserMsg` between
  line 252 and lines 253-258; and a size computed from the old begin (268-290, 445-456) and
  stored after the report has moved it says that there is room where there is none.
- *slots sparse*: after a departure the occupied slots are not the lowest `num` ones, which
  lines 613-615 and 647-651 take for granted.
- *reports orphaned*: `sfMsgQueue_delSubUser` makes the leaver's position the head of the
  list although another subscriber is behind it (lines 424-432).

The run has three users and slots, a ring of 14 units, reports of 1 and 3 and the eviction
threshold at 12: the ring wraps exactly at its edge and with a unit or two left over, and
fills up; behind a report of one unit there is room for one of three that is not its last.
`SizeAssumption` says that `MaxUser + 1` of the longest reports, taken as 2 units at least,
fit below the threshold. It is needed: evictions drop readers one by one, and each time one
more report is written before the next. The 2 units are for the report that ends at the edge
of a ring of tiny reports. In the driver it reads 5n <= 384, and reports take about 24 bytes.

### MqueueRmd

`slot`, `num`, `begin` are `aRmdUserInfo`, `aRmdUserNum`, `aRmdIdleBegin`. The idle area
always ends at the end of the buffer. Requests are served by system calls, so a call is one
step. `owed` is the history of replies promised. Again the hazards *buffer cleared* (with
replies of others in it) and *table full* end the model unless followed. The run `replies`
has four processes for three slots; a history of unread replies is bounded by the buffer
being cleared. The branches of `sfClearStubbornUser` at lines 1113-1252 are compiled out.

### LinuxAPI

`file[f]` is a `mUserInfo` with the read call on it; `sleepQueue`, `sleepNum` are
`sSleepQueue`, `sSleepQueueNum`, and `opens % UidSpace` is `sModuleCounts`. A system call
keeps the core (`core`) until it sleeps or returns; a report may come between any two of
its steps. The queue is here the number of messages per user. `OpenStore1` and `OpenStore2`
are the two stores of line 202: `CountFirst` says which the build does first. The runs take
TRUE, the order of the committed `NV_Driver.ko` (in its `___onOpen` the byte store of the
count precedes the word store of the pointer). Where the list has grown beyond its array,
or a NULL pointer would be followed, the model goes no further.

`Cap`, `UidSpace`, `MaxOpens`, `MaxMsg` are scaled down: 10 places to 2 or 3, 65536 user
numbers to one more than `MaxOpens`, the bound on opens. `MaxMsg = 1` message of each kind is
enough, since only presence is tested. Fairness, for `ReaderReturns`: a system call that has
the core proceeds and a runnable task gets the core in the end (`SF` on its steps), which
is what the Linux scheduler provides. A read call that eviction has left without messages
may sleep for ever: nothing tells its process that it is no subscriber any more.

### Button, PIR, Sensors

`level` is the pin, `awaits` the level its interrupt is configured for (the driver's "edges"
are levels, `HAL/HI3518/PIN.c`), `status[b]` the word of `sdefButton_Status` with the bits
that matter. The interrupt notes the first edge and starts the debounce handler; the
debounce handler counts quiet calls, judges, and registers the reporter; the reporter walks
the buttons with a load and a store of each word (`at`, `seen`), which the interrupts
preempt. `flaws` is history: per button the reasons for which a promise does not hold, each
a race of the code (a store that undid an edge, an edge judged early, replaced, refused by
the table, or taken back), cleared when it no longer matters. The properties say that these
are the only ones. In `PIR`, `trigger` is the pending report, `enabled` the interrupt,
`following` the report handler between leaving the table and registering the release.

`Sensors` composes them as the boards do: `board` is two buttons, a PIR sensor, or one
button and a PIR sensor on one group of pins, where every interrupt of the group calls both
handlers. They share one table with the error reports of bad requests, so that it fills up.
Bounds: two slots, two buttons, four moves of the contacts (two presses, or one with
bouncing), one quiet call instead of five (the count only delays). Fairness is what
`EventsFire` gives: weak for a handler that runs, strong for one that others delay.

### StateLi

A request is a list of steps still to do (`call.todo`): pause the timer, move the entries
behind the light up, shorten the list, resume, set the pin; or set the two times one by one;
or append. The interrupt (`LoopProcessing`) comes between any two unless `paused`. `asked` is
history. The array of the list has one entry for each light, and nothing compares `sStaLi_Num`
with its size: `EntriesFit` says that it is enough. Two lights and the times 0 and 2 give every
way of being lit; a count of two is enough to be caught half way. Fairness: the interrupt comes
again and again (`SF`, since it is paused in between), and a request that has begun goes on.

### PanTilt, Cruise

`m` is the machine of the status word: per axis the flags and the steps left (`pool`), the
coordinate (`cur`) and the range; the common beat with its handler (search of zero, of the
range, running), the slowing ratio and the rest before turning back. `phys` is where the
head really is, in phases of a step. A beat is one step, since nothing preempts it; a
request to stop is three (`stop`), since the beat comes between its load and its store of
the flags (1133). `Dead` are limit switches that never close. `Cruise` adds presets, the
path, import and the cruise's handler; `plan` says whether a behaviour tries requests of the
motors or of the cruise, which keeps the two apart.

Bounds: axes of two steps of two phases (four in the code), a search given up after three, a
rest of one beat, paths of three places, two moves, four requests of the cruise. They make
every move hit a limit, reach its end, be stopped and be slowed; one preset that is brought in
lies behind the range. `ReturnsToStart` is about
F05 only: see the deviations. Fairness: timer 3 interrupts while it is on, a preempted stop
goes on, the kernel timer calls the cruise's handler.

### LDR, Light

`LDR` holds the limits and the judgement as operators; `Light` the conversion that ended
(`converted`), the window (`buf`), the last average (`ori`) and the count of breaks. A
sample is averaged as `(8v + b1 + b2 + b3 + b4 + 4 b5) / 16`; samples 100 away from the last
average count as breaks, and the fifth in a row replaces the window. Setting the sensitivity
is two steps (`setting`), one for each limit. The run takes samples of both sides of the
limits 100 and 32 by one step and by far, the ends and the middle of the scale, and two
changes of the light. Fairness: the kernel timer calls the handler.

### IfrFilter, DayNight

The filter's drivers B (busy waits), C and D (coils that a later event turns off). `pin` and
`blade` are the pins and where the filter is, which the driver does not know; `slot` is here
the table with its counts, because how long is at issue: two slots, `Shutdown` of two scans.
`setting` is per process how far its `SetStatus` is. `DayNight` adds the requests of two
processes with the second's sleep in between (`OptInfraredFilter` first passes, sleeps and
then blocks for the first two requests, `CutCount`), the mode that a request makes manual,
the light sensor's judgement in the kernel timer, the lamp, and the error reports that
compete for the table. A request is preempted between ending the automatic mode and looking
where the filter is, and between any two pins. `muddled` and `refused` are history. Three requests are enough for
one to overtake another and for both to be followed; fairness as above.

### NTC, Fan, MsgCenter, Devices

`NTC` has the temperature table in full. `Converted` is the driver's search and
interpolation, `Meant` the temperature on the line between two entries; `MCDevices` assumes,
and TLC checks for every code, that above freezing a reading is too high by less than two
degrees and never too low, and that below freezing, where the table's `char` is unsigned, and
beyond the table, the reading is one that drives the fan at its most.

`Fan` is the fan and the lamp of the board 3518C_D11. The converter: `busy` is the flag the
driver keeps, set after the conversion is started; `converts` is what the converter does;
`blocks` counts refusals. The kernel timer's handler is three steps (`Check`, `SetBusy`,
`Drive`), which only the converter's interrupt preempts. A request that sets the lamp is
preempted by that handler: its steps (`SetInfo`, `Load`, `Write`, `TurnOn`) follow the
accesses to `pInfo`, the one structure through which fan and lamp set the modulator. Line
221 of `PWM.c` loads two members of it, in the order `NumFirst`, which is TRUE as in the
committed `NV_Driver.ko` (`sfPWM_Start` loads the byte of the channel before the word of
the width). With FALSE the fan could be given the lamp's width. `mixed` is history: the
lamp's request was interleaved with the fan's handler, and the lamp may then have the fan's
width or none.

`MsgCenter` is the dispatch (`Receive`, with the modules that `MsgConf.c` loads for a
board), the error report in two steps, and the requests of lens, audio plug, lamp, bell, lock
and emergency switch, each with its answer. Answers the driver leaves uninitialised are a
choice. `Devices` composes them for the boards D11 and G05. Bounds: two requests on D11,
three on G05, two upsets (a change of the temperature, or a conversion that ends before the
busy flag is set), a reset after two refusals instead of sixteen, steps of the export of 120
instead of 4. A table with room for one event makes error reports and the bell compete.
Fairness: the kernel timer's handler goes on and the converter answers (`WF`); the scan
reaches each handler, and a preempted request goes on (`SF`). That the early end of a
conversion is bounded is an assumption about the hardware: if it hit the two instructions
between start and flag each time the light sensor converts, the fan would be starved.

## What the runs show

`PROJECT.json` says of each run in a sentence what it shows. Deadlock is not checked in
`events_button`, `events_pir`, `reports`, `replies`, `device`, `device_eleventh` and `pantilt`,
whose bounded requests, or hazards that end the model, let the system stop.

## Findings and deviations

One run ends in a violation of what a message of the repository says: `device_eleventh`
(`LinuxAPI.c:195` tests the limit of the list with `>`; the eleventh open is stored behind
the array).

What follows is visible in the definitions, or named as an exception in a property, and no
run is spent on it.

- `PeriodEvent.c`: a registration that is preempted between search and writes is overwritten
  (184); a cancel that is preempted after it has freed its slot sets the period of the event
  that is registered there to 0, and every scan calls it (260).
- `Mqueue.c`: the five hazards of reports above (245, 420, 458 and 250, 613, 429); a full table replaces the
  replies that wait (739), or queues one for nobody and returns success (742); a low reply
  buffer is cleared of the replies of all processes, where lines 1081-1083 speak of the owner
  of the oldest (1253-1271).
- `LinuxAPI.c`: the count of the list is stored before the pointer (202); the 16-bit user
  number comes again after 65536 opens (192); the replies a process has not read stay when it
  closes, where lines 216-219 speak of releasing them (245).
- `Button.c`: the reporter's store undoes an edge of the interrupt (631); all buttons are
  judged when the first one's time is up (568); no second reporter is started for a button
  the running one has passed (579). `PIR.c`: a full table leaves the interrupt disabled (280,
  315); within a shared group it is triggered within its dead time (226).
- `PanTilt.c`: the flag `BuffFull` is never set, so a move asked for while another runs is lost
  (841); a stop's store sets the flags of a motor that has just ended, and it is busy for ever
  (1133); lines 379-380 test `HRunning` twice, and 792 `VIniting` twice; the report of
  `CommunicateProtocol.md:941` is never sent; a preset point that is not set is moved to by
  its number (1061-1064), and on D11 follows NULL (1061); F16 never returns its vertical
  axis (1474); a dead limit switch leaves its axis in initialisation; a move of no steps leaves
  the beat on (962); a second cruise registers twice and runs off the path (706); a full path
  of sixteen has no end mark (746); the stay time is that of the next preset (743); the
  condition of an import is always true (536); the flags of slowing are stale (930).
- `LDR.c`: a driver that starts in the dark does not switch until a day and a night have
  passed, where `CommunicateProtocol.md:564` promises otherwise (221); the sensitivity that is
  read is twice what was set (422), and one out of range is not refused (`md:580`); an average
  may rest one below a constant sample (151).
- `IfrFilter.c`: type A's single pin is written as two (171); type D leaves its other coil on
  (313-319), and its status is uninitialised (334); an earlier switch's event turns a later one's motor
  off (247, 320); type C has power on before it turns off the other coil, which requests that met
  may have left on (236-243). `MsgCenter.c`: the mode does not return to automatic (563); a second error
  overwrites the first, and is reported twice (134).
- `ADC.c`: the busy flag is set after the start (261-262). `CoolFan.c`: at exactly
  `MIN_EXPORT` the fan does not stop (85). `PWM.c`: `sfPWM_Stop` never stops, since its test
  is true of every channel (242).
- `MsgCenter.c`: the status of a closed lock is never set (1777 tests the complement of what
  it should); the answer of a pan-tilt action is or-ed into an uninitialised byte (952); reading
  the codec returns no data (1843-1856). `DoorBell.c`: the second of two taps is ended by the
  event of the first. `TempMonitor.c`: setting the period registers once more (115). `EAS.c`
  reports at each check while the alarm lasts (120). `3507R_B14.c`: the microphone's status
  tests the speaker's bit (307). `MsgConf.c`: the allocation is not checked (99), and clearing
  keeps the count of modules (325).

## What is proved

TLAPS checks 34 results for every value of the constants. They state 31 of the 40 properties
the passing runs check on a small instance, two type invariants and a bound on a list. What they assume of the
constants is named where a constant is declared; where a finite sum or a count is involved,
that handlers, buttons and lights are finitely many.

`PeriodEvent_proofs!EventCallIsSafe`: `Spec => [](TypeOK /\ CallIsSafe)`. Type correctness
is needed for the slot index. The step from "the slot holds a handler" (line 337) to the call
(342) is safe because what may run in between is an interrupt, interrupts only register in
free slots or run the handlers of their own table, and handlers of the kernel timer's table
are cancelled only by a task or by the kernel timer itself. This rests on `CapAssumption`,
`PeriodAssumption` and `HandlerAssumption`.

`PeriodEvent_proofs!ArmedStayInTable` (`ArmedIsInTable`) and `TablesImplementBags`
(`TablesAreBags`, the refinement of `EventTable`) describe each step by what it does to the
handlers of the slots: nothing (`Same`), or one slot gets one handler or is freed (`Puts`).
From this it follows that a registered handler stays (`PutsKeeps`), and that the bag of a
table gains one, loses one or stays as it is (`PutsStep`), where a free slot means that the
bag's sum is below `Cap` (`FreeIsRoom`). That sum is a fold over a set in an order nobody
knows. Here and in `Sensors_proofs`, `SumIsValue` shows that an additive function gives its value: if two functions
satisfied the fold's equation, they would differ on a smallest set, and do not. The well-founded
minimum (`WFMin`) stands in for induction here.

`MqueueSub_proofs` has three about the ring of the subscribers. `ReportsAreInOrder`
(`ReportsInOrder`) assumes `Followed = {}`, as the run does: with a hazard in `Followed` the
property is about the behaviours after it, and they violate it. `UnreadStaysOffIdle`
(`UnreadIsNotIdle`) and `OnlyLateAreDropped` (the action property `OnlyLateAreEvicted`) hold
for every `Followed`: as their definitions say, until a hazard has happened. So does the invariant. It names the
list: at the addresses `ls` lie nodes of sizes `sz` with masks `mk`, one behind the other in
front of the idle area (`Holds`, `Laid`); every subscriber is at one of them, is owed those
from there on, and is in the masks of exactly those (`Serves`); every node has a reader left,
but for the one a read has in hand (`Masked`). These do not say that the next report has
room: that is `Spacious`. Some node was written when there was room to spare, and
each report since has cost a user, so that so few users are left, and so few reports behind
that node, that another one fits. Here `SizeAssumption` is used. Distances are measured round
the ring to the idle area (`Dist`), so that the edge is a case of a few lemmas only. `Trail`, the
walk along `paNext`, is a recursive function; what it meets along a list that is sound is shown
by a smallest step at which it differs (`SmallestOf`). The walk of `delSubUser` is described by
the list with the leaver taken out of its masks. While a call has the header half stored these
do not hold of the ring as it is. They hold of the ring as it will be (`Completed`), which no
store of that call changes (`StoreGoesOn`), and are those of a ring at rest (`Rests`) when the
last is done (`RestIsSane`); until the end is stored the idle area is still the one before
the oldest report was freed, in which nothing unread lies (`Shielded`).

Two attempts at the proof failed for good reasons and changed the model. `SizeAssumption`
had no lower bound for the longest report: with one user, three units, the threshold at 2 and
reports of 1 unit an unread report was idle. And a report that crashed over the node of a
preempted read did so without the hazard being recorded: with one user, ten units, the
threshold at 8 and reports of 1 and 4 units TLC found `ReportsInOrder` violated.

`LinuxAPI_proofs!WaitingRepliesAreKept`, about `MqueueRmd`: `Spec => []NoReplyOverwritten`. The inductive
invariant `IInv` says that slots are typed, that `begin` is in the buffer, and that every
waiting reply ends at or before `begin`. The lemmas show that registering, forgetting and
giving never add another reply than the new one; `AddReplyHolds` is the arithmetic: the
buffer is cleared before a reply could reach its end (`SizeAssumption`), so `begin` never
wraps. It holds whichever hazards occurred, also where the history of `RepliesInOrder` has
been given up.

`LinuxAPI_proofs!RepliesStayInOrder` (`RepliesInOrder`) adds `OrderInv`: until a hazard has
happened the slots that are taken are the first `num`, each by a user of its own (`Filled`), and
hold what that user is owed (`Repaid`). `Filled` is what makes the slot after the `num`-th free.

`Sensors_proofs` has seven, for any number of buttons, any table and any other handlers
(`HandlersDiffer`: reporter, report, release and error report are four functions). The
invariant has layers. `ButtonInv` is about the buttons alone: the edges that are judged alternate
(`EdgesAlternate`), so that a report that waits is news (`ReportIsNews`). This gives
`DebounceIsArmed`, `StatusIsLevel`, `RestIsReported` and the action property
`ReportsAlternate`. `TableInv` relates the buttons to the table: who runs is in it, and an edge
that waits has a reporter that has not passed its button (`ReportIsPending`). `PirInv` counts
the reports and releases of the PIR sensor, for each board (`DeadTimeIsKept`). `Fits` says that
the table has a sum and what it is (`SensorsAreTyped`, by `SumIsValue`).

`StateLi_proofs` has two. The invariant says where the request under way is (`CallInv`): before
the gap is closed its light is listed, afterwards it is not, and in between the last entry is
there twice. The others are of different lights (`Apart`). A light that was turned off and that
no request is about is dark and not listed (`OffInv`), which the interrupt, writing only pins
of listed lights, cannot change: `OffStaysDark` (`OffIsDark`). Different lights are no more
than there are (`ApartIsFew`), and while one entry is double one light is missing:
`ListStaysInArray` (`EntriesFit`).

`DayNight_proofs` has three about the light sensor. `LightIsTyped`: the window, the averages, the count and the limits
stay in range, for any window, weights being those of the code; the arithmetic is that an
average of samples is not greater than the greatest. `StatusFollowsTheLight`
(`ChangesWithTheLight`): if an average is beyond a limit, one of the samples it is made of
is. `ExtremesAreSilentAlways` (`ExtremesAreSilent`): at the ends of the scale the limits are
where no average of the type can reach; the invariant ties the limits to the sensitivity that
was set, and `setting` to its first half.

`DayNight_proofs!SensorDecides`: `Spec => []AutoAgrees`. It is not inductive: in automatic
mode no process may be within a `SetStatus` (`Untouched`), once the sensor has switched the
filter is of type B and has judged at all, and with type B the pin of the direction is where the
blade is (`DirectionIsBlade`). With these and the types, each action either leaves mode, lamp,
blade and judgement alone, is the judgement, or leaves automatic mode.

`FilterStaysWhereAsked` (`FilterIsWhereAsked`) and `CoilsStayUnopposed` (`CoilsAreNotOpposed`)
rest on `FilterInv`: as long as no two requests have met, at most one is active, the coil it
drives is the only one that is on, and the table holds no shutdown until it has registered its
own, which is called at the next scan at the earliest, by which the filter has moved. Both
coils are on only where a request is about to turn off the one an earlier meeting left on
(`OpposedByOne`). A scan's
choice among the slots needs a smallest one (`WFMin`). `ErrorsStayPending` (`ErrorsArePending`):
nothing but the report itself takes a registered report out of the table.

`LinuxAPI_proofs` has three about the device file, from one inductive invariant (`DeviceIsSound`) that rests on
`FileAssumption` alone. `ListIsSound` (`ListIsOfTheOpen`): the list is described by the places
that are `Live`, all but the `Hole`: the place `onClose` is moving up to, or the one `onOpen`
has counted and not filled. Live places hold open structures, no two the same, and every open
structure has one; the entry in the place that `onClose` has reached is in use. That no two
are the same is what makes the leaver's place the one `onClose` finds (`PlaceIsFound`).
`WakeupsAreNotLost` (`NoLostWakeup`): a reader between its test and its sleep is of an open
structure, hence listed, hence waked by whoever queues a message (`OpenIsQueued`), and a task
that was waked before `schedule()` does not sleep. The invariant extends `NoLostWakeup`, which
is about sleepers, to those on their way (`NothingToRead`). `ClosedAreForgotten`
(`ClosedHaveNoReports`): only the last step of `onClose` frees a structure (`UsersStay`), and
it unsubscribes the user.

`Devices_proofs!ModulatorFollows` (`WidthsAreAsked`) assumes `NumFirst`, the order of the loads
in the committed module; TLC shows that without it the property fails. Its invariant
(`WidthsInv`) says whose the one structure of settings is while a request of the lamp is half
way: once the fan's handler has been there it is the fan's until the request ends, so whatever
the request still does to the channel it finds, it does with the fan's width. `AnswersStayTrue`
(`AnswersAreTrue`): the pins of each device, or what is stored of it, say what was last asked,
and a request under way is about a device of the board (`AnswersInv`, `CallInv`); the messages'
level is a byte (`MsgCenterAssumption`).

`Cruise_proofs` has five, about the motors and the cruise. `MovesAreDriven` (`BusyIsDriven`) and
`CruisesKeepToThePath` (`CruiseStaysOnPath`) hold for any constants. The first needs that the
self-test leaves no handler before its last axis has ended (`DrivenInv`), the second that the
path of a cruise has been good since it was started, as far as it has come (`PathInv`). The
other three assume `LongEnough`: the search for a switch is longer than the axis, and the axis
shorter than the 16 bits of a coordinate. `PositionsStayTrue` (`PositionIsTrue`) and
`SelfTestReturns` (`ReturnsToStart`) rest on `AxesInv`, which says of each axis where its motor
is in the middle of a step, by the handler of the beat. While the origin is looked for, the pool
counts the steps behind and the motor is `s` steps from the switch, and the two make up the start
(`ZeroAxis`); while the range is looked for, the range counts the steps from the origin
(`RangeAxis`); in a move the coordinate is `s` or `s + 1`, the pool is within the way to the end,
and at a switch the coordinate is put right while the motor ends (`RunAxis`). One phase keeps
this (`ZeroTurns`, `RangeTurns`, `RunTurns`), so does the change of the handler (`ThenAxes`), and
a move or a stop gives up the start only. `CruisesArrive` (`CruiseArrives`) adds `TargetInv`: what
the pool holds is what the coordinate lacks of the preset the cruise was sent to (`Towards`).
A preset may lie behind the range: then the motors arrive at its end.

Only model-checked: liveness, which is out of the prover's reach (`EventsFire`,
`ReaderReturns`, `PirComesBack`, `ShowsWhatIsAsked`, `ComesToRest`, `RecognisesTheLight`,
`MotorRests`, `BellIsReleased`, `FanSettles`). Every safety property and every action property
of the runs that pass is proved. What the recursive function `Seek` of `NTC` computes is checked for
all 1024 codes, not proved.

## Not modelled

- `LinuxAPI.c`: `poll`, signals, failing copies and short buffers, load and release.
- `Mqueue.c`: `sfClearMsgBuf`, which nothing calls.
- `PanTilt.c`: speeds, the request of a self-check, the export of preset points.
- `IfrFilter.c` type A; boards on which the filter is never automatic (F16, 0302, B14).
- `MsgCenter.c`: capabilities, temperature, clock, state light and codec requests, dimming.
- The breathing lights of 3518E_G07, G09 and F10 (`Pro/3518E_G09.c:386-558`), a variant of
  `StateLi` in which the times are stored before the handler is cancelled.
- The periodic check of the emergency switch, which only repeats its report.
- Codec, clock, timers and serial bus (register access), start-up order of the boards, the
  driver's legality check, byte copying.
- The test application, and the earlier generations `NV_Driver_G1`, `NV_Driver_G2`, `d01ip`,
  `d03ip`, `d11ip` and `nv_driver_tests`, which `NV_Driver_G3` replaces.

## Plan

1. An abstract queue per user that `MqueueRmd` and, until a hazard occurs, `MqueueSub`
   implement, for `LinuxAPI` to use.
2. Signals and `poll` in `LinuxAPI`.
3. The remaining requests of `MsgCenter` and the breathing lights.
