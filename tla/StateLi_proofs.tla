--------------------------- MODULE StateLi_proofs ---------------------------
(***************************************************************************)
(* A light that was turned off stays dark, and the list fits its array,    *)
(* for any number of lights and any times.  The two rest on one invariant: *)
(* the entries are of different lights, but for the last while the gap is  *)
(* closed, and the steps a request has left say whether its light is       *)
(* listed.  A pin is written only by the request that darkens it and for a *)
(* light that is listed; one that was turned off is not.                   *)
(***************************************************************************)
EXTENDS StateLi, TLAPS, FiniteSetTheorems, SequenceTheorems

\* What a request has left to do: to change the times, to append, to turn off.
Times2 == <<"p", "n">>
Times1 == <<"n">>
New1   == <<"append">>
Off5   == <<"pause", "shift", "drop", "resume", "pin">>
Off4   == <<"shift", "drop", "resume", "pin">>
Off3   == <<"drop", "resume", "pin">>
Off2   == <<"resume", "pin">>
Off1   == <<"pin">>

\* After "shift" the last entry is there twice.
Count == IF call.todo = Off3 THEN Len(info) - 1 ELSE Len(info)

\* The first n entries of s are of different lights.
Apart(s, n) == \A i, j \in 1 .. n : s[i].pin = s[j].pin => i = j

Has(s, n, l) == \E i \in 1 .. n : s[i].pin = l

Typed ==
    /\ info \in Seq(Entry)
    /\ lit \in [Light -> BOOLEAN]
    /\ asked \in [Light -> Times \cup {NoTime}]
    /\ call.todo # <<>> => call.pin \in Light /\ call.times \in Times

\* Where the request under way is, and whether its light is listed.
CallInv ==
    \/ call.todo = <<>>
    \/ /\ call.times # Off
       /\ \/ call.todo \in {Times2, Times1} /\ Has(info, Len(info), call.pin)
          \/ call.todo = New1 /\ ~Has(info, Len(info), call.pin)
    \/ /\ call.times = Off
       /\ \/ call.todo \in {Off5, Off4} /\ Has(info, Len(info), call.pin)
          \/ call.todo = Off3 /\ Len(info) > 0 /\ ~Has(info, Len(info) - 1, call.pin)
          \/ call.todo \in {Off2, Off1} /\ ~Has(info, Len(info), call.pin)

\* A light that was turned off, and that no request is about, is dark and not listed.
OffInv == \A l \in Light : asked[l] = Off /\ Quiet(l) => ~lit[l] /\ ~Has(info, Len(info), l)

IInv == Typed /\ CallInv /\ Apart(info, Count) /\ OffInv

-----------------------------------------------------------------------------
(* The steps of a request, and the list.                                   *)

LEMMA Heads ==
  /\ Head(Times2) = "p" /\ Head(Times1) = "n" /\ Head(New1) = "append"
  /\ Head(Off5) = "pause" /\ Head(Off4) = "shift" /\ Head(Off3) = "drop"
  /\ Head(Off2) = "resume" /\ Head(Off1) = "pin"
  BY DEF Times2, Times1, New1, Off5, Off4, Off3, Off2, Off1

LEMMA Tails ==
  /\ Tail(Times2) = Times1 /\ Tail(Times1) = <<>> /\ Tail(New1) = <<>>
  /\ Tail(Off5) = Off4 /\ Tail(Off4) = Off3 /\ Tail(Off3) = Off2
  /\ Tail(Off2) = Off1 /\ Tail(Off1) = <<>>
  BY DEF Times2, Times1, New1, Off5, Off4, Off3, Off2, Off1

LEMMA Lengths ==
  /\ Len(Times1) = 1 /\ Len(New1) = 1 /\ Len(Off1) = 1
  /\ Len(Times2) # 1 /\ Len(Off5) # 1 /\ Len(Off4) # 1 /\ Len(Off3) # 1 /\ Len(Off2) # 1
  BY DEF Times2, Times1, New1, Off5, Off4, Off3, Off2, Off1

LEMMA Apartness ==
  /\ <<>> \notin {Times2, Times1, New1, Off5, Off4, Off3, Off2, Off1}
  /\ Off3 \notin {Times2, Times1, New1, Off5, Off4, Off2, Off1}
  BY DEF Times2, Times1, New1, Off5, Off4, Off3, Off2, Off1

LEMMA Plans ==
  ASSUME NEW l \in Light
  PROVE  /\ OffSteps(l) = IF Listed(l) THEN Off5 ELSE Off1
         /\ OnSteps(l) = IF Listed(l) THEN Times2 ELSE New1
  BY DEF OffSteps, OnSteps, Times2, New1, Off5, Off1

LEMMA PlaceIsListed ==
  ASSUME info \in Seq(Entry), NEW l
  PROVE  /\ Listed(l) <=> Has(info, Len(info), l)
         /\ Has(info, Len(info), l) => Place(l) \in 1 .. Len(info) /\ info[Place(l)].pin = l
  BY DEF Listed, Has, Place

\* A list with the pins of another is like it.
LEMMA SamePins ==
  ASSUME NEW s \in Seq(Entry), NEW t \in Seq(Entry), Len(t) = Len(s),
         \A i \in 1 .. Len(s) : t[i].pin = s[i].pin, NEW n \in Int, n <= Len(s)
  PROVE  /\ Apart(s, n) => Apart(t, n)
         /\ \A l : Has(t, n, l) <=> Has(s, n, l)
<1>1. \A i \in 1 .. n : t[i].pin = s[i].pin
  OBVIOUS
<1>2. Apart(s, n) => Apart(t, n)
  BY <1>1 DEF Apart
<1>3. \A l : Has(t, n, l) <=> Has(s, n, l)
  BY <1>1 DEF Has
<1> QED BY <1>2, <1>3

\* Entries of different lights are no more than the lights.
LEMMA ApartIsFew ==
  ASSUME NEW s \in Seq(Entry), NEW n \in Nat, n <= Len(s), Apart(s, n),
         NEW S, S \subseteq Light, \A i \in 1 .. n : s[i].pin \in S
  PROVE  n <= Cardinality(S)
<1> DEFINE f == [i \in 1 .. n |-> s[i].pin]
<1>1. f \in Injection(1 .. n, S)
  BY DEF Apart, Injection, IsInjective
<1>2. IsFiniteSet(S)
  BY LightAssumption, FS_Subset
<1>3. Cardinality(1 .. n) <= Cardinality(S)
  BY <1>1, <1>2, FS_Injection
<1>4. Cardinality(1 .. n) = n
  BY FS_Interval
<1> QED BY <1>3, <1>4

-----------------------------------------------------------------------------
(* Every step keeps the invariant.                                         *)

\* A request for light l, which is under no other, begins.
LEMMA BeginHolds ==
  ASSUME IInv, NEW l \in Light, NEW t \in Times, SetStatus(l, t)
  PROVE  IInv'
<1>1. call.todo = <<>> /\ info' = info /\ lit' = lit /\ asked' = asked
  BY DEF SetStatus
<1> DEFINE todo == IF t = Off THEN OffSteps(l) ELSE OnSteps(l)
<1>2. call'.pin = l /\ call'.times = t /\ call'.todo = todo
  BY DEF SetStatus
<1>3. Listed(l) <=> Has(info, Len(info), l)
  BY PlaceIsListed DEF IInv, Typed
<1>4. todo = IF t = Off THEN (IF Has(info, Len(info), l) THEN Off5 ELSE Off1)
             ELSE (IF Has(info, Len(info), l) THEN Times2 ELSE New1)
  BY <1>3, Plans
<1> HIDE DEF todo
<1>5. todo # <<>> /\ todo # Off3
  BY <1>4, Apartness
<1>6. Typed'
  BY <1>1, <1>2 DEF IInv, Typed
<1>7. CallInv'
  BY <1>1, <1>2, <1>4 DEF CallInv
<1>8. Apart(info, Count)'
  <2>1. Count = Len(info) /\ Count' = Len(info)
    BY <1>1, <1>2, <1>5, Apartness DEF Count, Off3
  <2> QED BY <1>1, <2>1 DEF IInv
<1>9. OffInv'
  <2>1. \A k \in Light : Quiet(k)
    BY <1>1 DEF Quiet
  <2> QED BY <1>1, <2>1 DEF IInv, OffInv
<1> QED BY <1>6, <1>7, <1>8, <1>9 DEF IInv

\* The handler keeps the pins of the entries, and writes those of listed lights.
LEMMA LoopHolds ==
  ASSUME IInv, LoopProcessing
  PROVE  IInv'
<1>1. call' = call /\ asked' = asked /\ info' = [i \in DOMAIN info |-> Ticked(info[i])]
  BY DEF LoopProcessing
<1>2. ASSUME NEW e \in Entry PROVE Ticked(e) \in Entry /\ Ticked(e).pin = e.pin
  <2>1. Time \subseteq Nat /\ e.p \in Time /\ e.n \in Time /\ e.count \in Nat
    BY LightAssumption DEF Entry
  <2>2. e.p \in Nat /\ e.n \in Nat
    BY <2>1, Zenon
  <2>3. CASE e.count = 0
    <3> DEFINE d == IF e.on THEN e.n ELSE e.p
               c == IF d > 0 THEN d - 1 ELSE 0
    <3>1. d \in Nat
      BY <2>2
    <3> HIDE DEF d
    <3>2. c \in Nat
      BY <3>1
    <3>3. Ticked(e) = [e EXCEPT !.on = ~@, !.count = c]
      BY <2>3 DEF Ticked, Turned, d
    <3> HIDE DEF c
    <3> QED BY <3>2, <3>3 DEF Entry
  <2>4. CASE e.count # 0
    <3>1. e.count - 1 \in Nat
      BY <2>1, <2>4
    <3>2. Ticked(e) = [e EXCEPT !.count = e.count - 1]
      BY <2>4 DEF Ticked
    <3> QED BY <3>1, <3>2 DEF Entry
  <2> QED BY <2>3, <2>4
<1>3. info \in Seq(Entry)
  BY DEF IInv, Typed
<1>4. info' \in Seq(Entry) /\ Len(info') = Len(info) /\ \A i \in 1 .. Len(info) : info'[i].pin = info[i].pin
  BY <1>1, <1>2, <1>3
<1>5. \A n \in Int : n <= Len(info) => /\ Apart(info, n) => Apart(info', n)
                                       /\ \A l : Has(info', n, l) <=> Has(info, n, l)
  BY <1>3, <1>4, SamePins
<1>6. /\ Len(info) \in Int /\ Len(info) - 1 \in Int
      /\ \A l : Has(info', Len(info), l) <=> Has(info, Len(info), l)
      /\ \A l : Has(info', Len(info) - 1, l) <=> Has(info, Len(info) - 1, l)
  <2>1. Len(info) \in Int /\ Len(info) - 1 \in Int /\ Len(info) - 1 <= Len(info)
    BY <1>3
  <2> QED BY <1>5, <2>1
<1>7. lit' \in [Light -> BOOLEAN] /\ \A l \in Light : ~Has(info, Len(info), l) => lit'[l] = lit[l]
  <2> DEFINE lt(l) == IF \E i \in DOMAIN info : info[i].pin = l /\ Shows(info[i])
                      THEN ~info[Place(l)].on ELSE lit[l]
  <2>1. lit' = [l \in Light |-> lt(l)]
    BY DEF LoopProcessing
  <2>2. ASSUME NEW l \in Light, ~Has(info, Len(info), l) PROVE lt(l) = lit[l]
    BY <1>3, <2>2 DEF Has
  <2>3. ASSUME NEW l \in Light PROVE lt(l) \in BOOLEAN
    <3>1. lit[l] \in BOOLEAN /\ (~info[Place(l)].on) \in BOOLEAN
      BY DEF IInv, Typed
    <3> QED BY <3>1, Zenon
  <2> HIDE DEF lt
  <2> QED BY <2>1, <2>2, <2>3
<1>8. Typed'
  BY <1>1, <1>4, <1>7 DEF IInv, Typed
<1>9. CallInv'
  <2>1. /\ Has(info', Len(info'), call'.pin) <=> Has(info, Len(info), call.pin)
        /\ Has(info', Len(info') - 1, call'.pin) <=> Has(info, Len(info) - 1, call.pin)
    BY <1>1, <1>4, <1>5, <1>6
  <2>2. CallInv
    BY DEF IInv
  <2> QED BY <1>1, <1>4, <2>1, <2>2 DEF CallInv
<1>10. Apart(info, Count)'
  <2>1. Count \in Int /\ Count <= Len(info) /\ Count' = Count
    BY <1>1, <1>3, <1>4 DEF Count
  <2> QED BY <1>5, <2>1 DEF IInv
<1>11. OffInv'
  <2>1. \A l \in Light : Quiet(l)' <=> Quiet(l)
    BY <1>1 DEF Quiet
  <2> QED BY <1>1, <1>4, <1>5, <1>6, <1>7, <2>1 DEF IInv, OffInv
<1> QED BY <1>8, <1>9, <1>10, <1>11 DEF IInv


\* What is left when a step is done, and the history it leaves.
LEMMA AfterStep ==
  ASSUME Typed, SetStatusStep
  PROVE  /\ Do(Head(call.todo)) /\ call.todo # <<>>
         /\ call'.pin = call.pin /\ call'.times = call.times /\ call'.todo = Tail(call.todo)
         /\ call.pin \in Light /\ call.times \in Times
         /\ asked' \in [Light -> Times \cup {NoTime}]
         /\ \A l \in Light : l # call.pin => asked'[l] = asked[l]
         /\ Len(call.todo) = 1 => asked'[call.pin] = call.times
         /\ Len(call.todo) # 1 => asked' = asked
  BY DEF SetStatusStep, Typed

\* Lights the request is not about: as they were asked to be, and not listed anew.
LEMMA OthersHold ==
  ASSUME Typed, OffInv, SetStatusStep,
         \A l \in Light : /\ l # call.pin
                          => /\ lit'[l] = lit[l]
                             /\ Has(info', Len(info'), l) => Has(info, Len(info), l),
         call'.todo = <<>> => asked'[call.pin] # Off \/ (~lit'[call.pin] /\ ~Has(info', Len(info'), call.pin))
  PROVE  OffInv'
<1> SUFFICES ASSUME NEW l \in Light, asked'[l] = Off, Quiet(l)'
             PROVE  ~lit'[l] /\ ~Has(info', Len(info'), l)
  BY DEF OffInv
<1>1. CASE l = call.pin
  <2>1. call'.todo = <<>>
    BY <1>1, AfterStep DEF Quiet
  <2> QED BY <1>1, <2>1
<1>2. CASE l # call.pin
  <2>1. asked[l] = Off /\ Quiet(l)
    BY <1>2, AfterStep DEF Quiet
  <2> QED BY <1>2, <2>1 DEF OffInv
<1> QED BY <1>1, <1>2

\* New times for a listed light.
LEMMA TimesHold ==
  ASSUME IInv, SetStatusStep, call.todo \in {Times2, Times1}
  PROVE  IInv'
<1> DEFINE k == Place(call.pin)
<1>1. /\ info \in Seq(Entry) /\ call.pin \in Light /\ call.times \in Times
      /\ call.times # Off /\ Has(info, Len(info), call.pin)
  BY AfterStep, Apartness DEF IInv, Typed, CallInv, Times2, Times1, New1, Off5, Off4, Off3, Off2, Off1
<1>2. k \in 1 .. Len(info)
  BY <1>1, PlaceIsListed
<1> HIDE DEF k
<1>3. call.times.p \in Time /\ call.times.n \in Time
  BY <1>1 DEF Times
<1>4. /\ lit' = lit
      /\ \/ info' = [info EXCEPT ![k].p = call.times.p]
         \/ info' = [info EXCEPT ![k].n = call.times.n]
  BY AfterStep, Heads DEF Do, k, IInv
<1>5. /\ info' \in Seq(Entry) /\ Len(info') = Len(info)
      /\ \A i \in 1 .. Len(info) : info'[i].pin = info[i].pin
  <2>1. PICK e \in Entry : e.pin = info[k].pin /\ info' = [info EXCEPT ![k] = e]
    <3> DEFINE pe == [info[k] EXCEPT !.p = call.times.p]
               ne == [info[k] EXCEPT !.n = call.times.n]
    <3>1. info[k] \in Entry
      BY <1>1, <1>2
    <3>2. pe \in Entry /\ pe.pin = info[k].pin /\ ne \in Entry /\ ne.pin = info[k].pin
      BY <1>3, <3>1 DEF Entry
    <3>3. info' = [info EXCEPT ![k] = pe] \/ info' = [info EXCEPT ![k] = ne]
      BY <1>4
    <3> HIDE DEF pe, ne
    <3> QED BY <3>2, <3>3
  <2> QED BY <1>1, <1>2, <2>1
<1>6. \A n \in Int : n <= Len(info) => /\ Apart(info, n) => Apart(info', n)
                                       /\ \A l : Has(info', n, l) <=> Has(info, n, l)
  BY <1>1, <1>5, SamePins
<1>7. Len(info) \in Int
  BY <1>1
<1>8. \/ call.todo = Times2 /\ call'.todo = Times1
      \/ call.todo = Times1 /\ call'.todo = <<>>
  BY AfterStep, Tails DEF IInv
<1>9. Typed'
  BY <1>4, <1>5, AfterStep DEF IInv, Typed
<1>10. CallInv'
  BY <1>1, <1>5, <1>6, <1>7, <1>8, AfterStep DEF IInv, CallInv
<1>11. Apart(info, Count)'
  <2>1. Count = Len(info) /\ Count' = Len(info)
    BY <1>5, <1>8, Apartness DEF Count, Off3, Times2, Times1
  <2> QED BY <1>6, <1>7, <2>1 DEF IInv
<1>12. OffInv'
  <2>1. call'.todo = <<>> => asked'[call.pin] # Off
    BY <1>1, <1>8, AfterStep, Lengths, Apartness DEF IInv
  <2>2. \A l : Has(info', Len(info'), l) <=> Has(info, Len(info), l)
    BY <1>5, <1>6, <1>7
  <2> QED BY <1>4, <2>1, <2>2, OthersHold DEF IInv
<1> QED BY <1>9, <1>10, <1>11, <1>12 DEF IInv

\* A light that was not listed is appended.
LEMMA AppendHolds ==
  ASSUME IInv, SetStatusStep, call.todo = New1
  PROVE  IInv'
<1>1. /\ info \in Seq(Entry) /\ call.pin \in Light /\ call.times \in Times
      /\ call.times # Off /\ ~Has(info, Len(info), call.pin)
  BY AfterStep, Apartness DEF IInv, Typed, CallInv, Times2, Times1, New1, Off5, Off4, Off3, Off2, Off1
<1>2. info' = Append(info, NewEntry) /\ lit' = lit /\ call'.todo = <<>>
  BY AfterStep, Heads, Tails DEF Do, IInv
<1>3. NewEntry \in Entry /\ NewEntry.pin = call.pin
  BY <1>1 DEF NewEntry, Entry, Times
<1>4. /\ info' \in Seq(Entry) /\ Len(info') = Len(info) + 1
      /\ \A i \in 1 .. Len(info) : info'[i] = info[i]
      /\ info'[Len(info) + 1].pin = call.pin /\ Len(info) \in Nat
  BY <1>1, <1>2, <1>3
<1>5. Typed'
  BY <1>2, <1>4, AfterStep DEF IInv, Typed
<1>6. CallInv'
  BY <1>2 DEF CallInv
<1>7. Apart(info, Count)'
  <2>1. Count = Len(info) /\ Count' = Len(info) + 1
    BY <1>2, <1>4, Apartness DEF Count, Off3, New1
  <2>2. Apart(info, Len(info))
    BY <2>1 DEF IInv
  <2> QED BY <1>1, <1>4, <2>1, <2>2 DEF Apart, Has
<1>8. OffInv'
  <2>1. asked'[call.pin] # Off
    BY <1>1, AfterStep, Lengths DEF IInv
  <2>2. \A l : l # call.pin /\ Has(info', Len(info'), l) => Has(info, Len(info), l)
    BY <1>4 DEF Has
  <2> QED BY <1>2, <2>1, <2>2, OthersHold DEF IInv
<1> QED BY <1>5, <1>6, <1>7, <1>8 DEF IInv

\* Turning off, up to the copying down: what is listed stays it, but the request's light.
LEMMA ShiftHolds ==
  ASSUME IInv, SetStatusStep, call.todo \in {Off5, Off4}
  PROVE  IInv'
<1> DEFINE k == Place(call.pin)
           n == Len(info)
<1>1. /\ info \in Seq(Entry) /\ call.pin \in Light
      /\ call.times = Off /\ Has(info, n, call.pin)
  BY AfterStep, Apartness DEF IInv, Typed, CallInv, Times2, Times1, New1, Off5, Off4, Off3, Off2, Off1
<1>2. k \in 1 .. n /\ info[k].pin = call.pin /\ n \in Nat /\ DOMAIN info = 1 .. n
  BY <1>1, PlaceIsListed
<1>3. lit' = lit /\ asked' = asked /\ call'.todo # <<>>
  BY AfterStep, Heads, Tails, Lengths, Apartness DEF Do, IInv
<1>4. Apart(info, n)
  <2>1. Count = n
    BY Apartness DEF Count
  <2> QED BY <2>1 DEF IInv
<1>5. CASE call.todo = Off5
  <2>1. info' = info /\ call'.todo = Off4 /\ call.todo # Off3
    BY <1>5, AfterStep, Heads, Tails, Apartness DEF Do, IInv
  <2>2. Typed' /\ Apart(info', n) /\ Count' = n
    BY <1>1, <1>3, <1>4, <2>1, AfterStep, Apartness DEF IInv, Typed, Count
  <2>3. CallInv'
    BY <1>1, <2>1, AfterStep DEF IInv, CallInv
  <2>4. OffInv'
    BY <1>3, <2>1, OthersHold DEF IInv
  <2> QED BY <2>2, <2>3, <2>4 DEF IInv
<1>6. CASE call.todo = Off4
  <2>1. info' = ShiftFrom(k) /\ call'.todo = Off3
    BY <1>6, AfterStep, Heads, Tails DEF Do, IInv
  <2> HIDE DEF k
  <2>2. /\ info' \in Seq(Entry) /\ Len(info') = n
        /\ \A i \in 1 .. n : info'[i] = IF i >= k /\ i < n THEN info[i + 1] ELSE info[i]
    BY <1>1, <1>2, <2>1 DEF ShiftFrom
  <2>3. Typed'
    BY <1>3, <2>2, AfterStep DEF IInv, Typed
  <2>4. Count' = n - 1
    BY <2>1, <2>2 DEF Count
  <2>5. Apart(info', n - 1)
    BY <1>2, <1>4, <2>2 DEF Apart
  <2>6. ~Has(info', n - 1, call.pin)
    BY <1>2, <1>4, <2>2 DEF Apart, Has
  <2>7. CallInv'
    BY <1>1, <1>2, <2>1, <2>2, <2>6, AfterStep DEF IInv, CallInv
  <2>8. \A l : Has(info', Len(info'), l) => Has(info, Len(info), l)
    BY <1>2, <2>2 DEF Has
  <2>9. OffInv'
    BY <1>3, <2>8, OthersHold DEF IInv
  <2> QED BY <2>3, <2>4, <2>5, <2>7, <2>9 DEF IInv
<1> QED BY <1>5, <1>6

\* The last entry, which is there twice or is the light's, is given up.
LEMMA DropHolds ==
  ASSUME IInv, SetStatusStep, call.todo = Off3
  PROVE  IInv'
<1> DEFINE n == Len(info)
<1>1. /\ info \in Seq(Entry) /\ n > 0 /\ n \in Nat
      /\ call.times = Off /\ ~Has(info, n - 1, call.pin)
  BY Apartness DEF IInv, Typed, CallInv, Times2, Times1, New1, Off5, Off4, Off3, Off2, Off1
<1>2. lit' = lit /\ asked' = asked /\ call'.todo = Off2 /\ info' = Front(info)
  BY AfterStep, Heads, Tails, Lengths DEF Do, IInv
<1>3. info' \in Seq(Entry) /\ Len(info') = n - 1 /\ \A i \in 1 .. n - 1 : info'[i] = info[i]
  <2>1. info' = SubSeq(info, 1, n - 1)
    BY <1>2 DEF Front
  <2>2. n - 1 \in Int /\ 1 \in Int /\ \A i \in 1 .. n - 1 : info[i] \in Entry
    BY <1>1
  <2> HIDE DEF n
  <2>3. /\ info' \in Seq(Entry) /\ Len(info') = IF 1 <= n - 1 THEN n - 1 - 1 + 1 ELSE 0
        /\ \A i \in 1 .. n - 1 - 1 + 1 : info'[i] = info[1 + i - 1]
    BY <2>1, <2>2, SubSeqProperties
  <2> QED BY <1>1, <2>3
<1>4. Typed'
  BY <1>2, <1>3, AfterStep DEF IInv, Typed
<1>5. Count = n - 1 /\ Count' = n - 1
  BY <1>2, <1>3, Apartness DEF Count, Off3, Off2
<1>6. Apart(info', n - 1)
  BY <1>3, <1>5 DEF IInv, Apart
<1>7. \A l : Has(info', n - 1, l) <=> Has(info, n - 1, l)
  BY <1>3 DEF Has
<1>8. CallInv'
  BY <1>1, <1>2, <1>3, <1>7, AfterStep DEF IInv, CallInv
<1>9. OffInv'
  <2>1. \A l : Has(info, n - 1, l) => Has(info, n, l)
    BY <1>1 DEF Has
  <2>2. call'.todo # <<>>
    BY <1>2, Apartness
  <2> QED BY <1>2, <1>3, <1>7, <2>1, <2>2, OthersHold DEF IInv
<1> QED BY <1>4, <1>5, <1>6, <1>8, <1>9 DEF IInv

\* The light is not listed any more, and its pin is darkened.
LEMMA PinHolds ==
  ASSUME IInv, SetStatusStep, call.todo \in {Off2, Off1}
  PROVE  IInv'
<1>1. /\ call.pin \in Light /\ call.times = Off /\ ~Has(info, Len(info), call.pin)
  BY AfterStep, Apartness DEF IInv, Typed, CallInv, Times2, Times1, New1, Off5, Off4, Off3, Off2, Off1
<1>2. info' = info
  BY AfterStep, Heads DEF Do, IInv
<1>3. \/ call.todo = Off2 /\ call'.todo = Off1 /\ lit' = lit
      \/ call.todo = Off1 /\ call'.todo = <<>> /\ lit' = [lit EXCEPT ![call.pin] = FALSE]
  BY AfterStep, Heads, Tails DEF Do, IInv
<1>4. /\ lit' \in [Light -> BOOLEAN]
      /\ \A l \in Light : l # call.pin => lit'[l] = lit[l]
      /\ call'.todo = <<>> => ~lit'[call.pin]
  BY <1>1, <1>3, Apartness DEF IInv, Typed
<1>5. Typed'
  BY <1>2, <1>4, AfterStep DEF IInv, Typed
<1>6. Count = Len(info) /\ Count' = Len(info)
  BY <1>2, <1>3, Apartness DEF Count
<1>7. CallInv'
  BY <1>1, <1>2, <1>3, AfterStep DEF IInv, CallInv
<1>8. OffInv'
  BY <1>1, <1>2, <1>4, OthersHold DEF IInv
<1> QED BY <1>2, <1>5, <1>6, <1>7, <1>8 DEF IInv

LEMMA StepHolds == IInv /\ [Next]_vars => IInv'
<1> SUFFICES ASSUME IInv, [Next]_vars PROVE IInv'
  OBVIOUS
<1>1. ASSUME NEW l \in Light, NEW t \in Times, SetStatus(l, t) PROVE IInv'
  BY <1>1, BeginHolds
<1>2. CASE SetStatusStep
  <2>1. call.todo \in {Times2, Times1} \/ call.todo = New1 \/ call.todo \in {Off5, Off4}
        \/ call.todo = Off3 \/ call.todo \in {Off2, Off1}
    BY <1>2 DEF IInv, CallInv, SetStatusStep
  <2> QED BY <1>2, <2>1, TimesHold, AppendHolds, ShiftHolds, DropHolds, PinHolds
<1>3. CASE LoopProcessing
  BY <1>3, LoopHolds
<1>4. CASE UNCHANGED vars
  BY <1>4 DEF vars, IInv, Typed, CallInv, Count, OffInv, Quiet
<1> QED BY <1>1, <1>2, <1>3, <1>4 DEF Next

LEMMA InitHolds == Init => IInv
<1> SUFFICES ASSUME Init PROVE IInv
  OBVIOUS
<1>1. info = <<>> /\ Len(info) = 0 /\ info \in Seq(Entry) /\ call.todo = <<>>
  BY DEF Init
<1>2. asked \in [Light -> Times \cup {NoTime}]
  BY DEF Init
<1>3. Typed /\ CallInv
  BY <1>1, <1>2 DEF Init, Typed, CallInv
<1>4. Apart(info, Count)
  BY <1>1, Apartness DEF Apart, Count, Off3
<1>5. OffInv
  <2>1. \A l \in Light : asked[l] # Off
    <3>1. NoTime.p # Off.p
      BY DEF NoTime, Off
    <3>2. \A l \in Light : asked[l] = NoTime
      BY DEF Init
    <3> QED BY <3>1, <3>2
  <2> QED BY <2>1 DEF OffInv
<1> QED BY <1>3, <1>4, <1>5 DEF IInv

\* A light that was turned off is dark and stays it, whenever the interrupt comes between
\* the steps of requests (StateLi.c:205-232, 252-286).
THEOREM OffStaysDark == Spec => []OffIsDark
<1>1. IInv => OffIsDark
  BY DEF IInv, OffInv, OffIsDark
<1> QED BY <1>1, InitHolds, StepHolds, PTL DEF Spec

\* The list never has more entries than its array, which has one for each light: while the
\* last is there twice, all the others are of lights other than the one given up
\* (StateLi.c:109-112, 192-198, 209-228).
THEOREM ListStaysInArray == Spec => []EntriesFit
<1>1. IInv => EntriesFit
  <2> SUFFICES ASSUME IInv PROVE Len(info) <= Cardinality(Light)
    BY DEF EntriesFit
  <2>1. info \in Seq(Entry) /\ Len(info) \in Nat /\ \A i \in 1 .. Len(info) : info[i].pin \in Light
    <3>1. info \in Seq(Entry)
      BY DEF IInv, Typed
    <3>2. \A i \in 1 .. Len(info) : info[i] \in Entry
      BY <3>1
    <3>3. \A e \in Entry : e.pin \in Light
      BY DEF Entry
    <3> QED BY <3>1, <3>2, <3>3
  <2>2. CASE call.todo # Off3
    <3>1. Count = Len(info) /\ Apart(info, Len(info))
      BY <2>2 DEF Count, IInv
    <3> QED BY <2>1, <3>1, ApartIsFew
  <2>3. CASE call.todo = Off3
    <3> DEFINE S == Light \ {call.pin}
    <3>1. Count = Len(info) - 1 /\ Apart(info, Len(info) - 1) /\ call.pin \in Light
      BY <2>3, Apartness DEF Count, IInv, Typed
    <3>2. Len(info) > 0 /\ ~Has(info, Len(info) - 1, call.pin)
      BY <2>3, Apartness DEF IInv, CallInv, Times2, Times1, New1, Off5, Off4, Off3, Off2, Off1
    <3>3. \A i \in 1 .. Len(info) - 1 : info[i].pin \in S
      BY <2>1, <3>2 DEF Has
    <3>4. Cardinality(S) = Cardinality(Light) - 1 /\ Cardinality(Light) \in Nat
      BY <3>1, LightAssumption, FS_RemoveElement, FS_CardinalityType
    <3>5. Len(info) - 1 <= Cardinality(S)
      BY <2>1, <3>1, <3>2, <3>3, ApartIsFew
    <3> QED BY <2>1, <3>4, <3>5
  <2> QED BY <2>2, <2>3
<1> QED BY <1>1, InitHolds, StepHolds, PTL DEF Spec

=============================================================================
