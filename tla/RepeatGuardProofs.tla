--------------------------- MODULE RepeatGuardProofs ---------------------------
(***************************************************************************)
(* Proofs about RepeatGuard, for all calls, results and limits.  They are  *)
(* about messages whose calls are all valid or all malformed: in a mixed   *)
(* one the guard is shown another call's result.                           *)
(***************************************************************************)
EXTENDS RepeatGuard, TLAPS

(* The message at hand: the results the guard has not come to are the real  *)
(* ones of their calls; a malformed call's result comes alone.              *)
MessageInv ==
  /\ phase # "observing" => calls = <<>> /\ contents = <<>> /\ next = 1 /\ event = "none"
  /\ next \in 1..(Len(calls) + 1)
  /\ Len(contents) = Len(calls) \/ calls = <<>>
  /\ \A i \in next..Len(calls) : contents[i] = Real(calls[i].result)

(* The guard knows the last call of the log, with its own result.           *)
PrevInv ==
  /\ guard.count = Len(log)
  /\ Len(log) > 0 => guard.prev = log[Len(log)]

CountInv == RunMatchesLog /\ ChainMatchesLog

(* A run at its limits stops the message's walk or has stopped the turn.    *)
AtLimits == guard.identical > 1 /\ OverLimits(guard)
LimitInv == AtLimits => (phase = "observing" /\ event = "stop") \/ phase = "stopped"

(* What the model was, or is about to be, told of the n-th call of a log.   *)
Truthful(lg, shown, n) ==
  IF shown.kind = "note"
  THEN /\ shown.first \in 1..(n - 1)
       /\ \A i \in shown.first..n : lg[i].key = lg[n].key /\ lg[i].result = lg[n].result
       /\ shown.repeat = n - shown.first
       /\ shown.warned <=> shown.repeat = NotesBeforeStop
  ELSE shown.result = lg[n].result

ToldInv ==
  /\ Len(log) = Len(told) + next - 1
  /\ \A n \in 1..Len(told) : Truthful(log, told[n], n)
  /\ \A i \in 1..(next - 1) : Truthful(log, contents[i], Len(told) + i)

Inv == TypeOK /\ MessageInv /\ PrevInv /\ CountInv /\ LimitInv /\ ToldInv

-----------------------------------------------------------------------------
(* The guard's arithmetic.                                                  *)

LEMMA CountedType ==
  ASSUME NEW g \in Guards, NEW key \in Keys, NEW result \in Results \cup {BadArgs, "none"}
  PROVE  Counted(g, key, result) \in Guards
<1>1. /\ g.count \in Nat /\ g.runStart \in Nat /\ g.identical \in Nat
      /\ g.firstCall \in Nat /\ g.repeats \in Nat
  BY DEF Guards
<1>2. \A a, i, f, p \in Nat :
        [count |-> g.count + 1, prev |-> [key |-> key, result |-> result],
         runStart |-> a, identical |-> i, firstCall |-> f, repeats |-> p] \in Guards
  BY <1>1 DEF Guards
<1>3. /\ (IF Identical(g, key) THEN g.runStart ELSE g.count + 1) \in Nat
      /\ (IF Identical(g, key) THEN g.identical + 1 ELSE 1) \in Nat
      /\ (IF SameResult(g, key, result) THEN g.firstCall ELSE g.count + 1) \in Nat
      /\ (IF SameResult(g, key, result) THEN g.repeats + 1 ELSE 0) \in Nat
  BY <1>1
<1> QED BY <1>2, <1>3 DEF Counted

LEMMA ShownType ==
  ASSUME NEW g \in Guards, NEW r \in Results \cup {BadArgs}
  PROVE  Real(r) \in Shown /\ Real(r).kind = "real" /\ Real(r).result = r /\ Content(g, Real(r)) \in Shown
<1>1. Real(r) \in Shown /\ Real(r).kind = "real" /\ Real(r).result = r
  BY DEF Real, Shown
<1>2. \A w \in BOOLEAN : NoteFor(g, w) \in Shown
  BY DEF NoteFor, Shown, Guards
<1> QED BY <1>1, <1>2 DEF Content

-----------------------------------------------------------------------------
(* The steps.                                                               *)

LEMMA InitInv == Init => Inv
<1> SUFFICES ASSUME Init PROVE Inv
  OBVIOUS
<1> USE GuardAssumption DEF Init
<1>1. TypeOK
  BY DEF TypeOK, NewGuard, NoCall, Guards
<1>2. MessageInv /\ PrevInv /\ CountInv
  BY DEF MessageInv, PrevInv, CountInv, RunMatchesLog, ChainMatchesLog, NewGuard, NoCall
<1>3. LimitInv /\ ToldInv
  BY DEF LimitInv, AtLimits, ToldInv, NewGuard
<1> QED BY <1>1, <1>2, <1>3 DEF Inv

(* The message of a step of Execute, when its calls are all valid or none.  *)
LEMMA ExecuteStep == ASSUME ~MixedMessages PROVE Inv /\ Execute => Inv'
<1> SUFFICES ASSUME Inv, Execute PROVE Inv'
  OBVIOUS
<1>0. PICK n \in 0..MaxMessageCalls, malformed \in 0..1 :
        /\ n = 0 \/ malformed = 0
        /\ \E msg \in [1..n -> [key : Keys, result : Results]] :
             /\ calls' = msg
             /\ contents' = Repeat(Real(BadArgs), malformed) \o [i \in 1..n |-> Real(msg[i].result)]
  BY DEF Execute
<1>1. PICK msg \in [1..n -> [key : Keys, result : Results]] :
        /\ calls' = msg
        /\ contents' = Repeat(Real(BadArgs), malformed) \o [i \in 1..n |-> Real(msg[i].result)]
  BY <1>0
<1> DEFINE head == Repeat(Real(BadArgs), malformed)
           tail == [i \in 1..n |-> Real(msg[i].result)]
<1>2. /\ n \in Nat /\ calls' \in Seq(Calls) /\ Len(calls') = n
      /\ \A i \in 1..n : calls'[i] = msg[i] /\ msg[i].result \in Results
  <2>1. n \in Nat /\ msg \in [1..n -> Calls]
    BY <1>0, <1>1, GuardAssumption DEF Calls
  <2>2. msg \in Seq(Calls) /\ Len(msg) = n
    BY <2>1
  <2>3. \A i \in 1..n : msg[i].result \in Results
    BY <2>1 DEF Calls
  <2> QED BY <1>1, <2>1, <2>2, <2>3
<1>3. tail \in Seq(Shown) /\ Len(tail) = n /\ \A i \in 1..n : tail[i] = Real(msg[i].result)
  <2>1. \A i \in 1..n : Real(msg[i].result) \in Shown
    BY <1>2 DEF Real, Shown
  <2> QED BY <1>2, <2>1
<1>4. head \in Seq(Shown) /\ Len(head) = malformed
  <2>1. Real(BadArgs) \in Shown
    BY DEF Real, Shown
  <2> QED BY <1>1, <2>1 DEF Repeat
<1>5. contents' = head \o tail
  BY <1>1
<1>6. /\ Len(contents') = n \/ n = 0
      /\ \A i \in 1..n : contents'[i] = Real(calls'[i].result)
  <2>1. CASE malformed = 0
    <3> HIDE DEF head, tail
    <3>1. head = <<>>
      BY <1>4, <2>1
    <3>2. contents' = tail
      BY <1>3, <1>5, <3>1
    <3> QED BY <1>2, <1>3, <3>2
  <2>2. CASE n = 0
    BY <1>2, <2>2
  <2> QED BY <1>0, <2>1, <2>2
<1>7. contents' \in Seq(Shown)
  <2> HIDE DEF head, tail
  <2> QED BY <1>3, <1>4, <1>5
<1>8. /\ phase = "model" /\ phase' = "observing" /\ next' = 1 /\ event' = "none"
      /\ UNCHANGED <<guard, log, told>>
  BY DEF Execute
<1>9. TypeOK'
  BY <1>2, <1>7, <1>8 DEF Inv, TypeOK
<1>10. MessageInv'
  BY <1>2, <1>6, <1>8 DEF MessageInv
<1>11. PrevInv' /\ CountInv'
  BY <1>8 DEF Inv, PrevInv, CountInv, RunMatchesLog, ChainMatchesLog, SameCall, SameChain
<1>12. LimitInv'
  BY <1>8 DEF Inv, LimitInv, AtLimits
<1>13. ToldInv'
  BY <1>8 DEF Inv, MessageInv, ToldInv
<1> QED BY <1>9, <1>10, <1>11, <1>12, <1>13 DEF Inv

(* What a step of Observe looks at, and what it writes.                     *)
LEMMA ObserveFacts ==
  ASSUME Inv, Observe
  PROVE  /\ next \in Nat /\ next >= 1 /\ next <= Len(calls) /\ Len(contents) = Len(calls)
         /\ calls[next] \in Calls /\ contents[next] = Real(calls[next].result)
         /\ guard' = Counted(guard, calls[next].key, calls[next].result)
         /\ contents' = [contents EXCEPT ![next] = Content(guard', Real(calls[next].result))]
         /\ event' = IF Verdict(guard') = "none" THEN event ELSE Verdict(guard')
         /\ next' = next + 1 /\ phase = "observing" /\ UNCHANGED <<calls, phase, told>>
         /\ log' = Append(log, calls[next]) /\ log' \in Seq(Calls) /\ Len(log) \in Nat
         /\ Len(log') = Len(log) + 1 /\ log'[Len(log) + 1] = calls[next]
         /\ \A i \in 1..Len(log) : log'[i] = log[i]
<1> USE DEF Inv, TypeOK, MessageInv
<1>1. /\ next \in Nat /\ next >= 1 /\ next <= Len(calls) /\ Len(contents) = Len(calls)
      /\ calls[next] \in Calls /\ contents[next] = Real(calls[next].result)
  BY DEF Observe
<1>2. contents[next].result = calls[next].result
  BY <1>1, ShownType DEF Calls
<1>3. guard' = Counted(guard, calls[next].key, calls[next].result)
  BY <1>2 DEF Observe
<1>4. /\ contents' = [contents EXCEPT ![next] = Content(guard', Real(calls[next].result))]
      /\ event' = IF Verdict(guard') = "none" THEN event ELSE Verdict(guard')
      /\ next' = next + 1 /\ phase = "observing" /\ UNCHANGED <<calls, phase, told>>
      /\ log' = Append(log, calls[next])
  BY <1>1, <1>3 DEF Observe
<1>5. /\ log' \in Seq(Calls) /\ Len(log) \in Nat /\ Len(log') = Len(log) + 1
      /\ log'[Len(log) + 1] = calls[next] /\ \A i \in 1..Len(log) : log'[i] = log[i]
  BY <1>1, <1>4
<1> QED BY <1>1, <1>3, <1>4, <1>5

(* The counters after an observed call are again what the log says.         *)
LEMMA CountStep == Inv /\ Observe => PrevInv' /\ CountInv'
<1> SUFFICES ASSUME Inv, Observe PROVE PrevInv' /\ CountInv'
  OBVIOUS
<1> DEFINE n == Len(log)
           c == calls[next]
<1>1. guard' = Counted(guard, c.key, c.result) /\ guard \in Guards /\ c \in Calls
  BY ObserveFacts DEF Inv, TypeOK
<1>2. n \in Nat /\ Len(log') = n + 1 /\ log'[n + 1] = c
  BY ObserveFacts DEF Inv, TypeOK
<1>3. \A i \in 1..n : log'[i] = log[i]
  BY ObserveFacts DEF Inv, TypeOK
<1>4. guard.count = n /\ (n > 0 => guard.prev = log[n])
  BY DEF Inv, PrevInv, CountInv, RunMatchesLog
<1>5. n > 0 =>
        /\ guard.runStart \in 1..n /\ guard.identical = n - guard.runStart + 1
        /\ guard.firstCall \in guard.runStart..n /\ guard.repeats = n - guard.firstCall
  BY DEF Inv, CountInv, RunMatchesLog, ChainMatchesLog
<1>6. n > 0 =>
        /\ guard.prev.key = log[n].key
        /\ \A i \in guard.runStart..n : log[i].key = log[n].key
        /\ guard.runStart > 1 => log[guard.runStart - 1].key # log[n].key
  BY DEF Inv, CountInv, RunMatchesLog, SameCall
<1>7. n > 0 =>
        /\ \A i \in guard.firstCall..n : log[i].result = log[n].result
        /\ guard.firstCall > guard.runStart => log[guard.firstCall - 1].result # log[n].result
  BY DEF Inv, CountInv, ChainMatchesLog, SameChain
<1> HIDE DEF n, c
<1>8. guard'.count = n + 1 /\ guard'.prev = [key |-> c.key, result |-> c.result]
  BY <1>1, <1>4 DEF Counted
<1>9. PrevInv'
  BY <1>1, <1>2, <1>8 DEF PrevInv, Calls
<1>10. n > 0 =>
         /\ guard.runStart \in Nat /\ guard.runStart >= 1 /\ guard.runStart <= n
         /\ guard.firstCall \in Nat /\ guard.firstCall >= guard.runStart /\ guard.firstCall <= n
  BY <1>2, <1>5
<1>11. ASSUME n > 0, c.key = log[n].key
       PROVE  /\ \A i \in guard.runStart..(n + 1) : log'[i].key = c.key
              /\ guard.runStart > 1 => log'[guard.runStart - 1].key # c.key
  <2>1. ASSUME NEW i \in guard.runStart..(n + 1) PROVE log'[i].key = c.key
    <3>1. i = n + 1 \/ (i \in 1..n /\ i \in guard.runStart..n)
      BY <1>2, <1>10, <1>11
    <3>2. CASE i = n + 1
      BY <1>2, <3>2
    <3>3. CASE i \in 1..n /\ i \in guard.runStart..n
      BY <1>3, <1>6, <1>11, <3>3
    <3> QED BY <3>1, <3>2, <3>3
  <2>2. ASSUME guard.runStart > 1 PROVE log'[guard.runStart - 1].key # c.key
    <3>1. guard.runStart - 1 \in 1..n
      BY <1>2, <1>10, <1>11, <2>2
    <3> QED BY <1>3, <1>6, <1>11, <2>2, <3>1
  <2> QED BY <2>1, <2>2
<1>12. ASSUME n > 0, c.key = log[n].key,
              guard'.runStart = guard.runStart, guard'.identical = guard.identical + 1
       PROVE  RunMatchesLog'
  <2>1. guard'.prev.key = c.key
    BY <1>8
  <2>2. guard.runStart \in 1..(n + 1) /\ guard'.identical = (n + 1) - guard.runStart + 1
    BY <1>2, <1>5, <1>10, <1>12
  <2> QED BY <1>2, <1>8, <1>11, <1>12, <2>1, <2>2 DEF RunMatchesLog, SameCall
<1>13. CASE n > 0 /\ c.key = log[n].key /\ c.result = log[n].result
  <2>1. Identical(guard, c.key) /\ SameResult(guard, c.key, c.result)
    BY <1>4, <1>13 DEF Identical, SameResult
  <2>2. /\ guard'.runStart = guard.runStart /\ guard'.identical = guard.identical + 1
        /\ guard'.firstCall = guard.firstCall /\ guard'.repeats = guard.repeats + 1
    BY <1>1, <2>1 DEF Counted
  <2>3. ASSUME NEW i \in guard.firstCall..(n + 1)
        PROVE  log'[i].key = c.key /\ log'[i].result = c.result
    <3>1. i = n + 1 \/ (i \in 1..n /\ i \in guard.firstCall..n /\ i \in guard.runStart..n)
      BY <1>2, <1>10, <1>13
    <3>2. CASE i = n + 1
      BY <1>2, <3>2
    <3>3. CASE i \in 1..n /\ i \in guard.firstCall..n /\ i \in guard.runStart..n
      BY <1>3, <1>6, <1>7, <1>13, <3>3
    <3> QED BY <3>1, <3>2, <3>3
  <2>4. ASSUME guard.firstCall > guard.runStart PROVE log'[guard.firstCall - 1].result # c.result
    <3>1. guard.firstCall - 1 \in 1..n
      BY <1>2, <1>10, <1>13, <2>4
    <3> QED BY <1>3, <1>7, <1>13, <2>4, <3>1
  <2>5. guard.firstCall \in guard.runStart..(n + 1) /\ guard'.repeats = (n + 1) - guard.firstCall
    BY <1>2, <1>5, <1>10, <1>13, <2>2
  <2>6. ChainMatchesLog'
    BY <1>2, <2>2, <2>3, <2>4, <2>5 DEF ChainMatchesLog, SameCall, SameChain
  <2> QED BY <1>9, <1>12, <1>13, <2>2, <2>6 DEF CountInv
<1>14. CASE n > 0 /\ c.key = log[n].key /\ c.result # log[n].result
  <2>1. Identical(guard, c.key) /\ ~SameResult(guard, c.key, c.result)
    BY <1>4, <1>14 DEF Identical, SameResult
  <2>2. /\ guard'.runStart = guard.runStart /\ guard'.identical = guard.identical + 1
        /\ guard'.firstCall = n + 1 /\ guard'.repeats = 0
    BY <1>1, <1>4, <2>1 DEF Counted
  <2>3. guard.runStart \in Nat /\ guard.runStart <= n /\ log'[n].result # log'[n + 1].result
    BY <1>2, <1>3, <1>10, <1>14
  <2>4. ChainMatchesLog'
    BY <1>2, <2>2, <2>3 DEF ChainMatchesLog, SameCall, SameChain
  <2> QED BY <1>9, <1>12, <1>14, <2>2, <2>4 DEF CountInv
<1>15. CASE n = 0 \/ c.key # log[n].key
  <2>1. ~Identical(guard, c.key) /\ ~SameResult(guard, c.key, c.result)
    BY <1>2, <1>4, <1>15 DEF Identical, SameResult
  <2>2. /\ guard'.runStart = n + 1 /\ guard'.identical = 1
        /\ guard'.firstCall = n + 1 /\ guard'.repeats = 0
    BY <1>1, <1>4, <2>1 DEF Counted
  <2>3. n > 0 => log'[n].key # log'[n + 1].key
    BY <1>2, <1>3, <1>15
  <2>4. RunMatchesLog'
    BY <1>2, <1>8, <2>2, <2>3 DEF RunMatchesLog, SameCall
  <2>5. ChainMatchesLog'
    BY <1>2, <2>2 DEF ChainMatchesLog, SameCall, SameChain
  <2> QED BY <1>9, <2>4, <2>5 DEF CountInv
<1> QED BY <1>2, <1>13, <1>14, <1>15

LEMMA ObserveStep == Inv /\ Observe => Inv'
<1> SUFFICES ASSUME Inv, Observe PROVE Inv'
  OBVIOUS
<1> DEFINE n == Len(log)
           c == calls[next]
           shown == Content(guard', Real(c.result))
<1>1. /\ next \in Nat /\ next >= 1 /\ next <= Len(calls) /\ Len(contents) = Len(calls)
      /\ c \in Calls /\ guard' = Counted(guard, c.key, c.result)
      /\ contents' = [contents EXCEPT ![next] = shown] /\ next' = next + 1
      /\ event' = IF Verdict(guard') = "none" THEN event ELSE Verdict(guard')
      /\ phase = "observing" /\ UNCHANGED <<calls, phase, told>>
      /\ n \in Nat /\ Len(log') = n + 1 /\ log'[n + 1] = c /\ log' \in Seq(Calls)
      /\ \A i \in 1..n : log'[i] = log[i]
  BY ObserveFacts
<1>2. PrevInv' /\ CountInv'
  BY CountStep
<1>3. guard \in Guards /\ calls \in Seq(Calls) /\ contents \in Seq(Shown) /\ told \in Seq(Shown)
      /\ event \in {"none", "note", "stop"}
  BY DEF Inv, TypeOK
<1>4. guard' \in Guards /\ c.result \in Results
  BY <1>1, <1>3, CountedType DEF Calls
<1>5. shown \in Shown
  BY <1>4, ShownType
<1>6. TypeOK'
  <2>1. contents' \in Seq(Shown)
    BY <1>1, <1>3, <1>5
  <2>2. Verdict(guard') \in {"none", "note", "stop"}
    BY DEF Verdict
  <2> QED BY <1>1, <1>3, <1>4, <2>1, <2>2 DEF TypeOK
<1>7. MessageInv'
  <2>1. Len(contents') = Len(contents) /\ \A i \in 1..Len(contents) : i # next => contents'[i] = contents[i]
    BY <1>1, <1>3
  <2>2. \A i \in next..Len(calls) : contents[i] = Real(calls[i].result)
    BY DEF Inv, MessageInv
  <2> QED BY <1>1, <1>3, <2>1, <2>2 DEF MessageInv
<1>8. LimitInv'
  <2>1. CASE Verdict(guard') = "stop"
    BY <1>1, <2>1 DEF LimitInv
  <2>2. CASE Verdict(guard') # "stop"
    BY <2>2 DEF LimitInv, AtLimits, Verdict
  <2> QED BY <2>1, <2>2
<1>9. ToldInv'
  <2>1. n = Len(told) + next - 1 /\ Len(told) \in Nat
    BY <1>3 DEF Inv, ToldInv
  <2>2. \A s \in Shown : \A i \in 1..n : Truthful(log, s, i) => Truthful(log', s, i)
    <3> SUFFICES ASSUME NEW s \in Shown, NEW i \in 1..n, Truthful(log, s, i)
                 PROVE  Truthful(log', s, i)
      OBVIOUS
    <3>1. CASE s.kind = "note"
      <4>1. /\ s.first \in 1..(i - 1) /\ s.first \in Nat /\ s.repeat = i - s.first
            /\ s.warned <=> s.repeat = NotesBeforeStop
            /\ \A j \in s.first..i : log[j].key = log[i].key /\ log[j].result = log[i].result
        BY <3>1 DEF Truthful, Shown
      <4>2. \A j \in s.first..i : j \in 1..n
        BY <4>1
      <4>3. \A j \in s.first..i : log'[j] = log[j]
        BY <1>1, <4>2
      <4> QED BY <3>1, <4>1, <4>3 DEF Truthful
    <3>2. CASE s.kind # "note"
      BY <1>1, <3>2 DEF Truthful
    <3> QED BY <3>1, <3>2
  <2>3. Truthful(log', shown, n + 1)
    <3>1. CASE guard'.repeats = 0
      <4>1. shown = Real(c.result)
        BY <3>1 DEF Content
      <4> QED BY <1>1, <1>4, <4>1, ShownType DEF Truthful
    <3>2. CASE guard'.repeats # 0
      <4>1. /\ guard'.firstCall \in guard'.runStart..(n + 1) /\ guard'.runStart \in 1..(n + 1)
            /\ \A i \in guard'.firstCall..(n + 1) :
                 log'[i].key = log'[n + 1].key /\ log'[i].result = log'[n + 1].result
            /\ guard'.repeats = (n + 1) - guard'.firstCall
        <5> HIDE DEF n
        <5>1. Len(log') = n + 1 /\ n + 1 > 0
          BY <1>1
        <5>2. RunMatchesLog' /\ ChainMatchesLog'
          BY <1>2 DEF CountInv
        <5>3. guard'.runStart \in 1..(n + 1)
          BY <5>1, <5>2 DEF RunMatchesLog
        <5>4. guard'.firstCall \in guard'.runStart..(n + 1) /\ guard'.repeats = (n + 1) - guard'.firstCall
          BY <1>1, <5>1, <5>2 DEF ChainMatchesLog
        <5>5. \A i \in guard'.firstCall..(n + 1) : log'[i].key = log'[n + 1].key
          BY <5>1, <5>2 DEF ChainMatchesLog, SameChain, SameCall
        <5>6. \A i \in guard'.firstCall..(n + 1) : log'[i].result = log'[n + 1].result
          BY <5>1, <5>2 DEF ChainMatchesLog, SameChain
        <5> QED BY <5>3, <5>4, <5>5, <5>6
      <4>2. /\ shown.kind = "note" /\ shown.first = guard'.firstCall /\ shown.repeat = guard'.repeats
            /\ shown.warned = (guard'.repeats = NotesBeforeStop)
        BY <3>2 DEF Content, NoteFor
      <4>3. guard'.firstCall \in 1..n
        BY <1>1, <3>2, <4>1
      <4> HIDE DEF shown, n
      <4>4. guard'.firstCall \in 1..((n + 1) - 1)
        BY <1>1, <4>3
      <4>5. \A i \in shown.first..(n + 1) :
              log'[i].key = log'[n + 1].key /\ log'[i].result = log'[n + 1].result
        BY <4>1, <4>2
      <4>6. shown.repeat = (n + 1) - shown.first /\ shown.first \in 1..((n + 1) - 1)
        BY <4>1, <4>2, <4>4
      <4>7. shown.warned <=> shown.repeat = NotesBeforeStop
        BY <4>2
      <4> QED BY <4>2, <4>5, <4>6, <4>7 DEF Truthful
    <3> QED BY <3>1, <3>2
  <2>4. \A i \in 1..Len(told) : Truthful(log', told'[i], i)
    BY <1>1, <1>3, <2>1, <2>2 DEF Inv, ToldInv
  <2>5. \A i \in 1..(next - 1) :
          contents'[i] = contents[i] /\ contents[i] \in Shown /\ Truthful(log, contents[i], Len(told) + i)
    BY <1>1, <1>3 DEF Inv, ToldInv
  <2>6. \A i \in 1..(next - 1) : Truthful(log', contents'[i], Len(told) + i)
    <3> SUFFICES ASSUME NEW i \in 1..(next - 1)
                 PROVE  Truthful(log', contents'[i], Len(told) + i)
      OBVIOUS
    <3>1. Len(told) + i \in 1..n
      <4>1. n \in Nat /\ next \in Nat /\ n = Len(told) + next - 1 /\ Len(told) \in Nat
        BY <1>1, <2>1
      <4> HIDE DEF n
      <4> QED BY <4>1
    <3> QED BY <2>2, <2>5, <3>1
  <2>7. contents'[next] = shown /\ Len(told) + next = n + 1
    BY <1>1, <1>3, <2>1
  <2>8. \A i \in 1..(next' - 1) : Truthful(log', contents'[i], Len(told) + i)
    <3> HIDE DEF shown, n
    <3> SUFFICES ASSUME NEW i \in 1..(next' - 1)
                 PROVE  Truthful(log', contents'[i], Len(told) + i)
      OBVIOUS
    <3>1. i \in 1..(next - 1) \/ i = next
      BY <1>1
    <3> QED BY <2>3, <2>6, <2>7, <3>1
  <2> QED BY <1>1, <2>1, <2>4, <2>8 DEF ToldInv
<1> QED BY <1>2, <1>6, <1>7, <1>8, <1>9 DEF Inv

(* The model has been told what the message's calls show.                   *)
LEMMA DoneStep == Inv /\ MessageDone => Inv'
<1> SUFFICES ASSUME Inv, MessageDone PROVE Inv'
  OBVIOUS
<1> DEFINE part == SubSeq(contents, Len(contents) - Len(calls) + 1, Len(contents))
<1>1. /\ phase = "observing" /\ next > Len(calls)
      /\ phase' = IF event = "stop" THEN "stopped" ELSE "model"
      /\ told' = told \o part
      /\ calls' = <<>> /\ contents' = <<>> /\ next' = 1 /\ event' = "none"
      /\ UNCHANGED <<guard, log>>
  BY DEF MessageDone
<1>2. /\ calls \in Seq(Calls) /\ contents \in Seq(Shown) /\ told \in Seq(Shown) /\ next \in Nat
      /\ Len(calls) \in Nat /\ Len(told) \in Nat /\ next = Len(calls) + 1
      /\ Len(contents) = Len(calls) \/ Len(calls) = 0
  BY <1>1 DEF Inv, TypeOK, MessageInv
<1>3. part \in Seq(Shown) /\ Len(part) = Len(calls) /\ \A i \in 1..Len(calls) : part[i] = contents[i]
  <2>1. CASE Len(contents) = Len(calls)
    BY <1>2, <2>1
  <2>2. CASE Len(calls) = 0
    BY <1>2, <2>2
  <2> QED BY <1>2, <2>1, <2>2
<1>4. TypeOK'
  <2> HIDE DEF part
  <2>1. told' \in Seq(Shown)
    BY <1>1, <1>2, <1>3
  <2> QED BY <1>1, <2>1 DEF Inv, TypeOK
<1>5. MessageInv'
  BY <1>1 DEF MessageInv
<1>6. PrevInv' /\ CountInv'
  BY <1>1 DEF Inv, PrevInv, CountInv, RunMatchesLog, ChainMatchesLog, SameCall, SameChain
<1>7. LimitInv'
  BY <1>1 DEF Inv, LimitInv, AtLimits
<1>8. ToldInv'
  <2> HIDE DEF part
  <2>1. /\ Len(log) = Len(told) + Len(calls)
        /\ \A n \in 1..Len(told) : Truthful(log, told[n], n)
        /\ \A i \in 1..Len(calls) : Truthful(log, contents[i], Len(told) + i)
    BY <1>2 DEF Inv, ToldInv
  <2>2. /\ Len(told') = Len(told) + Len(calls)
        /\ \A n \in 1..Len(told) : told'[n] = told[n]
        /\ \A n \in (Len(told) + 1)..(Len(told) + Len(calls)) : told'[n] = part[n - Len(told)]
    <3>1. \A s, t \in Seq(Shown) :
            /\ Len(s \o t) = Len(s) + Len(t)
            /\ \A n \in 1..Len(s) : (s \o t)[n] = s[n]
            /\ \A n \in (Len(s) + 1)..(Len(s) + Len(t)) : (s \o t)[n] = t[n - Len(s)]
      OBVIOUS
    <3>2. told \in Seq(Shown) /\ part \in Seq(Shown) /\ told' = told \o part /\ Len(part) = Len(calls)
      BY <1>1, <1>2, <1>3
    <3> QED BY <3>1, <3>2
  <2>3. \A n \in 1..Len(told') : Truthful(log, told'[n], n)
    <3> SUFFICES ASSUME NEW n \in 1..Len(told') PROVE Truthful(log, told'[n], n)
      OBVIOUS
    <3>1. CASE n \in 1..Len(told)
      BY <2>1, <2>2, <3>1
    <3>2. CASE n \in (Len(told) + 1)..(Len(told) + Len(calls))
      <4>1. n - Len(told) \in 1..Len(calls) /\ Len(told) + (n - Len(told)) = n
        BY <1>2, <3>2
      <4>2. told'[n] = contents[n - Len(told)]
        BY <1>3, <2>2, <3>2, <4>1
      <4>3. Truthful(log, contents[n - Len(told)], Len(told) + (n - Len(told)))
        BY <2>1, <4>1
      <4> QED BY <4>1, <4>2, <4>3
    <3> QED BY <1>2, <2>2, <3>1, <3>2
  <2> QED BY <1>1, <2>1, <2>2, <2>3 DEF ToldInv
<1> QED BY <1>4, <1>5, <1>6, <1>7, <1>8 DEF Inv

LEMMA Invariant == ASSUME ~MixedMessages PROVE Spec => []Inv
<1>1. Inv /\ UNCHANGED vars => Inv'
  BY DEF vars, Inv, TypeOK, MessageInv, PrevInv, CountInv, RunMatchesLog, ChainMatchesLog, SameCall,
         SameChain, LimitInv, AtLimits, ToldInv
<1>2. Inv /\ [Next]_vars => Inv'
  BY <1>1, ExecuteStep, ObserveStep, DoneStep DEF Next
<1> QED BY <1>2, InitInv, PTL DEF Spec

-----------------------------------------------------------------------------
(* What the guard promises.                                                 *)

(* The guard's state, the message at hand and the histories keep their types, *)
(* in mixed messages too: there are never fewer results than valid calls.    *)
TypeInv == TypeOK /\ next > 0 /\ Len(contents) >= Len(calls)

THEOREM TypeCorrect == Spec => []TypeOK
<1> USE DEF TypeInv, TypeOK
<1>1. Init => TypeInv
  BY DEF Init, NewGuard, NoCall, Guards
<1>2. TypeInv /\ Execute => TypeInv'
  <2> SUFFICES ASSUME TypeInv, Execute PROVE TypeInv'
    OBVIOUS
  <2>1. PICK n \in 0..MaxMessageCalls, malformed \in 0..1 :
          \E msg \in [1..n -> Calls] :
             /\ calls' = msg
             /\ contents' = Repeat(Real(BadArgs), malformed) \o [i \in 1..n |-> Real(msg[i].result)]
    BY DEF Execute, Calls
  <2>2. PICK msg \in [1..n -> Calls] :
             /\ calls' = msg
             /\ contents' = Repeat(Real(BadArgs), malformed) \o [i \in 1..n |-> Real(msg[i].result)]
    BY <2>1
  <2> DEFINE head == Repeat(Real(BadArgs), malformed)
             tail == [i \in 1..n |-> Real(msg[i].result)]
  <2>3. n \in Nat /\ malformed \in Nat
    BY <2>1, GuardAssumption
  <2>4. calls' \in Seq(Calls) /\ Len(calls') = n
    BY <2>2, <2>3
  <2>5. head \in Seq(Shown) /\ Len(head) = malformed
    BY <2>3 DEF Repeat, Real, Shown
  <2>6. tail \in Seq(Shown) /\ Len(tail) = n
    <3>1. \A i \in 1..n : Real(msg[i].result) \in Shown
      BY DEF Real, Shown, Calls
    <3> QED BY <2>3, <3>1
  <2>7. contents' = head \o tail
    BY <2>2
  <2> HIDE DEF head, tail
  <2>8. contents' \in Seq(Shown) /\ Len(contents') = malformed + n
    BY <2>5, <2>6, <2>7
  <2> QED BY <2>3, <2>4, <2>8 DEF Execute
<1>3. TypeInv /\ Observe => TypeInv'
  <2> SUFFICES ASSUME TypeInv, Observe PROVE TypeInv'
    OBVIOUS
  <2> DEFINE seen == contents[next]
  <2>1. next \in 1..Len(calls) /\ next \in 1..Len(contents) /\ seen \in Shown /\ calls[next] \in Calls
    BY DEF Observe
  <2>2. guard' = Counted(guard, calls[next].key, seen.result)
        /\ contents' = [contents EXCEPT ![next] = Content(guard', seen)]
    BY DEF Observe
  <2>3. calls[next].key \in Keys /\ seen.result \in Results \cup {BadArgs, "none"}
    BY <2>1 DEF Calls, Shown
  <2> HIDE DEF seen
  <2>4. guard' \in Guards
    <3>1. guard \in Guards
      BY DEF Guards
    <3>2. Counted(guard, calls[next].key, seen.result) \in Guards
      BY <2>3, <3>1, CountedType
    <3> QED BY <2>2, <3>2
  <2>5. Content(guard', seen) \in Shown
    <3>1. \A w \in BOOLEAN : NoteFor(guard', w) \in Shown
      BY <2>4 DEF NoteFor, Shown, Guards
    <3> QED BY <2>1, <3>1 DEF Content
  <2> DEFINE shown == Content(guard', seen)
  <2>6. contents' \in Seq(Shown) /\ Len(contents') = Len(contents)
    <3>1. contents' = [contents EXCEPT ![next] = shown] /\ shown \in Shown /\ contents \in Seq(Shown)
      BY <2>2, <2>5
    <3> HIDE DEF shown
    <3> QED BY <2>1, <3>1
  <2>7. event' \in {"none", "note", "stop"} /\ log' \in Seq(Calls) /\ next' \in Nat /\ next' > 0
        /\ UNCHANGED <<calls, phase, told>>
    BY <2>1 DEF Observe, Verdict
  <2> QED BY <2>4, <2>6, <2>7
<1>4. TypeInv /\ MessageDone => TypeInv'
  <2> SUFFICES ASSUME TypeInv, MessageDone PROVE TypeInv'
    OBVIOUS
  <2>1. SubSeq(contents, Len(contents) - Len(calls) + 1, Len(contents)) \in Seq(Shown)
    OBVIOUS
  <2>2. told' \in Seq(Shown)
    BY <2>1 DEF MessageDone
  <2> QED BY <2>2 DEF MessageDone
<1>5. TypeInv /\ UNCHANGED vars => TypeInv'
  BY DEF vars
<1>6. TypeInv /\ [Next]_vars => TypeInv'
  BY <1>2, <1>3, <1>4, <1>5 DEF Next
<1>7. TypeInv => TypeOK
  OBVIOUS
<1> QED BY <1>1, <1>6, <1>7, PTL DEF Spec

(* The LLM is not asked again with the run of calls that ends the turn's log *)
(* at either limit: the counters are that run's lengths, and no longer run   *)
(* or chain ends the log.                                                    *)
LEMMA Stops == Inv => StopsAtLimits
<1> SUFFICES ASSUME Inv, phase = "model", Len(log) > 0, NEW a \in 1..Len(log)
             PROVE  /\ SameChain(a, Len(log)) => Len(log) - a <= NotesBeforeStop
                    /\ SameCall(a, Len(log)) => Len(log) - a + 1 < MaxIdenticalCalls
  BY DEF StopsAtLimits
<1> DEFINE n == Len(log)
<1>1. /\ n \in Nat \ {0} /\ guard.runStart \in 1..n /\ guard.firstCall \in guard.runStart..n
      /\ guard.identical = n - guard.runStart + 1 /\ guard.repeats = n - guard.firstCall
  BY DEF Inv, TypeOK, CountInv, RunMatchesLog, ChainMatchesLog
<1>2. /\ guard.runStart > 1 => log[guard.runStart - 1].key # log[n].key
      /\ guard.firstCall > guard.runStart => log[guard.firstCall - 1].result # log[n].result
  BY <1>1 DEF Inv, CountInv, RunMatchesLog, ChainMatchesLog
<1>3. ~(guard.identical > 1) \/ ~OverLimits(guard)
  BY DEF Inv, LimitInv, AtLimits
<1> HIDE DEF n
<1>4. /\ guard.runStart \in Nat /\ guard.runStart >= 1 /\ guard.runStart <= n
      /\ guard.firstCall \in Nat /\ guard.firstCall >= guard.runStart /\ guard.firstCall <= n
  BY <1>1
<1>5. NotesBeforeStop \in Nat /\ MaxIdenticalCalls \in Nat /\ MaxIdenticalCalls >= 2
  BY GuardAssumption
<1>6. guard.repeats <= NotesBeforeStop /\ guard.identical < MaxIdenticalCalls
  <2>1. guard.identical \in Nat /\ guard.repeats \in Nat
    BY <1>1, <1>4
  <2>2. CASE ~(guard.identical > 1)
    <3>1. guard.firstCall = n
      BY <1>1, <1>4, <2>1, <2>2
    <3>2. guard.repeats = 0
      BY <1>1, <1>4, <3>1
    <3> QED BY <1>5, <2>1, <2>2, <3>2
  <2>3. CASE ~OverLimits(guard)
    BY <1>5, <2>1, <2>3 DEF OverLimits
  <2> QED BY <1>3, <2>2, <2>3
<1>7. a \in Nat /\ a >= 1 /\ a <= n
  BY <1>1 DEF n
<1>8. ASSUME SameCall(a, n) PROVE a >= guard.runStart
  <2> SUFFICES ASSUME a < guard.runStart PROVE FALSE
    BY <1>4, <1>7
  <2>1. guard.runStart > 1 /\ guard.runStart - 1 \in a..n
    BY <1>1, <1>4, <1>7
  <2>2. log[guard.runStart - 1].key = log[n].key
    BY <1>8, <2>1 DEF SameCall
  <2> QED BY <1>2, <2>1, <2>2
<1>9. ASSUME SameChain(a, n) PROVE a >= guard.firstCall
  <2> SUFFICES ASSUME a < guard.firstCall PROVE FALSE
    BY <1>4, <1>7
  <2>1. a >= guard.runStart
    BY <1>8, <1>9 DEF SameChain
  <2>2. guard.firstCall > guard.runStart /\ guard.firstCall - 1 \in a..n
    BY <1>1, <1>4, <1>7, <2>1
  <2>3. log[guard.firstCall - 1].result = log[n].result
    BY <1>9, <2>2 DEF SameChain
  <2> QED BY <1>2, <2>2, <2>3
<1>10. SameChain(a, n) => n - a <= NotesBeforeStop
  BY <1>1, <1>4, <1>5, <1>6, <1>7, <1>9
<1>11. SameCall(a, n) => n - a + 1 < MaxIdenticalCalls
  BY <1>1, <1>4, <1>5, <1>6, <1>7, <1>8
<1> QED BY <1>10, <1>11 DEF n

THEOREM CountersFollowLog == ASSUME ~MixedMessages PROVE Spec => []CountersMatchLog
<1>1. Inv => CountersMatchLog
  BY Stops DEF Inv, CountInv, CountersMatchLog
<1> QED BY <1>1, Invariant, PTL

(* A note the model was given names calls that really repeat, and every other *)
(* result it was given is the call's own.                                    *)
THEOREM NotesTellTheTruth == ASSUME ~MixedMessages PROVE Spec => []NotesAreTruthful
<1>1. Inv => NotesAreTruthful
  <2> SUFFICES ASSUME Inv, NEW n \in DOMAIN told
               PROVE  IF told[n].kind = "note"
                      THEN /\ told[n].first \in 1..(n - 1) /\ SameChain(told[n].first, n)
                           /\ told[n].repeat = n - told[n].first
                           /\ told[n].warned <=> told[n].repeat = NotesBeforeStop
                      ELSE told[n].result = log[n].result
    BY DEF NotesAreTruthful
  <2>1. n \in 1..Len(told)
    BY DEF Inv, TypeOK
  <2>2. Truthful(log, told[n], n)
    BY <2>1 DEF Inv, ToldInv
  <2> QED BY <2>2 DEF Truthful, SameChain, SameCall
<1> QED BY <1>1, Invariant, PTL

=============================================================================
