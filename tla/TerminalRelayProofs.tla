------------------------ MODULE TerminalRelayProofs ------------------------
(* Proofs about TerminalRelay, for any sizes of messages and of the queue  *)
(* and any limits of time.                                                 *)
EXTENDS TerminalRelay, FiniteSets, FiniteSetTheorems, WellFoundedInduction, TLAPS

(* A goroutine that ends leaves an error. *)
LEMMA EndIsNoticed ==
  ASSUME NoticeInv, NEW g \in Goroutines, NEW e \in {"eof", "error"}, End(g, e),
         UNCHANGED mainVars
  PROVE  NoticeInv'
<1>1. errs' \in Seq({"eof", "error"}) /\ errs' # <<>>
  <2>1. errs \in Seq({"eof", "error"})
    BY DEF NoticeInv
  <2>2. CASE Len(errs) < ErrsCapacity
    BY <2>1, <2>2 DEF End
  <2>3. CASE ~(Len(errs) < ErrsCapacity)
    <3>1. errs # <<>>
      BY <2>1, <2>3 DEF ErrsCapacity
    <3>2. QED
      BY <2>1, <2>3, <3>1 DEF End
  <2>4. QED
    BY <2>2, <2>3
<1>2. QED
  BY <1>1 DEF NoticeInv, NoSilentEnd, End, Goto, mainVars

(* No step of a goroutine ends it unnoticed. *)
LEMMA NoticeStep == NoticeInv /\ [Next]_vars => NoticeInv'
<1> SUFFICES ASSUME NoticeInv, [Next]_vars PROVE NoticeInv'
  OBVIOUS
<1> USE RelayAssumption DEF NoticeInv, NoSilentEnd, vars, queueVars,
       mainVars, timeVars, Goto, Goroutines
<1>1. ASSUME Take, UNCHANGED <<mainVars, shell>>
      PROVE  NoticeInv'
  BY <1>1 DEF Take
<1>2. ASSUME Discount, UNCHANGED <<mainVars, shell>>
      PROVE  NoticeInv'
  BY <1>2 DEF Discount
<1>3. ASSUME Write, UNCHANGED <<mainVars, shell>>
      PROVE  NoticeInv'
  <2>1. ASSUME NEW e \in {"eof", "error"}, End("writer", e) PROVE NoticeInv'
    BY <1>3, <2>1, EndIsNoticed
  <2>2. QED
    BY <1>3, <2>1 DEF Write
<1>4. ASSUME Ping, UNCHANGED <<mainVars, shell>>
      PROVE  NoticeInv'
  BY <1>4 DEF Ping, BeginSend
<1>5. ASSUME WriterStops, UNCHANGED <<mainVars, shell>>
      PROVE  NoticeInv'
  BY <1>5 DEF WriterStops
<1>6. ASSUME OutputFails, UNCHANGED <<mainVars, shell>>
      PROVE  NoticeInv'
  <2>1. ASSUME NEW e \in {"eof", "error"}, End("output", e) PROVE NoticeInv'
    BY <1>6, <2>1, EndIsNoticed
  <2>2. QED
    BY <1>6, <2>1 DEF OutputFails, EndOfRead
<1>7. ASSUME ReadOutput, UNCHANGED <<mainVars, shell>>
      PROVE  NoticeInv'
  <2>1. ASSUME NEW e \in {"eof", "error"}, End("output", e) PROVE NoticeInv'
    BY <1>7, <2>1, EndIsNoticed
  <2>2. QED
    BY <1>7, <2>1 DEF ReadOutput, BeginSend
<1>8. ASSUME InputFails, UNCHANGED <<mainVars, shell>>
      PROVE  NoticeInv'
  <2>1. ASSUME NEW e \in {"eof", "error"}, End("input", e) PROVE NoticeInv'
    BY <1>8, <2>1, EndIsNoticed
  <2>2. QED
    BY <1>8, <2>1 DEF InputFails, EndOfRead
<1>9. ASSUME TypingFails, UNCHANGED <<mainVars, shell>>
      PROVE  NoticeInv'
  <2>1. ASSUME NEW e \in {"eof", "error"}, End("input", e) PROVE NoticeInv'
    BY <1>9, <2>1, EndIsNoticed
  <2>2. QED
    BY <1>9, <2>1 DEF TypingFails
<1>10. ASSUME ReadInput, UNCHANGED <<mainVars, shell>>
      PROVE  NoticeInv'
  <2>1. ASSUME NEW e \in {"eof", "error"}, End("input", e) PROVE NoticeInv'
    BY <1>10, <2>1, EndIsNoticed
  <2>2. QED
    BY <1>10, <2>1 DEF ReadInput, BeginSend
<1>11. ASSUME TypePart \/ Typed, UNCHANGED <<mainVars, shell>>
      PROVE  NoticeInv'
  BY <1>11 DEF TypePart, Typed
<1>12. ASSUME NEW g \in Goroutines, Reserve(g), UNCHANGED <<mainVars, shell>>
      PROVE  NoticeInv'
  BY <1>12 DEF Reserve
<1>13. ASSUME NEW g \in Goroutines, Enqueue(g), UNCHANGED <<mainVars, shell>>
      PROVE  NoticeInv'
  BY <1>13 DEF Enqueue, Resting
<1>14. ASSUME NEW g \in Goroutines, GiveBack(g), UNCHANGED <<mainVars, shell>>
      PROVE  NoticeInv'
  <2>1. ASSUME NEW e \in {"eof", "error"}, End(g, e) PROVE NoticeInv'
    BY <1>14, <2>1, EndIsNoticed
  <2>2. QED
    BY <1>14, <2>1 DEF GiveBack
<1>15. CASE NoticeError
  BY <1>15 DEF NoticeError, Stop
<1>16. CASE NoticeEnd
  BY <1>16 DEF NoticeEnd, Stop
<1>17. CASE WaitGroup
  BY <1>17 DEF WaitGroup
<1>18. CASE AskToEnd \/ GraceEnds \/ Reap \/ KernelKills
  BY <1>18 DEF AskToEnd, GraceEnds, Reap, KernelKills
<1>19. CASE Tick
  BY <1>19 DEF Tick, Stop
<1>20. CASE Cancel
  BY <1>20 DEF Cancel
<1>21. CASE ShellExits
  BY <1>21 DEF ShellExits
<1>22. CASE UNCHANGED vars
  BY <1>22
<1>23. ASSUME NEW g \in Goroutines, Send(g), UNCHANGED <<mainVars, shell>>
      PROVE  NoticeInv'
  BY <1>12, <1>13, <1>14, <1>23 DEF Send
<1>24. ASSUME Goroutine PROVE NoticeInv'
  BY <1>1, <1>2, <1>3, <1>4, <1>5, <1>6, <1>7, <1>8, <1>9, <1>10, <1>11,
     <1>23, <1>24 DEF Goroutine, Writer, Output, Input, Goroutines
<1>25. QED
  BY <1>15, <1>16, <1>17, <1>18, <1>19, <1>20, <1>21, <1>22, <1>24 DEF Next,
     Session

(* The goroutine that passes something on sets lastIO to its arrival. *)
LEMMA PassedOn ==
  ASSUME ClockInv, NEW g \in Readers, SignOfLife(g), now' = now, main' = main
  PROVE  ClockInv'
<1>1. lastIO' = since[g] /\ io' = now /\ passed' = now
      /\ stall' = IF now - since[g] > stall THEN now - since[g] ELSE stall
  BY DEF SignOfLife, Passed
<1>2. since[g] \in Nat /\ since[g] <= now /\ now \in Nat /\ stall \in Nat
  BY DEF ClockInv
<1>3. lastIO' \in Nat /\ stall' \in Nat /\ lastIO' <= now /\ now <= lastIO' + stall'
  BY <1>1, <1>2
<1>4. since' \in [Readers -> Nat] /\ \A r \in Readers : since'[r] <= now
  <2>1. since' = [since EXCEPT ![g] = 0] /\ 0 <= now
    BY <1>2 DEF SignOfLife
  <2>2. QED
    BY <2>1, <1>2 DEF ClockInv
<1>5. ~(io' > passed') /\ passed' <= io' /\ io' <= now
  BY <1>1, <1>2
<1>6. main' = "select" => now < Absolute
  BY DEF ClockInv
<1>7. QED
  BY <1>1, <1>2, <1>3, <1>4, <1>5, <1>6 DEF ClockInv

(* A step that passes nothing on, and lets no frame in writing get lost. *)
LEMMA NothingPassed ==
  ASSUME ClockInv, UNCHANGED <<now, lastIO, historyVars>>,
         main' = "select" => main = "select",
         pc["input"] \in {"type", "ended"} => pc'["input"] \in {"type", "ended"},
         \/ since' = since
         \/ \E r \in Readers, t \in {0, now} : since' = [since EXCEPT ![r] = t]
  PROVE  ClockInv'
<1>1. now \in Nat /\ 0 <= now /\ now <= now /\ since \in [Readers -> Nat]
      /\ \A r \in Readers : since[r] <= now
  BY DEF ClockInv
<1>2. since' \in [Readers -> Nat] /\ \A r \in Readers : since'[r] <= now
  <2>1. CASE since' = since
    BY <1>1, <2>1
  <2>2. ASSUME NEW r \in Readers, NEW t \in {0, now}, since' = [since EXCEPT ![r] = t]
        PROVE  since' \in [Readers -> Nat] /\ \A q \in Readers : since'[q] <= now
    BY <1>1, <2>2
  <2>3. QED
    BY <2>1, <2>2
<1>3. QED
  BY <1>2 DEF ClockInv, historyVars

(* What was last passed on is no later than lastIO says, by the longest stall,
   and what was accepted since belongs to a frame that is not complete. *)
LEMMA ClockStep == NoticeInv /\ ClockInv /\ [Next]_vars => ClockInv'
<1> SUFFICES ASSUME NoticeInv, ClockInv, [Next]_vars PROVE ClockInv'
  OBVIOUS
<1> USE DEF vars, queueVars, mainVars, timeVars
<1>0. pc = [g \in Goroutines |-> pc[g]] /\ "input" \in Goroutines
  BY DEF NoticeInv, Goroutines
<1>1. ASSUME Take \/ Discount \/ Write \/ Ping \/ WriterStops,
             UNCHANGED <<mainVars, shell>>
      PROVE  ClockInv'
  <2>1. pc'["input"] = pc["input"] /\ UNCHANGED timeVars
    BY <1>0, <1>1 DEF Take, Discount, Write, Ping, WriterStops, Goto, BeginSend, End
  <2>2. QED
    BY <1>1, <2>1, NothingPassed
<1>2. ASSUME OutputFails, UNCHANGED <<mainVars, shell>> PROVE ClockInv'
  <2>1. pc'["input"] = pc["input"]
    BY <1>0, <1>2 DEF OutputFails, EndOfRead, Goto, End
  <2>2. QED
    BY <1>2, <2>1, NothingPassed DEF OutputFails
<1>3. ASSUME ReadOutput, UNCHANGED <<mainVars, shell>> PROVE ClockInv'
  <2>1. pc'["input"] = pc["input"]
    BY <1>0, <1>3 DEF ReadOutput, BeginSend, Goto, End
  <2>2. since' = since \/ since' = [since EXCEPT !["output"] = now]
    BY <1>3 DEF ReadOutput
  <2>3. QED
    BY <1>3, <2>1, <2>2, NothingPassed DEF ReadOutput, Readers
<1>4. ASSUME InputFails, UNCHANGED <<mainVars, shell>> PROVE ClockInv'
  BY <1>4, NothingPassed DEF InputFails
<1>5. ASSUME ReadInput, UNCHANGED <<mainVars, shell>> PROVE ClockInv'
  <2>1. since' = since \/ since' = [since EXCEPT !["input"] = now]
    BY <1>5 DEF ReadInput
  <2>2. pc["input"] = "read"
    BY <1>5 DEF ReadInput
  <2>3. QED
    BY <1>5, <2>1, <2>2, NothingPassed DEF ReadInput, Readers
<1>6. ASSUME TypePart, UNCHANGED <<mainVars, shell>> PROVE ClockInv'
  <2>1. io' = now /\ pc'["input"] = "type" /\ UNCHANGED <<now, lastIO, since, passed, stall>>
    BY <1>6 DEF TypePart
  <2>2. passed <= now
    BY DEF ClockInv
  <2>3. QED
    BY <1>6, <2>1, <2>2 DEF ClockInv
<1>7. ASSUME Typed, UNCHANGED <<mainVars, shell>> PROVE ClockInv'
  BY <1>7, PassedOn DEF Typed, Readers
<1>8. ASSUME TypingFails, UNCHANGED <<mainVars, shell>> PROVE ClockInv'
  <2>1. pc'["input"] = "ended"
    BY <1>0, <1>8 DEF TypingFails, End, Goto
  <2>2. QED
    BY <1>8, <2>1, NothingPassed DEF TypingFails, Readers
<1>9. ASSUME NEW g \in Goroutines, Reserve(g) \/ GiveBack(g), UNCHANGED <<mainVars, shell>>
      PROVE  ClockInv'
  <2>1. pc[g] \in {"add", "drop"} /\ UNCHANGED timeVars
    BY <1>9 DEF Reserve, GiveBack
  <2>2. g # "input" => pc'["input"] = pc["input"]
    BY <1>0, <1>9 DEF Reserve, GiveBack, Goto, End
  <2>3. QED
    BY <1>9, <2>1, <2>2, NothingPassed
<1>10. ASSUME NEW g \in Goroutines, Enqueue(g), UNCHANGED <<mainVars, shell>>
       PROVE  ClockInv'
  <2>1. CASE Len(out) < MaxMessages /\ g = "output"
    BY <1>10, <2>1, PassedOn DEF Enqueue, Readers
  <2>2. CASE ~(Len(out) < MaxMessages /\ g = "output")
    <3>1. pc[g] = "put" /\ UNCHANGED <<now, lastIO, since, historyVars>>
      BY <1>10, <2>2 DEF Enqueue
    <3>2. g # "input" => pc'["input"] = pc["input"]
      BY <1>0, <1>10 DEF Enqueue, Goto
    <3>3. QED
      BY <1>10, <3>1, <3>2, NothingPassed
  <2>3. QED
    BY <2>1, <2>2
<1>11. ASSUME NEW g \in Goroutines, Send(g), UNCHANGED <<mainVars, shell>>
       PROVE  ClockInv'
  BY <1>9, <1>10, <1>11 DEF Send
<1>12. ASSUME Goroutine PROVE ClockInv'
  BY <1>1, <1>2, <1>3, <1>4, <1>5, <1>6, <1>7, <1>8, <1>11, <1>12 DEF Goroutine,
     Writer, Output, Input, Goroutines
<1>13. CASE NoticeError \/ NoticeEnd \/ WaitGroup
  BY <1>13, NothingPassed DEF NoticeError, NoticeEnd, WaitGroup, Stop
<1>14. CASE AskToEnd \/ GraceEnds \/ Reap \/ KernelKills \/ Cancel \/ ShellExits
  BY <1>14, NothingPassed DEF AskToEnd, GraceEnds, Reap, KernelKills, Cancel, ShellExits
<1>15. CASE Tick
  <2>1. now' = now + 1 /\ now \in Nat /\ Absolute \in Nat
    BY <1>15, RelayAssumption DEF Tick, ClockInv
  <2>2. main' = "select" => now' < Absolute
    BY <1>15 DEF Tick, Stop
  <2>3. UNCHANGED <<pc, lastIO, since, io, passed, stall>>
    BY <1>15 DEF Tick, historyVars
  <2>4. lastIO \in Nat /\ lastIO <= now' /\ io \in Nat /\ io <= now' /\ now' \in Nat
        /\ \A r \in Readers : since[r] \in Nat /\ since[r] <= now'
    BY <2>1 DEF ClockInv
  <2>5. QED
    BY <2>2, <2>3, <2>4 DEF ClockInv
<1>16. CASE UNCHANGED vars
  BY <1>16, NothingPassed
<1>17. QED
  BY <1>12, <1>13, <1>14, <1>15, <1>16 DEF Next, Session

(* Induction, for a set in place of a predicate: the least interval from 0
   that is not within S. *)
LEMMA SetInduction ==
  ASSUME NEW n \in Nat, NEW S, 0 \in S, \A k \in 0..(n-1) : k \in S => k + 1 \in S
  PROVE  \A k \in 0..n : k \in S
<1> SUFFICES ASSUME NEW m \in 0..n, m \notin S PROVE FALSE
  OBVIOUS
<1> DEFINE U == 0..n
           T == {0..k : k \in {j \in U : j \notin S}}
           R == StrictSubsetOrdering(U)
<1>1. T \subseteq FiniteSubsetsOf(U) /\ T # {}
  <2>1. ASSUME NEW k \in U PROVE 0..k \in FiniteSubsetsOf(U)
    BY FS_Interval DEF FiniteSubsetsOf
  <2>2. QED
    BY <2>1
<1>2. IsWellFoundedOn(R, FiniteSubsetsOf(U))
  BY FS_StrictSubsetOrderingWellFounded
<1> HIDE DEF T, R
<1>3. PICK I \in T : \A J \in T : <<J, I>> \notin R
  BY <1>1, <1>2, WFMin
<1> USE DEF T, R
<1>4. PICK k \in U : k \notin S /\ I = 0..k
  BY <1>3
<1>5. k # 0 /\ k - 1 \in U /\ k - 1 \in 0..(n-1) /\ (k - 1) + 1 = k
  BY <1>4
<1>6. k - 1 \notin S
  BY <1>4, <1>5
<1>7. 0..(k-1) \in T
  BY <1>5, <1>6
<1>8. <<0..(k-1), I>> \in R
  <2>1. 0..(k-1) \subseteq 0..k /\ 0..(k-1) # 0..k
    BY <1>5
  <2>2. 0..(k-1) \in SUBSET U /\ 0..k \in SUBSET U
    BY <1>5
  <2>3. QED
    BY <2>1, <2>2, <1>4 DEF StrictSubsetOrdering
<1>9. QED
  BY <1>3, <1>7, <1>8

(* t adds up the first n elements of s. *)
IsTotal(t, s, n) ==
  t = [k \in 0..n |-> IF k = 0 THEN 0 ELSE t[k - 1] + s[k]]

(* The partial sums of a sequence exist, as one function. *)
LEMMA TotalsExist ==
  ASSUME NEW s \in Seq(Int)
  PROVE  \E t \in [0..Len(s) -> Int] : IsTotal(t, s, Len(s))
<1> DEFINE S == {n \in 0..Len(s) : \E t \in [0..n -> Int] : IsTotal(t, s, n)}
<1>1. 0 \in S
  <2> DEFINE t == [k \in 0..0 |-> 0]
  <2>1. t \in [0..0 -> Int] /\ IsTotal(t, s, 0)
    BY DEF IsTotal
  <2>2. QED
    BY <2>1
<1>2. ASSUME NEW n \in 0..(Len(s) - 1), n \in S PROVE n + 1 \in S
  <2>1. PICK t \in [0..n -> Int] : IsTotal(t, s, n)
    BY <1>2
  <2>2. n \in Nat /\ n + 1 \in 0..Len(s) /\ s[n + 1] \in Int
    OBVIOUS
  <2> DEFINE u == [k \in 0..(n + 1) |-> IF k = n + 1 THEN t[n] + s[n + 1] ELSE t[k]]
  <2>3. u \in [0..(n + 1) -> Int]
    BY <2>1, <2>2
  <2>4. ASSUME NEW k \in 0..(n + 1)
        PROVE  u[k] = IF k = 0 THEN 0 ELSE u[k - 1] + s[k]
    <3>1. CASE k = n + 1
      BY <3>1, <2>2
    <3>2. CASE k # n + 1
      <4>1. k \in 0..n /\ (k # 0 => k - 1 \in 0..n)
        BY <3>2, <2>2
      <4>2. t[k] = IF k = 0 THEN 0 ELSE t[k - 1] + s[k]
        BY <2>1, <4>1 DEF IsTotal
      <4>3. u[k] = t[k] /\ (k # 0 => u[k - 1] = t[k - 1])
        BY <4>1, <2>2
      <4>4. QED
        BY <4>2, <4>3
    <3>3. QED
      BY <3>1, <3>2
  <2> HIDE DEF u
  <2>5. IsTotal(u, s, n + 1)
    BY <2>3, <2>4 DEF IsTotal
  <2>6. QED
    BY <2>2, <2>3, <2>5
<1>3. Len(s) \in Nat
  OBVIOUS
<1> HIDE DEF S
<1>4. \A n \in 0..Len(s) : n \in S
  BY <1>1, <1>2, <1>3, SetInduction
<1>5. QED
  BY <1>3, <1>4 DEF S

(* The definition of Bytes, with its recursive function given. *)
LEMMA BytesOfTotals ==
  ASSUME NEW s \in Seq(Int)
  PROVE  \E t \in [0..Len(s) -> Int] : IsTotal(t, s, Len(s)) /\ Bytes(s) = t[Len(s)]
<1> DEFINE n == Len(s)
           c == CHOOSE t : t = [k \in 0..n |-> IF k = 0 THEN 0 ELSE t[k - 1] + s[k]]
<1>1. PICK t \in [0..n -> Int] : IsTotal(t, s, n)
  BY TotalsExist
<1>2. c = [k \in 0..n |-> IF k = 0 THEN 0 ELSE c[k - 1] + s[k]]
  BY <1>1 DEF IsTotal
<1>3. Bytes(s) = c[n]
  BY DEF Bytes
<1> HIDE DEF c
<1>4. n \in Nat
  OBVIOUS
<1>5. \A k \in 0..n : c[k] = t[k]
  <2> DEFINE S == {k \in 0..n : c[k] = t[k]}
  <2>1. 0 \in S
    BY <1>1, <1>2, <1>4 DEF IsTotal
  <2>2. ASSUME NEW k \in 0..(n - 1), k \in S PROVE k + 1 \in S
    <3>1. k + 1 \in 0..n /\ k + 1 # 0 /\ (k + 1) - 1 = k
      BY <1>4
    <3>2. c[k + 1] = c[k] + s[k + 1]
      BY <1>2, <3>1
    <3>3. t[k + 1] = t[k] + s[k + 1]
      BY <1>1, <3>1 DEF IsTotal
    <3>4. QED
      BY <2>2, <3>1, <3>2, <3>3
  <2> HIDE DEF S
  <2>3. \A k \in 0..n : k \in S
    BY <2>1, <2>2, <1>4, SetInduction
  <2>4. QED
    BY <2>3 DEF S
<1>6. QED
  BY <1>1, <1>3, <1>4, <1>5

(* Any function that adds up like the partial sums ends with the same. *)
LEMMA TotalsAgree ==
  ASSUME NEW s \in Seq(Int), NEW t \in [0..Len(s) -> Int],
         t[0] = 0, \A k \in 1..Len(s) : t[k] = t[k - 1] + s[k]
  PROVE  Bytes(s) = t[Len(s)]
<1> DEFINE n == Len(s)
<1>1. n \in Nat
  OBVIOUS
<1>2. PICK u \in [0..n -> Int] : IsTotal(u, s, n) /\ Bytes(s) = u[n]
  BY BytesOfTotals
<1> DEFINE S == {k \in 0..n : u[k] = t[k]}
<1>3. 0 \in S
  BY <1>1, <1>2 DEF IsTotal
<1>4. ASSUME NEW k \in 0..(n - 1), k \in S PROVE k + 1 \in S
  <2>1. k + 1 \in 1..n /\ k + 1 \in 0..n /\ k + 1 # 0 /\ (k + 1) - 1 = k
    BY <1>1
  <2>2. u[k + 1] = u[k] + s[k + 1]
    BY <1>2, <2>1 DEF IsTotal
  <2>3. t[k + 1] = t[k] + s[k + 1]
    BY <2>1
  <2>4. QED
    BY <1>4, <2>1, <2>2, <2>3
<1> HIDE DEF S
<1>5. \A k \in 0..n : k \in S
  BY <1>1, <1>3, <1>4, SetInduction
<1>6. QED
  BY <1>1, <1>2, <1>5 DEF S

(* What a message adds to the bytes of the channel, and takes from them. *)
LEMMA BytesOfAppend ==
  ASSUME NEW s \in Seq(Int), NEW x \in Int
  PROVE  Bytes(Append(s, x)) = Bytes(s) + x
<1> DEFINE n == Len(s)
           r == Append(s, x)
<1>1. n \in Nat /\ r \in Seq(Int) /\ Len(r) = n + 1 /\ r[n + 1] = x
  OBVIOUS
<1>2. \A k \in 1..n : r[k] = s[k]
  OBVIOUS
<1>3. PICK t \in [0..n -> Int] : IsTotal(t, s, n) /\ Bytes(s) = t[n]
  BY BytesOfTotals
<1> DEFINE u == [k \in 0..(n + 1) |-> IF k = n + 1 THEN t[n] + x ELSE t[k]]
<1>4. u \in [0..Len(r) -> Int]
  BY <1>1, <1>3
<1>5. u[0] = 0 /\ u[Len(r)] = t[n] + x
  BY <1>1, <1>3 DEF IsTotal
<1>6. ASSUME NEW k \in 1..Len(r) PROVE u[k] = u[k - 1] + r[k]
  <2>1. CASE k = n + 1
    BY <1>1, <2>1
  <2>2. CASE k # n + 1
    <3>1. k \in 1..n /\ k \in 0..n /\ k - 1 \in 0..n /\ k # 0
      BY <1>1, <2>2
    <3>2. t[k] = t[k - 1] + s[k]
      BY <1>3, <3>1 DEF IsTotal
    <3>3. u[k] = t[k] /\ u[k - 1] = t[k - 1]
      BY <1>1, <3>1
    <3>4. QED
      BY <1>2, <3>1, <3>2, <3>3
  <2>3. QED
    BY <2>1, <2>2
<1> HIDE DEF u, r
<1>7. Bytes(r) = u[Len(r)]
  BY <1>1, <1>4, <1>5, <1>6, TotalsAgree
<1>8. QED
  BY <1>3, <1>5, <1>7 DEF r

LEMMA BytesOfTail ==
  ASSUME NEW s \in Seq(Int), s # <<>>
  PROVE  Bytes(Tail(s)) = Bytes(s) - Head(s)
<1> DEFINE n == Len(s)
           r == Tail(s)
<1>1. n \in Nat /\ n # 0 /\ r \in Seq(Int) /\ Len(r) = n - 1 /\ Head(s) = s[1]
  OBVIOUS
<1>2. \A k \in 1..(n - 1) : r[k] = s[k + 1]
  OBVIOUS
<1>3. PICK t \in [0..n -> Int] : IsTotal(t, s, n) /\ Bytes(s) = t[n]
  BY BytesOfTotals
<1> DEFINE u == [k \in 0..(n - 1) |-> t[k + 1] - s[1]]
<1>4. s[1] \in Int
  BY <1>1
<1>5. u \in [0..Len(r) -> Int]
  BY <1>1, <1>3, <1>4
<1>6. u[0] = 0 /\ u[Len(r)] = t[n] - s[1]
  <2>1. t[0] = 0
    BY <1>1, <1>3 DEF IsTotal
  <2>2. t[1] = t[0] + s[1]
    BY <1>1, <1>3 DEF IsTotal
  <2>3. QED
    BY <1>1, <1>4, <2>1, <2>2
<1>7. ASSUME NEW k \in 1..Len(r) PROVE u[k] = u[k - 1] + r[k]
  <2>1. k \in 1..(n - 1) /\ k \in 0..(n-1) /\ k - 1 \in 0..(n-1) /\ k + 1 \in 0..n /\ k \in 0..n
        /\ k + 1 # 0 /\ (k + 1) - 1 = k /\ (k - 1) + 1 = k /\ k + 1 \in 1..n
    BY <1>1
  <2>2. t[k + 1] = t[k] + s[k + 1]
    BY <1>3, <2>1 DEF IsTotal
  <2>3. t[k] \in Int /\ s[k + 1] \in Int
    BY <1>3, <2>1
  <2>4. u[k] = t[k + 1] - s[1] /\ u[k - 1] = t[k] - s[1]
    BY <2>1
  <2>5. QED
    BY <1>2, <1>4, <2>1, <2>2, <2>3, <2>4
<1> HIDE DEF u, r
<1>8. Bytes(r) = u[Len(r)]
  BY <1>1, <1>5, <1>6, <1>7, TotalsAgree
<1>9. QED
  BY <1>1, <1>3, <1>6, <1>8 DEF r

LEMMA BytesOfNothing == Bytes(<<>>) = 0
<1>1. <<>> \in Seq(Int) /\ Len(<<>>) = 0
  OBVIOUS
<1>2. PICK t \in [0..0 -> Int] : IsTotal(t, <<>>, 0) /\ Bytes(<<>>) = t[0]
  BY <1>1, BytesOfTotals
<1>3. QED
  BY <1>2 DEF IsTotal

LEMMA BytesIsInteger == ASSUME NEW s \in Seq(Int) PROVE Bytes(s) \in Int
<1>1. Len(s) \in Nat
  OBVIOUS
<1>2. QED
  BY <1>1, BytesOfTotals

(* What a step of goroutine g does: it moves to a stage and holds a size, and
   the counter changes with the channel and what g has reserved. *)
Stages == {"select", "taken", "write", "read", "type", "add", "put", "drop", "ended"}

Counted(stage, size) == IF stage \in {"put", "drop", "taken"} THEN size ELSE 0
Putting(stage, size) == IF stage = "put" THEN size ELSE 0

Moved(g, stage, size) ==
  /\ stage \in Stages /\ size \in Sizes
  /\ pc' = [pc EXCEPT ![g] = stage] /\ held' = [held EXCEPT ![g] = size]

Counts(g, stage, size) ==
  /\ queued' \in Int /\ Bytes(out') \in Int
  /\ queued' - Bytes(out') - Counted(stage, size)
       = queued - Bytes(out) - Counted(pc[g], held[g])
  /\ \/ Bytes(out') + Putting(stage, size) <= Bytes(out) + Putting(pc[g], held[g])
     \/ stage = "put" /\ queued' <= MaxBytes

Shared ==
  /\ out \in Seq(Sizes) /\ Len(out) <= MaxMessages
  /\ errs \in Seq({"eof", "error"})
  /\ now \in 0..Absolute /\ lastIO \in 0..now /\ since \in [Readers -> 0..now]
  /\ io \in 0..now /\ passed \in 0..now /\ stall \in 0..now

Step(g) ==
  /\ \E stage \in Stages, size \in Sizes : Moved(g, stage, size) /\ Counts(g, stage, size)
  /\ Shared'

(* Sizes are integers, and messages of sizes are messages of integers. *)
LEMMA SizesAreIntegers == Sizes \subseteq Int /\ Seq(Sizes) \subseteq Seq(Int)
<1>1. Sizes \subseteq Int
  BY RelayAssumption DEF Sizes
<1>2. ASSUME NEW s \in Seq(Sizes) PROVE s \in Seq(Int)
  <2>1. Len(s) \in Nat /\ DOMAIN s = 1..Len(s) /\ s = [k \in DOMAIN s |-> s[k]]
        /\ \A k \in 1..Len(s) : s[k] \in Sizes
    OBVIOUS
  <2>2. s \in [1..Len(s) -> Int]
    BY <1>1, <2>1
  <2>3. QED
    BY <2>1, <2>2
<1>3. QED
  BY <1>1, <1>2

(* The types, as the steps of a goroutine use them. *)
LEMMA HeldIsSize ==
  ASSUME TypeOK, NEW g \in Goroutines
  PROVE  /\ pc[g] \in Stages /\ held[g] \in Sizes /\ held[g] \in Nat
         /\ Sizes \subseteq Nat /\ 0 \in Sizes /\ PongSize \in Sizes /\ Chunks \subseteq Sizes
         /\ queued \in Int /\ Bytes(out) \in Int /\ Shared
         /\ held = [held EXCEPT ![g] = held[g]] /\ pc = [pc EXCEPT ![g] = pc[g]]
         /\ g \in {"writer", "output", "input"}
<1>1. pc \in [Goroutines -> Stages] /\ held \in [Goroutines -> Sizes]
  BY DEF TypeOK, Stages
<1>2. Sizes \subseteq Nat /\ 0 \in Sizes /\ PongSize \in Sizes /\ Chunks \subseteq Sizes
  BY RelayAssumption DEF Sizes
<1>3. queued \in Int /\ Bytes(out) \in Int /\ Shared
  BY BytesIsInteger, SizesAreIntegers DEF TypeOK, Shared
<1>4. g \in {"writer", "output", "input"}
  BY DEF Goroutines
<1>5. QED
  BY <1>1, <1>2, <1>3, <1>4

(* Times stay between the beginning and now. *)
TimesKept ==
  /\ now' = now /\ lastIO' \in 0..now /\ since' \in [Readers -> 0..now]
  /\ io' \in 0..now /\ passed' \in 0..now /\ stall' \in 0..now

LEMMA SameTimes == ASSUME Shared, UNCHANGED timeVars PROVE TimesKept
  BY DEF Shared, TimesKept, timeVars, historyVars

LEMMA SinceKept ==
  ASSUME Shared, UNCHANGED <<now, lastIO, historyVars>>,
         \/ since' = since
         \/ \E r \in Readers, t \in {0, now} : since' = [since EXCEPT ![r] = t]
  PROVE  TimesKept
<1>1. now \in 0..now /\ 0 \in 0..now /\ since \in [Readers -> 0..now]
  BY RelayAssumption DEF Shared
<1>2. since' \in [Readers -> 0..now]
  <2>1. ASSUME NEW r \in Readers, NEW t \in {0, now}, since' = [since EXCEPT ![r] = t]
        PROVE  since' \in [Readers -> 0..now]
    BY <1>1, <2>1
  <2>2. QED
    BY <1>1, <2>1
<1>3. QED
  BY <1>2 DEF Shared, TimesKept, historyVars

LEMMA LifeSeen ==
  ASSUME Shared, NEW g \in Readers, SignOfLife(g), now' = now
  PROVE  TimesKept
<1>1. now \in 0..now /\ 0 \in 0..now /\ since[g] \in 0..now
      /\ since \in [Readers -> 0..now] /\ stall \in 0..now /\ now \in Nat
  BY RelayAssumption DEF Shared
<1>2. since' \in [Readers -> 0..now]
  BY <1>1 DEF SignOfLife
<1>3. now - since[g] \in 0..now
  BY <1>1
<1>4. lastIO' = since[g] /\ io' = now /\ passed' = now /\ stall' \in {stall, now - since[g]}
  BY DEF SignOfLife, Passed
<1>5. QED
  BY <1>1, <1>2, <1>3, <1>4 DEF TimesKept

(* A step that leaves the queue alone. *)
LEMMA QuietStep ==
  ASSUME TypeOK, NEW g \in Goroutines, NEW stage \in Stages, NEW size \in Sizes,
         Goto(g, stage), held' = [held EXCEPT ![g] = size],
         stage \notin {"put", "drop", "taken"}, pc[g] \notin {"put", "drop", "taken"},
         UNCHANGED queueVars, errs' \in Seq({"eof", "error"}), TimesKept
  PROVE  Step(g)
<1>1. Moved(g, stage, size)
  BY DEF Moved, Goto
<1>2. Counts(g, stage, size)
  BY HeldIsSize DEF Counts, Counted, Putting, queueVars
<1>3. Shared'
  BY HeldIsSize DEF Shared, queueVars, TimesKept
<1>4. QED
  BY <1>1, <1>2, <1>3 DEF Step

(* An error is added to the channel or dropped. *)
LEMMA ErrsType ==
  ASSUME errs \in Seq({"eof", "error"}), NEW g, NEW e \in {"eof", "error"}, End(g, e)
  PROVE  errs' \in Seq({"eof", "error"})
<1>1. CASE Len(errs) < ErrsCapacity
  BY <1>1 DEF End
<1>2. CASE ~(Len(errs) < ErrsCapacity)
  BY <1>2 DEF End
<1>3. QED
  BY <1>1, <1>2

(* The end of a goroutine that has nothing in the queue. *)
LEMMA EndStep ==
  ASSUME TypeOK, NEW g \in Goroutines, NEW e \in {"eof", "error"}, End(g, e),
         pc[g] \notin {"put", "drop", "taken"},
         UNCHANGED <<held, queueVars>>, TimesKept
  PROVE  Step(g)
<1>1. errs' \in Seq({"eof", "error"})
  BY ErrsType, HeldIsSize DEF Shared
<1>2. held' = [held EXCEPT ![g] = held[g]] /\ held[g] \in Sizes
  BY HeldIsSize
<1>3. QED
  BY <1>1, <1>2, QuietStep DEF End, Stages

(* A step that goes on without an error. *)
LEMMA PlainStep ==
  ASSUME TypeOK, NEW g \in Goroutines, NEW stage \in Stages, NEW size \in Sizes,
         Goto(g, stage), held' = [held EXCEPT ![g] = size],
         stage \notin {"put", "drop", "taken"}, pc[g] \notin {"put", "drop", "taken"},
         UNCHANGED <<queueVars, errs, timeVars>>
  PROVE  Step(g)
<1>1. errs' \in Seq({"eof", "error"})
  BY HeldIsSize DEF Shared
<1>2. TimesKept
  BY HeldIsSize, SameTimes
<1>3. QED
  BY <1>1, <1>2, QuietStep DEF queueVars

(* send, in its three parts. *)
LEMMA SendStep == ASSUME TypeOK, NEW g \in Goroutines, Send(g) PROVE Step(g)
<1> USE HeldIsSize
<1>1. CASE Reserve(g)
  <2> DEFINE stage == IF queued' > MaxBytes THEN "drop" ELSE "put"
  <2>1. Moved(g, stage, held[g])
    BY <1>1 DEF Reserve, Goto, Moved, Stages
  <2>2. queued' = queued + held[g] /\ out' = out /\ pc[g] = "add"
    BY <1>1 DEF Reserve
  <2>3. Counts(g, stage, held[g])
    <3>1. stage = "put" => queued' <= MaxBytes
      BY <2>2, RelayAssumption
    <3>2. QED
      BY <2>2, <3>1 DEF Counts, Counted, Putting
  <2>4. Shared'
    BY <1>1 DEF Reserve, Shared, timeVars, historyVars
  <2>5. QED
    BY <2>1, <2>3, <2>4 DEF Step, Stages
<1>2. CASE Enqueue(g)
  <2>1. CASE Len(out) < MaxMessages
    <3>1. Moved(g, Resting(g), 0)
      BY <1>2, <2>1 DEF Enqueue, Goto, Release, Moved, Stages, Resting
    <3>2. queued' = queued /\ Bytes(out') = Bytes(out) + held[g] /\ pc[g] = "put"
      BY <1>2, <2>1, BytesOfAppend, SizesAreIntegers DEF Enqueue, Shared
    <3>3. Counts(g, Resting(g), 0)
      BY <3>2 DEF Counts, Counted, Putting, Resting
    <3>4. out' \in Seq(Sizes) /\ Len(out') <= MaxMessages
      <4>1. out \in Seq(Sizes) /\ out' = Append(out, held[g]) /\ held[g] \in Sizes
        BY <1>2, <2>1 DEF Enqueue, Shared
      <4>2. out' \in Seq(Sizes) /\ Len(out') = Len(out) + 1 /\ Len(out) \in Nat
        BY <4>1
      <4>3. QED
        BY <2>1, <4>2, RelayAssumption
    <3>5. TimesKept
      <4>1. CASE g = "output"
        BY <1>2, <2>1, <4>1, LifeSeen DEF Enqueue, Readers
      <4>2. CASE g # "output"
        BY <1>2, <2>1, <4>2, SinceKept DEF Enqueue
      <4>3. QED
        BY <4>1, <4>2
    <3>6. errs' = errs
      BY <1>2 DEF Enqueue
    <3>7. Shared'
      BY <3>4, <3>5, <3>6 DEF Shared, TimesKept
    <3>8. QED
      BY <3>1, <3>3, <3>7 DEF Step, Moved
  <2>2. CASE ~(Len(out) < MaxMessages)
    <3>1. Moved(g, "drop", held[g])
      BY <1>2, <2>2 DEF Enqueue, Goto, Moved, Stages
    <3>2. queued' = queued /\ out' = out /\ pc[g] = "put"
      BY <1>2, <2>2 DEF Enqueue
    <3>3. Counts(g, "drop", held[g])
      BY <3>2 DEF Counts, Counted, Putting
    <3>4. Shared'
      BY <1>2, <2>2 DEF Enqueue, Shared, historyVars
    <3>5. QED
      BY <3>1, <3>3, <3>4 DEF Step, Stages
  <2>3. QED
    BY <2>1, <2>2
<1>3. CASE GiveBack(g)
  <2>1. Moved(g, "ended", 0)
    BY <1>3 DEF GiveBack, End, Goto, Release, Moved, Stages
  <2>2. queued' = queued - held[g] /\ out' = out /\ pc[g] = "drop"
    BY <1>3 DEF GiveBack
  <2>3. Counts(g, "ended", 0)
    BY <2>2 DEF Counts, Counted, Putting
  <2>4. errs' \in Seq({"eof", "error"})
    BY <1>3, ErrsType DEF GiveBack, Shared
  <2>5. Shared'
    BY <1>3, <2>4 DEF GiveBack, Shared, timeVars, historyVars
  <2>6. QED
    BY <2>1, <2>3, <2>5 DEF Step, Moved
<1>4. QED
  BY <1>1, <1>2, <1>3 DEF Send

(* The goroutine that writes to the WebSocket. *)
LEMMA WriterStep ==
  ASSUME TypeOK, Take \/ Discount \/ Write \/ Ping \/ WriterStops
  PROVE  Step("writer")
<1> DEFINE w == "writer"
<1> w \in Goroutines
  BY DEF Goroutines
<1> HIDE DEF w
<1> USE HeldIsSize
<1>1. CASE Take
  <2>1. out \in Seq(Sizes) /\ out # <<>> /\ Len(out) <= MaxMessages
    BY <1>1 DEF Take, Shared
  <2>2. Head(out) \in Sizes /\ Tail(out) \in Seq(Sizes) /\ Len(Tail(out)) = Len(out) - 1
        /\ Len(out) \in Nat
    BY <2>1
  <2>3. Moved(w, "taken", Head(out)) /\ pc[w] = "select"
    BY <1>1, <2>2 DEF Take, Goto, Moved, Stages, w
  <2>4. queued' = queued /\ Bytes(out') = Bytes(out) - Head(out) /\ Head(out) \in Nat
    BY <1>1, <2>1, <2>2, BytesOfTail, SizesAreIntegers DEF Take
  <2>5. Counts(w, "taken", Head(out))
    BY <2>3, <2>4 DEF Counts, Counted, Putting
  <2>6. Len(Tail(out)) <= MaxMessages
    BY <2>1, <2>2, RelayAssumption
  <2>7. Shared'
    BY <1>1, <2>2, <2>6 DEF Take, Shared, timeVars, historyVars
  <2>8. QED
    BY <2>2, <2>3, <2>5, <2>7 DEF Step, Stages, w
<1>2. CASE Discount
  <2>1. Moved(w, "write", 0) /\ pc[w] = "taken"
    BY <1>2 DEF Discount, Goto, Release, Moved, Stages, w
  <2>2. queued' = queued - held[w] /\ out' = out
    BY <1>2 DEF Discount, w
  <2>3. Counts(w, "write", 0)
    BY <2>1, <2>2 DEF Counts, Counted, Putting
  <2>4. Shared'
    BY <1>2 DEF Discount, Shared, timeVars, historyVars
  <2>5. QED
    BY <2>1, <2>3, <2>4 DEF Step, Stages, w
<1>3. CASE Write
  <2>1. CASE End("writer", "error")
    BY <1>3, <2>1, EndStep, SameTimes DEF Write, w
  <2>2. CASE Goto("writer", "select") /\ UNCHANGED errs
    BY <1>3, <2>2, PlainStep DEF Write, Stages, w
  <2>3. QED
    BY <1>3, <2>1, <2>2 DEF Write
<1>4. CASE Ping
  BY <1>4, PlainStep DEF Ping, BeginSend, Stages, w
<1>5. CASE WriterStops
  BY <1>5, PlainStep DEF WriterStops, Stages, w
<1>6. QED
  BY <1>1, <1>2, <1>3, <1>4, <1>5

(* The two goroutines that read. *)
LEMMA ReaderStep ==
  ASSUME TypeOK, ReadOutput \/ OutputFails \/ ReadInput \/ InputFails \/ TypePart
         \/ Typed \/ TypingFails
  PROVE  Step("output") \/ Step("input")
<1> DEFINE o == "output" i == "input"
<1> o \in Goroutines /\ i \in Goroutines
  BY DEF Goroutines
<1> HIDE DEF o, i
<1> USE HeldIsSize
<1>1. CASE ReadOutput
  <2>1. errs \in Seq({"eof", "error"}) /\ "output" \in Readers
    BY DEF Shared, Readers
  <2>2. ASSUME NEW n \in Chunks, BeginSend("output", n), UNCHANGED errs,
               since' = [since EXCEPT !["output"] = now]
        PROVE  Step(o)
    <3>1. TimesKept
      BY <1>1, <2>1, <2>2, SinceKept DEF ReadOutput
    <3>2. QED
      BY <1>1, <2>1, <2>2, <3>1, QuietStep DEF ReadOutput, BeginSend, Stages, o
  <2>3. CASE End("output", "error") /\ UNCHANGED <<held, since>>
    <3>1. TimesKept
      BY <1>1, <2>3, SinceKept DEF ReadOutput
    <3>2. QED
      BY <1>1, <2>3, <3>1, EndStep DEF ReadOutput, o
  <2>4. QED
    BY <1>1, <2>2, <2>3 DEF ReadOutput, o
<1>2. CASE OutputFails
  <2>1. CASE End("output", "error")
    BY <1>2, <2>1, EndStep, SameTimes DEF OutputFails, o
  <2>2. CASE Goto("output", "ended") /\ UNCHANGED errs
    BY <1>2, <2>2, PlainStep DEF OutputFails, Stages, o
  <2>3. QED
    BY <1>2, <2>1, <2>2 DEF OutputFails, EndOfRead
<1>3. CASE ReadInput
  <2>1. CASE Goto("input", "type") /\ since' = [since EXCEPT !["input"] = now]
             /\ UNCHANGED <<held, errs>>
    <3>1. TimesKept
      BY <1>3, <2>1, SinceKept DEF ReadInput, Readers
    <3>2. errs' \in Seq({"eof", "error"})
      BY <2>1 DEF Shared
    <3>3. QED
      BY <1>3, <2>1, <3>1, <3>2, QuietStep DEF ReadInput, Stages, i
  <2>2. CASE BeginSend("input", PongSize) /\ UNCHANGED <<errs, since>>
    BY <1>3, <2>2, PlainStep DEF ReadInput, BeginSend, Stages, timeVars, historyVars, i
  <2>3. ASSUME NEW e \in {"eof", "error"}, End("input", e), UNCHANGED <<held, since>>
        PROVE  Step(i)
    <3>1. TimesKept
      BY <1>3, <2>3, SinceKept DEF ReadInput
    <3>2. QED
      BY <1>3, <2>3, <3>1, EndStep DEF ReadInput, i
  <2>4. QED
    BY <1>3, <2>1, <2>2, <2>3 DEF ReadInput, i
<1>4. CASE InputFails
  <2>1. CASE End("input", "error")
    BY <1>4, <2>1, EndStep, SameTimes DEF InputFails, i
  <2>2. CASE Goto("input", "ended") /\ UNCHANGED errs
    BY <1>4, <2>2, PlainStep DEF InputFails, Stages, i
  <2>3. QED
    BY <1>4, <2>1, <2>2 DEF InputFails, EndOfRead
<1>5. CASE TypePart
  <2>1. TimesKept
    <3>1. now \in 0..now
      BY RelayAssumption DEF Shared
    <3>2. QED
      BY <1>5, <3>1 DEF TypePart, TimesKept, Shared
  <2>2. Goto("input", "type") /\ held' = [held EXCEPT !["input"] = held["input"]]
        /\ errs' \in Seq({"eof", "error"}) /\ pc["input"] = "type"
    BY <1>5 DEF TypePart, Goto, Shared, i
  <2>3. QED
    BY <1>5, <2>1, <2>2, QuietStep DEF TypePart, Stages, i
<1>6. CASE Typed
  <2>1. TimesKept
    BY <1>6, LifeSeen DEF Typed, Readers
  <2>2. errs' \in Seq({"eof", "error"})
    BY <1>6 DEF Typed, Shared
  <2>3. QED
    BY <1>6, <2>1, <2>2, QuietStep DEF Typed, Stages, i
<1>7. CASE TypingFails
  <2>1. TimesKept
    BY <1>7, SinceKept DEF TypingFails, Readers
  <2>2. QED
    BY <1>7, <2>1, EndStep DEF TypingFails, i
<1>8. QED
  BY <1>1, <1>2, <1>3, <1>4, <1>5, <1>6, <1>7

(* Every step of a goroutine. *)
LEMMA GoroutineStep ==
  ASSUME TypeOK, Goroutine
  PROVE  (\E g \in Goroutines : Step(g)) /\ UNCHANGED <<mainVars, shell>>
<1>1. CASE \E g \in Goroutines : Send(g)
  BY <1>1, SendStep DEF Goroutine
<1>2. CASE Take \/ Discount \/ Write \/ Ping \/ WriterStops
  BY <1>2, WriterStep DEF Goroutine, Goroutines
<1>3. CASE ReadOutput \/ OutputFails \/ ReadInput \/ InputFails \/ TypePart
           \/ Typed \/ TypingFails
  BY <1>3, ReaderStep DEF Goroutine, Goroutines
<1>4. QED
  BY <1>1, <1>2, <1>3 DEF Goroutine, Writer, Output, Input, Goroutines

(* What the other steps leave alone. *)
LEMMA OtherStep ==
  ASSUME TypeOK, ClockInv, [Next]_vars, ~Goroutine
  PROVE  /\ UNCHANGED <<pc, held, queueVars>>
         /\ errs' \in Seq({"eof", "error"})
         /\ main' \in {"select", "wait", "kill", "grace", "killed", "returned"}
         /\ result' \in Results \cup {"none"}
         /\ over' \in BOOLEAN /\ open' \in BOOLEAN /\ shell' \in BOOLEAN
         /\ now' \in {now, now + 1} /\ now' \in 0..Absolute
         /\ UNCHANGED <<lastIO, since, historyVars>>
<1> USE DEF TypeOK, Results
<1>1. CASE NoticeError
  <2>1. errs' \in Seq({"eof", "error"})
    BY <1>1 DEF NoticeError
  <2>2. QED
    BY <1>1, <2>1 DEF NoticeError, Stop, timeVars
<1>2. CASE NoticeEnd
  BY <1>2 DEF NoticeEnd, Stop, timeVars
<1>3. CASE WaitGroup
  BY <1>3 DEF WaitGroup, timeVars
<1>4. CASE AskToEnd \/ GraceEnds \/ Reap \/ KernelKills
  BY <1>4 DEF AskToEnd, GraceEnds, Reap, KernelKills, timeVars, mainVars
<1>5. CASE Tick
  <2>1. now' = now + 1 /\ now < Absolute
    BY <1>5 DEF Tick, ClockInv
  <2>2. now' \in 0..Absolute
    BY <2>1, RelayAssumption
  <2>3. QED
    BY <1>5, <2>1, <2>2 DEF Tick, Stop
<1>6. CASE Cancel
  BY <1>6 DEF Cancel, timeVars
<1>7. CASE ShellExits
  BY <1>7 DEF ShellExits, mainVars, timeVars
<1>8. CASE UNCHANGED vars
  BY <1>8 DEF vars, mainVars, timeVars
<1>9. QED
  BY <1>1, <1>2, <1>3, <1>4, <1>5, <1>6, <1>7, <1>8 DEF Next, Session

(* Types. *)
LEMMA TypeStep == TypeOK /\ ClockInv /\ [Next]_vars => TypeOK'
<1> SUFFICES ASSUME TypeOK, ClockInv, [Next]_vars PROVE TypeOK'
  OBVIOUS
<1>1. CASE Goroutine
  <2>1. PICK g \in Goroutines, stage \in Stages, size \in Sizes :
          Moved(g, stage, size) /\ Counts(g, stage, size) /\ Shared'
    BY <1>1, GoroutineStep DEF Step
  <2>2. pc' \in [Goroutines -> Stages] /\ held' \in [Goroutines -> Sizes]
    BY <2>1 DEF Moved, TypeOK, Stages
  <2>3. QED
    BY <1>1, <2>1, <2>2, GoroutineStep DEF Counts, Shared, TypeOK, Stages, mainVars
<1>2. CASE ~Goroutine
  <2>1. 0..now \subseteq 0..now'
    BY <1>2, OtherStep, RelayAssumption DEF TypeOK
  <2>2. since' \in [Readers -> 0..now']
    BY <1>2, <2>1, OtherStep DEF TypeOK
  <2>3. QED
    BY <1>2, <2>1, <2>2, OtherStep DEF TypeOK, queueVars, historyVars
<1>3. QED
  BY <1>1, <1>2

(* The counter, the channel and what the goroutines have reserved. *)
LEMMA AccountStep == TypeOK /\ ClockInv /\ QueueIsAccounted /\ [Next]_vars => QueueIsAccounted'
<1> SUFFICES ASSUME TypeOK, ClockInv, QueueIsAccounted, [Next]_vars PROVE QueueIsAccounted'
  OBVIOUS
<1> DEFINE C(g) == Counted(pc[g], held[g])  P(g) == Putting(pc[g], held[g])
<1>1. queued = Bytes(out) + C("writer") + C("output") + C("input")
      /\ Bytes(out) + P("writer") + P("output") + P("input") <= MaxBytes
  <2>1. \A g \in Goroutines : /\ Reserved(g, {"put", "drop", "taken"}) = C(g)
                              /\ Reserved(g, {"put"}) = P(g)
    BY DEF Reserved, Counted, Putting
  <2>2. \A g \in Goroutines : C(g) \in Nat /\ P(g) \in Nat
    BY HeldIsSize DEF Counted, Putting
  <2>3. QED
    BY <2>1, <2>2, HeldIsSize DEF QueueIsAccounted, Pending, Goroutines
<1>2. CASE Goroutine
  <2>1. PICK g \in Goroutines, stage \in Stages, size \in Sizes :
          Moved(g, stage, size) /\ Counts(g, stage, size) /\ Shared'
    BY <1>2, GoroutineStep DEF Step
  <2>2. TypeOK'
    BY TypeStep
  <2>3. \A h \in Goroutines : /\ Reserved(h, {"put", "drop", "taken"})' = C(h)'
                              /\ Reserved(h, {"put"})' = P(h)'
    BY DEF Reserved, Counted, Putting
  <2>4. \A h \in Goroutines : h # g => C(h)' = C(h) /\ P(h)' = P(h)
    BY <2>1 DEF Moved, TypeOK
  <2>5. C(g)' = Counted(stage, size) /\ P(g)' = Putting(stage, size)
    BY <2>1 DEF Moved, TypeOK
  <2>6. \A h \in Goroutines : C(h) \in Nat /\ P(h) \in Nat /\ P(h) <= C(h)
    BY HeldIsSize DEF Counted, Putting
  <2>7. C(g)' \in Nat /\ P(g)' \in Nat /\ P(g)' <= C(g)'
    <3>1. size \in Nat
      BY <2>1, HeldIsSize
    <3>2. QED
      BY <2>5, <3>1 DEF Counted, Putting
  <2>8. /\ queued' \in Int /\ Bytes(out') \in Int /\ queued \in Int /\ Bytes(out) \in Int
        /\ queued' - Bytes(out') - C(g)' = queued - Bytes(out) - C(g)
        /\ Bytes(out') + P(g)' <= Bytes(out) + P(g) \/ queued' <= MaxBytes
    BY <2>1, <2>5, HeldIsSize DEF Counts
  <2> HIDE DEF C, P
  <2>9. g \in {"writer", "output", "input"} /\ MaxBytes \in Nat
    BY RelayAssumption DEF Goroutines
  <2>10. queued' = Bytes(out') + (C("writer")' + C("output")' + C("input")')
    BY <1>1, <2>4, <2>6, <2>7, <2>8, <2>9 DEF Goroutines
  <2>11. Bytes(out') + (P("writer")' + P("output")' + P("input")') <= MaxBytes
    BY <1>1, <2>4, <2>6, <2>7, <2>8, <2>9, <2>10 DEF Goroutines
  <2>12. QED
    BY <2>3, <2>10, <2>11 DEF QueueIsAccounted, Pending, Goroutines
<1>3. CASE ~Goroutine
  BY <1>3, OtherStep DEF QueueIsAccounted, Pending, Reserved, queueVars
<1>4. QED
  BY <1>2, <1>3

(* What the session is told of its goroutines, and when. *)
THEOREM Noticed == Spec => []NoticeInv
<1>1. Init => NoticeInv
  BY DEF Init, NoticeInv, NoSilentEnd, Resting, Goroutines
<1>2. QED
  BY <1>1, NoticeStep, PTL DEF Spec

(* What lastIO says about the last use of the shell, and what the bytes that
   it does not tell of belong to. *)
THEOREM Clocked == Spec => []ClockInv
<1>1. Init => ClockInv
  BY RelayAssumption DEF Init, ClockInv
<1>2. QED
  BY <1>1, ClockStep, Noticed, PTL DEF Spec

(* Types, the account of the queue, and what is known of errors and times, for
   any sizes (manager_linux.go:128-339). *)
THEOREM Invariance == Spec => []IInv
<1>1. Init => TypeOK /\ QueueIsAccounted
  <2>1. 0 \in Nat /\ 0 \in Int /\ 0 \in Sizes /\ 0 \in 0..0 /\ 0 \in 0..Absolute
    BY RelayAssumption DEF Sizes
  <2>2. <<>> \in Seq(Sizes) /\ Len(<<>>) <= MaxMessages /\ <<>> \in Seq({"eof", "error"})
    BY RelayAssumption
  <2>3. Init => TypeOK
    BY <2>1, <2>2 DEF Init, TypeOK, Resting
  <2>4. Init => QueueIsAccounted
    BY RelayAssumption, BytesOfNothing DEF Init, QueueIsAccounted, Pending, Reserved, Resting, Goroutines
  <2>5. QED
    BY <2>3, <2>4
<1>2. TypeOK /\ QueueIsAccounted /\ ClockInv /\ [Next]_vars => (TypeOK /\ QueueIsAccounted)'
  BY TypeStep, AccountStep
<1>3. Spec => [](TypeOK /\ QueueIsAccounted)
  BY <1>1, <1>2, Clocked, PTL DEF Spec
<1>4. QED
  BY <1>3, Noticed, Clocked, PTL DEF IInv

(* The counter of the queue is what the channel holds and what the goroutines
   have reserved or taken, and the channel never holds more than its bytes
   (manager_linux.go:128-141, 152). *)
THEOREM QueueAccounted == Spec => []QueueIsAccounted
  BY Invariance, PTL DEF IInv

(* No error of a goroutine is lost, whatever the capacity of the queue, as
   long as the channel of errors has one (manager_linux.go:160-231). *)
THEOREM NoErrorIsLost == Spec => []NoSilentEnd
<1>1. NoticeInv => NoSilentEnd
  BY DEF NoticeInv
<1>2. QED
  BY <1>1, Noticed, PTL

(* An idle timeout means that for that time, less the longest time anything
   took to be passed on, no output was queued and no input accepted as a whole;
   what was accepted later is a part of a frame that is not complete
   (manager_linux.go:183, 204, 234, 243-268, 330). *)
THEOREM IdleMeansQuiet == Spec => IdleIsQuiet
<1>1. ASSUME ClockInv, [Next]_vars, result # "idle", result' = "idle"
      PROVE  /\ now' - passed + stall >= Idle
             /\ io > passed => pc["input"] \in {"type", "ended"}
  <2>1. Tick
    BY <1>1 DEF Next, Goroutine, mainVars, Session, NoticeError, NoticeEnd, Stop,
       WaitGroup, AskToEnd, GraceEnds, Reap, KernelKills, Cancel, ShellExits, vars
  <2>2. now' - lastIO >= Idle
    BY <1>1, <2>1 DEF Tick, Stop
  <2>3. now' \in Nat
    BY <1>1, <2>1 DEF Tick, ClockInv
  <2>4. now' - passed + stall >= Idle
    BY <1>1, <2>2, <2>3, RelayAssumption DEF ClockInv
  <2>5. QED
    BY <1>1, <2>4 DEF ClockInv
<1>2. ClockInv /\ [Next]_vars =>
        [result # "idle" /\ result' = "idle" =>
           /\ now' - passed + stall >= Idle
           /\ io > passed => pc["input"] \in {"type", "ended"}]_vars
  BY <1>1
<1>3. QED
  BY <1>2, Clocked, PTL DEF Spec, IdleIsQuiet

=============================================================================
