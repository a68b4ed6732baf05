------------------------- MODULE DeltaCoalescerProofs -------------------------
(***************************************************************************)
(* Proofs about DeltaCoalescer for every number of events, every size of   *)
(* the deltas and every limit of the buffer, and whichever posts fail.     *)
(***************************************************************************)
EXTENDS DeltaCoalescer, TLAPS

InHand == IF reader \in {"add", "flush", "forward"} THEN 1 ELSE 0

(* What was posted, what is being posted, what waits and what the read     *)
(* loop has in hand follow one another without a gap.                      *)
Contiguous ==
    /\ handled = Len(sent) + Len(posting) + Len(buffer) + InHand
    /\ \A i \in 1..Len(sent) : sent[i] = i
    /\ \A i \in 1..Len(posting) : posting[i] = Len(sent) + i
    /\ \A i \in 1..Len(buffer) : buffer[i] = Len(sent) + Len(posting) + i

(* The mutex is held exactly while a flush is posted, and behind a flush   *)
(* made for another event, or by stop, nothing new can gather.             *)
MutexHeld ==
    /\ mutex = "free" <=> posting = <<>>
    /\ reader = "forward" => buffer = <<>> /\ mutex \in {"free", "flush"}
    /\ reader = "done" => buffer = <<>> /\ mutex \in {"free", "stop"}

(* The text the read loop has handed to the coalescer ends here.           *)
Before == Len(sent) + Len(posting)

(* The buffer's length is the length of the deltas in it, none of which is *)
(* empty.                                                                  *)
Measured ==
    /\ reader = "add" => Upto(handled - 1) < Upto(handled)
    /\ bytes = Upto(Before + Len(buffer)) - Upto(Before)
    /\ buffer # <<>> => bytes > 0
    /\ \A n \in 1..handled : Upto(n - 1) <= Upto(n)

IInv == TypeOK /\ Contiguous /\ MutexHeld /\ Measured /\ FlushIsBounded

-----------------------------------------------------------------------------
(* Sequences, and the text up to an event.                                 *)

LEMMA AppendSeq ==
    ASSUME NEW S, NEW s \in Seq(S), NEW e \in S
    PROVE  /\ Append(s, e) \in Seq(S)
           /\ Len(s) \in Nat /\ Len(Append(s, e)) = Len(s) + 1
           /\ \A i \in 1..Len(s) : Append(s, e)[i] = s[i]
           /\ Append(s, e)[Len(s) + 1] = e
OBVIOUS

LEMMA UptoTyped ==
    ASSUME TypeOK, NEW n \in 0..handled
    PROVE  Upto(n) \in Nat
BY DEF TypeOK, handled, Upto

LEMMA InitIInv == ASSUME DeltaAssumption, Init PROVE IInv
BY DEF DeltaAssumption, Init, IInv, TypeOK, Contiguous, MutexHeld, Measured, FlushIsBounded,
       InHand, Before, Upto, handled

(* Taking the whole buffer into a flush keeps every event in its place.    *)
LEMMA FlushKeeps ==
    ASSUME DeltaAssumption, IInv, mutex = "free",
           NEW holder \in {"flush", "stop", "timer"}, FlushLocked(holder, buffer, bytes),
           UNCHANGED <<ends, relay>>, callbacks' \in Nat,
           reader' \in {"idle", "add", "flush", "forward", "done"},
           InHand' = InHand,
           \/ reader' = reader /\ holder = "timer"
           \/ reader' = "forward" /\ holder = "flush"
           \/ reader' = "done" /\ holder = "stop"
    PROVE  IInv'
<1>1. posting = <<>> BY DEF IInv, MutexHeld
<1>2. bytes = 0 <=> buffer = <<>>
  <2>1. CASE buffer = <<>>
    <3>1. Len(buffer) = 0 /\ Before + 0 = Before /\ Before \in 0..handled
        BY <2>1, <1>1 DEF IInv, TypeOK, Contiguous, Before, InHand, handled
    <3>2. Upto(Before) \in Nat BY <3>1, UptoTyped DEF IInv
    <3>. QED BY <2>1, <3>1, <3>2 DEF IInv, Measured
  <2>2. CASE buffer # <<>> BY <2>2 DEF IInv, Measured
  <2>. QED BY <2>1, <2>2
<1>3. posting' = buffer /\ buffer' = <<>> /\ bytes' = 0 /\ timer' = "nil"
      /\ mutex' = IF buffer = <<>> THEN "free" ELSE holder
    BY <1>2 DEF FlushLocked
<1>4. handled' = handled /\ sent' = sent /\ lost' = lost /\ ends' = ends BY DEF handled, relay
<1>5. TypeOK'
  <2>1. 0 \in 0..(MaxBytes - 1) BY DEF DeltaAssumption
  <2>2. reader' \in {"idle", "add", "flush", "forward", "done"} OBVIOUS
  <2>3. mutex' \in {"free", "add", "flush", "stop", "timer"} BY <1>3
  <2>4. /\ posting' \in Seq(1..MaxEvents) /\ buffer' \in Seq(1..MaxEvents)
        /\ sent' \in Seq(1..MaxEvents) /\ lost' \subseteq 1..MaxEvents
      BY <1>3, <1>4 DEF IInv, TypeOK
  <2>5. ends' \in Seq(Nat) /\ handled' <= MaxEvents BY <1>4 DEF IInv, TypeOK
  <2>. QED BY <1>3, <2>1, <2>2, <2>3, <2>4, <2>5 DEF TypeOK
<1>6. Contiguous' BY <1>1, <1>3, <1>4 DEF IInv, TypeOK, Contiguous
<1>7. MutexHeld' BY <1>1, <1>3 DEF IInv, TypeOK, MutexHeld
<1>8. /\ Len(buffer) \in Nat /\ Len(sent) \in Nat /\ Before = Len(sent)
      /\ Len(sent) + Len(buffer) \in 0..handled
      /\ handled \in Nat /\ Len(sent) \in 0..handled
    BY <1>1 DEF IInv, TypeOK, Contiguous, Before, InHand, handled
<1>9. Upto(Len(sent) + Len(buffer)) \in Nat /\ Upto(Len(sent)) \in Nat
    BY <1>8, UptoTyped DEF IInv
<1>10. Measured'
  <2>1. Before' = Len(sent) + Len(buffer) /\ Len(buffer') = 0 BY <1>3, <1>4 DEF Before
  <2>2. Upto(Before + Len(buffer))' = Upto(Before)' BY <1>8, <2>1
  <2>4. \A n \in 1..handled : Upto(n - 1)' <= Upto(n)'
      BY <1>4 DEF IInv, Measured, Upto
  <2>3. Upto(Before)' = Upto(Len(sent) + Len(buffer)) BY <1>4, <2>1 DEF Upto
  <2>5. reader' = "add" => Upto(handled - 1)' < Upto(handled)'
      BY <1>4 DEF IInv, Measured, Upto
  <2>. QED BY <1>3, <1>4, <1>9, <2>2, <2>3, <2>4, <2>5 DEF Measured
<1>11. FlushIsBounded'
  <2>. SUFFICES ASSUME buffer # <<>>
                PROVE  Upto(Len(sent) + Len(buffer) - 1) < Upto(Len(sent)) + MaxBytes
      BY <1>3, <1>4 DEF FlushIsBounded, Upto
  <2>1. Upto(Len(sent) + Len(buffer)) < Upto(Len(sent)) + MaxBytes
      BY <1>8, <1>9 DEF IInv, Measured, TypeOK, DeltaAssumption
  <2>0. Len(buffer) > 0 /\ handled \in Nat BY DEF IInv, TypeOK, handled
  <2>2. Len(sent) + Len(buffer) - 1 \in 0..handled /\ Len(sent) + Len(buffer) > 0
      BY <1>8, <2>0
  <2>3. Upto(Len(sent) + Len(buffer) - 1) <= Upto(Len(sent) + Len(buffer))
      BY <1>8, <2>2 DEF IInv, Measured
  <2>. QED BY <1>9, <2>1, <2>2, <2>3, UptoTyped DEF IInv, DeltaAssumption
<1>. QED BY <1>5, <1>6, <1>7, <1>10, <1>11 DEF IInv

-----------------------------------------------------------------------------
(* An event is taken up.                                                   *)
LEMMA ReceiveStep == ASSUME DeltaAssumption, IInv, Receive PROVE IInv'
<1>1. /\ reader = "idle" /\ handled < MaxEvents /\ reader' \in {"add", "flush"}
      /\ UNCHANGED <<buffer, bytes, posting, mutex, timer, callbacks, sent, lost>>
      /\ ends \in Seq(Nat) /\ handled \in Nat /\ handled = Len(ends)
    BY DEF Receive, IInv, TypeOK, handled, relay
<1>2. Upto(handled) \in Nat BY <1>1, UptoTyped DEF IInv
<1>3. PICK size \in 0..MaxDelta :
        /\ ends' = Append(ends, Upto(handled) + size)
        /\ reader' = "add" => size > 0
  <2>1. CASE reader' = "add" BY <2>1 DEF Receive, DeltaAssumption
  <2>2. CASE reader' = "flush"
    <3>1. ends' = Append(ends, Upto(handled)) BY <2>2 DEF Receive
    <3>2. ends' = Append(ends, Upto(handled) + 0) /\ 0 \in 0..MaxDelta
        BY <1>2, <3>1 DEF DeltaAssumption
    <3>. QED BY <2>2, <3>2
  <2>. QED BY <1>1, <2>1, <2>2
<1>. DEFINE end == Upto(handled) + size
<1>4. end \in Nat /\ end >= Upto(handled) /\ (reader' = "add" => end > Upto(handled))
    BY <1>2, <1>3 DEF DeltaAssumption
<1>. HIDE DEF end
<1>5. ends' = Append(ends, end) BY <1>3 DEF end
<1>6. /\ ends' \in Seq(Nat) /\ handled' = handled + 1
      /\ \A n \in 1..handled : ends'[n] = ends[n]
      /\ ends'[handled + 1] = end
    BY <1>1, <1>4, <1>5, AppendSeq DEF handled
<1>7. /\ \A n \in 0..handled : Upto(n)' = Upto(n)
      /\ Upto(handled)' = end
    BY <1>1, <1>6 DEF Upto
<1>8. TypeOK' BY <1>1, <1>6 DEF IInv, TypeOK, DeltaAssumption
<1>9. Contiguous'
  <2>1. /\ Len(sent) \in Nat /\ Len(posting) \in Nat /\ Len(buffer) \in Nat
        /\ handled = Len(sent) + Len(posting) + Len(buffer)
      BY <1>1 DEF IInv, TypeOK, Contiguous, InHand
  <2>2. InHand' = 1 BY <1>1 DEF InHand
  <2>3. handled' = Len(sent') + Len(posting') + Len(buffer') + InHand'
      BY <1>1, <1>6, <2>1, <2>2
  <2>. QED BY <1>1, <2>3 DEF IInv, Contiguous
<1>10. MutexHeld' BY <1>1 DEF IInv, MutexHeld
<1>11. /\ Len(sent) \in Nat /\ Len(posting) \in Nat /\ Len(buffer) \in Nat
       /\ handled = Len(sent) + Len(posting) + Len(buffer)
       /\ Before' = Before /\ Before = Len(sent) + Len(posting)
    BY <1>1 DEF IInv, TypeOK, Contiguous, InHand, Before
<1>12. Before \in 0..handled /\ Before + Len(buffer) \in 0..handled BY <1>1, <1>11
<1>13. Measured'
  <2>1. handled' - 1 = handled /\ handled \in 0..handled BY <1>1, <1>6
  <2>2. reader' = "add" => Upto(handled - 1)' < Upto(handled)'
      BY <1>4, <1>6, <1>7, <2>1 DEF Upto
  <2>3. Upto(Before + Len(buffer))' = Upto(Before + Len(buffer)) /\ Upto(Before)' = Upto(Before)
    <3>1. (Before + Len(buffer))' = Before + Len(buffer) BY <1>1, <1>11
    <3>. QED BY <1>7, <1>11, <1>12, <3>1 DEF Upto
  <2>4. \A n \in 1..(handled + 1) : Upto(n - 1)' <= Upto(n)'
    <3>. SUFFICES ASSUME NEW n \in 1..(handled + 1) PROVE Upto(n - 1)' <= Upto(n)'
        OBVIOUS
    <3>1. CASE n = handled + 1
      <4>1. Upto(n)' = end BY <1>6, <1>7, <3>1 DEF Upto
      <4>2. n - 1 = handled BY <1>1, <3>1
      <4>. QED BY <1>4, <1>7, <2>1, <4>1, <4>2 DEF Upto
    <3>2. CASE n # handled + 1
      <4>1. n \in 1..handled /\ n \in 0..handled /\ n - 1 \in 0..handled BY <1>1, <3>2
      <4>. QED BY <1>7, <4>1 DEF IInv, Measured
    <3>. QED BY <3>1, <3>2
  <2>. QED BY <1>1, <1>6, <2>2, <2>3, <2>4 DEF IInv, Measured
<1>14. FlushIsBounded'
  <2>. SUFFICES ASSUME posting # <<>>
                PROVE  Upto(Len(sent) + Len(posting) - 1)' < Upto(Len(sent))' + MaxBytes
      BY <1>1 DEF FlushIsBounded
  <2>1. Len(posting) > 0 BY DEF IInv, TypeOK
  <2>2. Len(sent) + Len(posting) - 1 \in 0..handled /\ Len(sent) \in 0..handled
      BY <1>11, <2>1
  <2>. QED BY <1>1, <1>7, <2>2 DEF IInv, FlushIsBounded
<1>. QED BY <1>8, <1>9, <1>10, <1>13, <1>14 DEF IInv

(* A delta joins the buffer, and takes it along when it fills it.          *)
LEMMA AddStep == ASSUME DeltaAssumption, IInv, Add PROVE IInv'
<1>. DEFINE text   == Append(buffer, handled)
            length == bytes + (Upto(handled) - Upto(handled - 1))
<1>0. /\ reader = "add" /\ reader' = "idle" /\ mutex = "free" /\ posting = <<>>
      /\ ends' = ends /\ handled' = handled /\ sent' = sent /\ lost' = lost
      /\ callbacks' = callbacks
    BY DEF Add, IInv, MutexHeld, handled, relay
<1>1. /\ Len(buffer) \in Nat /\ Len(sent) \in Nat /\ Len(posting) = 0
      /\ handled \in Nat /\ handled \in 1..MaxEvents
      /\ handled = Len(sent) + Len(buffer) + 1
      /\ Before = Len(sent)
  <2>1. Len(buffer) \in Nat /\ Len(sent) \in Nat /\ Len(posting) = 0 /\ handled \in Nat
        /\ handled <= MaxEvents
      BY <1>0 DEF IInv, TypeOK, handled
  <2>. QED BY <1>0, <2>1 DEF IInv, Contiguous, InHand, Before, DeltaAssumption
<1>2. /\ text \in Seq(1..MaxEvents)
      /\ Len(text) = Len(buffer) + 1 /\ text # <<>>
      /\ \A i \in 1..Len(text) : text[i] = Len(sent) + i
  <2>1. /\ text \in Seq(1..MaxEvents) /\ Len(text) = Len(buffer) + 1
        /\ \A i \in 1..Len(buffer) : text[i] = buffer[i]
        /\ text[Len(buffer) + 1] = handled
      BY <1>1, AppendSeq DEF IInv, TypeOK
  <2>2. \A i \in 1..Len(buffer) : buffer[i] = Len(sent) + i
      BY <1>0, <1>1 DEF IInv, Contiguous
  <2>3. ASSUME NEW i \in 1..Len(text) PROVE text[i] = Len(sent) + i
    <3>1. CASE i \in 1..Len(buffer) BY <2>1, <2>2, <3>1
    <3>2. CASE i = Len(buffer) + 1 BY <1>1, <2>1, <3>2
    <3>. QED BY <1>1, <2>1, <3>1, <3>2
  <2>. QED BY <1>1, <2>1, <2>3
<1>3. /\ Upto(handled) \in Nat /\ Upto(handled - 1) \in Nat /\ Upto(Len(sent)) \in Nat
      /\ Upto(handled - 1) < Upto(handled)
  <2>1. handled \in 0..handled /\ handled - 1 \in 0..handled /\ Len(sent) \in 0..handled
      BY <1>1
  <2>. QED BY <1>0, <2>1, UptoTyped DEF IInv, Measured
<1>4. /\ bytes \in 0..(MaxBytes - 1) /\ MaxBytes \in Nat \ {0}
      /\ bytes = Upto(handled - 1) - Upto(Len(sent))
      /\ length = Upto(handled) - Upto(Len(sent)) /\ length > 0
  <2>1. bytes \in 0..(MaxBytes - 1) /\ MaxBytes \in Nat \ {0} BY DEF IInv, TypeOK, DeltaAssumption
  <2>2. Before + Len(buffer) = handled - 1 BY <1>1
  <2>3. bytes = Upto(handled - 1) - Upto(Len(sent)) BY <1>1, <2>2 DEF IInv, Measured
  <2>. QED BY <1>3, <2>1, <2>3
<1>5. /\ \A n \in 0..handled : Upto(n)' = Upto(n)
      /\ \A n \in 1..handled : Upto(n - 1)' <= Upto(n)'
    BY <1>0 DEF IInv, Measured, Upto
<1>6. /\ buffer' \in {<<>>, text} /\ bytes' \in {0, length}
      /\ IF length >= MaxBytes THEN FlushLocked("add", text, length)
         ELSE buffer' = text /\ bytes' = length /\ UNCHANGED <<posting, mutex>>
              /\ timer' \in {"running", timer}
  <2>1. CASE length >= MaxBytes BY <2>1 DEF Add, FlushLocked
  <2>2. CASE ~(length >= MaxBytes) BY <2>2 DEF Add
  <2>. QED BY <2>1, <2>2
<1>. HIDE DEF text, length
<1>7. CASE length >= MaxBytes
  <2>1. posting' = text /\ buffer' = <<>> /\ bytes' = 0 /\ timer' = "nil" /\ mutex' = "add"
      BY <1>4, <1>6, <1>7 DEF FlushLocked
  <2>2. TypeOK'
    <3>1. 0 \in 0..(MaxBytes - 1) BY <1>4
    <3>. QED BY <1>0, <1>2, <2>1, <3>1 DEF IInv, TypeOK
  <2>3. Contiguous'
    <3>1. InHand' = 0 /\ Len(sent') = Len(sent) /\ Len(posting') = Len(text) /\ Len(buffer') = 0
        BY <1>0, <2>1 DEF InHand
    <3>2. handled' = Len(sent') + Len(posting') + Len(buffer') + InHand'
        BY <1>0, <1>1, <1>2, <3>1
    <3>3. \A i \in 1..Len(sent') : sent'[i] = i BY <1>0 DEF IInv, Contiguous
    <3>4. \A i \in 1..Len(posting') : posting'[i] = Len(sent') + i BY <1>0, <1>2, <2>1
    <3>. QED BY <3>1, <3>2, <3>3, <3>4 DEF Contiguous
  <2>4. MutexHeld' BY <1>0, <1>2, <2>1 DEF MutexHeld
  <2>5. Before' = handled /\ Len(buffer') = 0 BY <1>0, <1>1, <1>2, <2>1 DEF Before
  <2>6. Measured'
    <3>1. Upto(Before + Len(buffer))' = Upto(handled) /\ Upto(Before)' = Upto(handled)
        BY <1>0, <1>1, <2>5 DEF Upto
    <3>. QED BY <1>0, <1>3, <1>5, <2>1, <3>1 DEF Measured
  <2>7. FlushIsBounded'
    <3>1. Len(sent') + Len(posting') - 1 = handled - 1 BY <1>0, <1>1, <1>2, <2>1
    <3>2. Upto(handled - 1) < Upto(Len(sent)) + MaxBytes BY <1>3, <1>4
    <3>. QED BY <1>0, <3>1, <3>2 DEF FlushIsBounded, Upto
  <2>. QED BY <2>2, <2>3, <2>4, <2>6, <2>7 DEF IInv
<1>8. CASE length < MaxBytes
  <2>1. buffer' = text /\ bytes' = length /\ UNCHANGED <<posting, mutex>>
        /\ timer' \in {"running", timer}
      BY <1>4, <1>3, <1>6, <1>8
  <2>2. length \in 0..(MaxBytes - 1) BY <1>3, <1>4, <1>8
  <2>3. TypeOK' BY <1>0, <1>2, <2>1, <2>2 DEF IInv, TypeOK
  <2>4. Contiguous'
    <3>1. InHand' = 0 /\ Len(sent') = Len(sent) /\ Len(posting') = 0 /\ Len(buffer') = Len(text)
        BY <1>0, <1>1, <2>1 DEF InHand
    <3>2. handled' = Len(sent') + Len(posting') + Len(buffer') + InHand'
        BY <1>0, <1>1, <1>2, <3>1
    <3>3. \A i \in 1..Len(sent') : sent'[i] = i BY <1>0 DEF IInv, Contiguous
    <3>4. \A i \in 1..Len(buffer') : buffer'[i] = Len(sent') + Len(posting') + i
        BY <1>0, <1>1, <1>2, <2>1
    <3>. QED BY <3>1, <3>2, <3>3, <3>4 DEF Contiguous
  <2>5. MutexHeld' BY <1>0, <2>1 DEF IInv, MutexHeld
  <2>6. Before' = Len(sent) /\ Len(buffer') = Len(buffer) + 1
      BY <1>0, <1>1, <1>2, <2>1 DEF Before
  <2>7. Measured'
    <3>1. (Before + Len(buffer))' = handled BY <1>1, <2>6
    <3>2. Upto(Before + Len(buffer))' = Upto(handled) /\ Upto(Before)' = Upto(Len(sent))
        BY <1>0, <2>6, <3>1 DEF Upto
    <3>. QED BY <1>0, <1>4, <1>5, <2>1, <3>2 DEF Measured
  <2>8. FlushIsBounded' BY <1>0, <2>1 DEF FlushIsBounded
  <2>. QED BY <2>3, <2>4, <2>5, <2>7, <2>8 DEF IInv
<1>. QED BY <1>3, <1>4, <1>7, <1>8

(* A post puts its deltas behind what was posted before, lost or not.      *)
LEMMA PostedStep == ASSUME DeltaAssumption, IInv, Posted PROVE IInv'
<1>1. /\ sent' = sent \o posting /\ posting' = <<>> /\ mutex' = "free"
      /\ UNCHANGED <<ends, reader, buffer, bytes, timer, callbacks>>
      /\ handled' = handled
    BY DEF Posted, Deliver, handled
<1>2. /\ sent' \in Seq(1..MaxEvents)
      /\ Len(sent') = Len(sent) + Len(posting) /\ Len(posting') = 0
    BY <1>1 DEF IInv, TypeOK
<1>3. \A i \in 1..Len(sent') : sent'[i] = i
    BY <1>1, <1>2 DEF IInv, TypeOK, Contiguous
<1>4. lost' \subseteq 1..MaxEvents
  <2>1. \A i \in 1..Len(posting) : posting[i] \in 1..MaxEvents BY DEF IInv, TypeOK
  <2>2. {posting[i] : i \in 1..Len(posting)} \subseteq 1..MaxEvents BY <2>1
  <2>3. lost \subseteq 1..MaxEvents BY DEF IInv, TypeOK
  <2>. QED BY <2>2, <2>3 DEF Posted, Deliver
<1>5. TypeOK' BY <1>1, <1>2, <1>4 DEF IInv, TypeOK
<1>6. Len(sent) \in Nat /\ Len(posting) \in Nat /\ Len(buffer) \in Nat BY DEF IInv, TypeOK
<1>7. Contiguous' BY <1>1, <1>2, <1>3, <1>6 DEF IInv, Contiguous, InHand
<1>8. MutexHeld' BY <1>1 DEF IInv, MutexHeld
<1>9. Before' = Before BY <1>1, <1>2, <1>6 DEF Before
<1>10. Measured' BY <1>1, <1>9 DEF IInv, Measured, Upto
<1>11. FlushIsBounded' BY <1>1 DEF FlushIsBounded
<1>. QED BY <1>5, <1>7, <1>8, <1>10, <1>11 DEF IInv

(* The event that is not a delta follows everything before it.             *)
LEMMA ForwardStep == ASSUME DeltaAssumption, IInv, Forward PROVE IInv'
<1>1. /\ reader = "forward" /\ reader' = "idle"
      /\ sent' = sent \o <<handled>> /\ handled' = handled
      /\ lost' \in {lost, lost \cup {<<handled>>[i] : i \in 1..Len(<<handled>>)}}
      /\ UNCHANGED <<ends, buffer, bytes, posting, mutex, timer, callbacks>>
      /\ buffer = <<>> /\ mutex = "free" /\ posting = <<>>
    BY DEF Forward, Deliver, IInv, MutexHeld, handled
<1>2. /\ handled = Len(sent) + 1 /\ Len(sent) \in Nat /\ sent \in Seq(1..MaxEvents)
      /\ Len(posting) = 0 /\ Len(buffer) = 0 /\ handled \in 1..MaxEvents
  <2>1. /\ Len(sent) \in Nat /\ sent \in Seq(1..MaxEvents) /\ handled \in Nat /\ handled <= MaxEvents
        /\ Len(posting) = 0 /\ Len(buffer) = 0
      BY <1>1 DEF IInv, TypeOK, handled
  <2>. QED BY <1>1, <2>1 DEF IInv, Contiguous, InHand, DeltaAssumption
<1>3. /\ sent' = Append(sent, handled)
      /\ lost' \in {lost, lost \cup {handled}}
  <2>1. \A i \in 1..Len(<<handled>>) : <<handled>>[i] = handled OBVIOUS
  <2>2. 1 \in 1..Len(<<handled>>) OBVIOUS
  <2>3. {<<handled>>[i] : i \in 1..Len(<<handled>>)} = {handled} BY <2>1, <2>2
  <2>4. sent' = Append(sent, handled) BY <1>1, <1>2
  <2>. QED BY <1>1, <2>3, <2>4
<1>4. /\ sent' \in Seq(1..MaxEvents) /\ Len(sent') = Len(sent) + 1
      /\ \A i \in 1..Len(sent) : sent'[i] = sent[i]
      /\ sent'[Len(sent) + 1] = handled
    BY <1>2, <1>3, AppendSeq
<1>5. \A i \in 1..Len(sent') : sent'[i] = i
  <2>1. \A i \in 1..Len(sent) : sent[i] = i BY DEF IInv, Contiguous
  <2>. QED BY <1>2, <1>4, <2>1
<1>6. TypeOK' BY <1>1, <1>2, <1>3, <1>4 DEF IInv, TypeOK
<1>7. Contiguous' BY <1>1, <1>2, <1>4, <1>5 DEF IInv, Contiguous, InHand
<1>8. MutexHeld' BY <1>1 DEF IInv, MutexHeld
<1>9. Measured'
  <2>1. bytes = Upto(Before + Len(buffer)) - Upto(Before) BY DEF IInv, Measured
  <2>2. Before = Len(sent) /\ Before + Len(buffer) = Before
        /\ Before' = Len(sent) + 1 /\ (Before + Len(buffer))' = Before'
      BY <1>1, <1>2, <1>4 DEF Before
  <2>3. Upto(Before) \in Nat /\ Upto(handled) \in Nat
    <3>1. Before \in 0..handled /\ handled \in 0..handled BY <1>2, <2>2
    <3>. QED BY <3>1, UptoTyped DEF IInv
  <2>4. bytes = 0 BY <2>1, <2>2, <2>3
  <2>5. Upto(Before)' = Upto(handled) /\ Upto(Before + Len(buffer))' = Upto(handled)
      BY <1>1, <1>2, <2>2 DEF Upto
  <2>6. \A n \in 1..handled' : Upto(n - 1)' <= Upto(n)' BY <1>1 DEF IInv, Measured, Upto
  <2>. QED BY <1>1, <2>3, <2>4, <2>5, <2>6 DEF Measured
<1>10. FlushIsBounded' BY <1>1 DEF FlushIsBounded
<1>. QED BY <1>6, <1>7, <1>8, <1>9, <1>10 DEF IInv

LEMMA NextIInv == ASSUME DeltaAssumption, IInv, [Next]_vars PROVE IInv'
<1>1. CASE Receive BY <1>1, ReceiveStep
<1>2. CASE Add BY <1>2, AddStep
<1>3. CASE Flush
    <2>1. callbacks' \in Nat /\ InHand' = InHand BY <1>3 DEF Flush, IInv, TypeOK, InHand
    <2>. QED BY <1>3, <2>1, FlushKeeps DEF Flush
<1>4. CASE Forward BY <1>4, ForwardStep
<1>5. CASE Stop
    <2>1. callbacks' \in Nat /\ InHand' = InHand BY <1>5 DEF Stop, IInv, TypeOK, InHand
    <2>. QED BY <1>5, <2>1, FlushKeeps DEF Stop
<1>6. CASE TimerExpires
    <2>1. /\ UNCHANGED <<ends, reader, buffer, bytes, posting, mutex, sent, lost, handled>>
          /\ timer' = "expired" /\ callbacks' \in Nat
        BY <1>6 DEF TimerExpires, relay, handled, IInv, TypeOK
    <2>. QED BY <2>1 DEF IInv, TypeOK, Contiguous, MutexHeld, Measured, FlushIsBounded, InHand,
                         Before, Upto
<1>7. CASE Callback
    <2>1. callbacks' \in Nat /\ InHand' = InHand BY <1>7 DEF Callback, IInv, TypeOK, InHand
    <2>2. reader' = reader /\ reader' \in {"idle", "add", "flush", "forward", "done"}
        BY <1>7 DEF Callback, IInv, TypeOK
    <2>. QED BY <1>7, <2>1, <2>2, FlushKeeps DEF Callback
<1>8. CASE Posted BY <1>8, PostedStep
<1>9. CASE UNCHANGED vars
    <2>1. UNCHANGED <<ends, reader, buffer, bytes, posting, mutex, timer, callbacks, sent, lost,
                      handled>>
        BY <1>9 DEF vars, relay, handled
    <2>. QED BY <2>1 DEF IInv, TypeOK, Contiguous, MutexHeld, Measured, FlushIsBounded, InHand,
                         Before, Upto
<1>. QED BY <1>1, <1>2, <1>3, <1>4, <1>5, <1>6, <1>7, <1>8, <1>9 DEF Next

LEMMA InductiveInvariant == Spec => []IInv
<1>1. Init => IInv BY InitIInv, DeltaAssumption
<1>2. IInv /\ [Next]_vars => IInv' BY NextIInv, DeltaAssumption
<1>. QED BY <1>1, <1>2, PTL DEF Spec

-----------------------------------------------------------------------------
(* Type correctness; in particular the buffer never holds maxBytes or more *)
(* between two steps (deltas.go, add).                                     *)
THEOREM TypeCorrect == Spec => []TypeOK
<1>1. IInv => TypeOK BY DEF IInv
<1>. QED BY <1>1, InductiveInvariant, PTL

(* A flush exceeds the limit by less than the delta that filled the buffer *)
(* (deltas.go:115-118 checks after the append), for every size of a delta. *)
THEOREM FlushesAreBounded == Spec => []FlushIsBounded
<1>1. IInv => FlushIsBounded BY DEF IInv
<1>. QED BY <1>1, InductiveInvariant, PTL

(* Coalescing never reorders, leaves out or repeats: whatever timers do,   *)
(* what is posted is what the read loop handled, in that order (deltas.go: *)
(* ordering is the load-bearing property).                                 *)
THEOREM CoalescingKeepsOrder == Spec => []InOrder
<1>1. IInv => InOrder BY DEF IInv, Contiguous, InOrder
<1>. QED BY <1>1, InductiveInvariant, PTL

(* stop loses no buffered tail, and no timer posts after it (deltas.go,    *)
(* stop).                                                                  *)
THEOREM StopKeepsTail == Spec => []TailIsKept
<1>1. IInv => TailIsKept
    BY DEF IInv, TypeOK, Contiguous, MutexHeld, TailIsKept, InHand
<1>. QED BY <1>1, InductiveInvariant, PTL

-----------------------------------------------------------------------------
(* A timer that expired left a callback behind, and a buffer that is not   *)
(* empty has had its timer started since it was emptied last.              *)
Timed ==
    /\ timer = "expired" => callbacks > 0
    /\ buffer # <<>> => timer # "nil"

LEMMA NextTimed == ASSUME IInv, Timed, [Next]_vars PROVE Timed'
<1>1. ASSUME NEW holder, NEW text, NEW length, FlushLocked(holder, text, length) PROVE Timed'
    BY <1>1 DEF FlushLocked, Timed
<1>2. CASE Add
    <2>. DEFINE text   == Append(buffer, handled)
                length == bytes + (Upto(handled) - Upto(handled - 1))
    <2>1. CASE length >= MaxBytes BY <1>1, <1>2, <2>1 DEF Add
    <2>2. CASE ~(length >= MaxBytes)
      <3>1. timer' = (IF timer = "nil" THEN "running" ELSE timer) /\ callbacks' = callbacks
          BY <1>2, <2>2 DEF Add
      <3>. QED BY <3>1 DEF Timed
    <2>. QED BY <2>1, <2>2
<1>3. CASE Flush BY <1>1, <1>3 DEF Flush
<1>4. CASE Stop BY <1>1, <1>4 DEF Stop
<1>5. CASE Callback BY <1>1, <1>5 DEF Callback
<1>6. CASE TimerExpires BY <1>6 DEF TimerExpires, Timed, IInv, TypeOK
<1>7. CASE Receive \/ Forward \/ Posted \/ UNCHANGED vars
    BY <1>7 DEF Receive, Forward, Posted, vars, Timed
<1>. QED BY <1>2, <1>3, <1>4, <1>5, <1>6, <1>7 DEF Next

(* No delta is stranded: whichever callbacks lost their race, a buffer     *)
(* with text in it has a timer running or a callback waiting (deltas.go,   *)
(* add and flushLocked).  What is left to fairness is that they arrive.    *)
THEOREM SomebodyFetchesTheBuffer == Spec => []BufferIsTimed
<1>1. Init => Timed BY DEF Init, Timed
<1>2. IInv /\ Timed /\ [Next]_vars => Timed' BY NextTimed
<1>3. IInv /\ Timed => BufferIsTimed BY DEF IInv, TypeOK, Timed, BufferIsTimed
<1>. QED BY <1>1, <1>2, <1>3, InductiveInvariant, PTL DEF Spec

-----------------------------------------------------------------------------
(* The relay.                                                              *)

LEMMA SameUpto == ASSUME NEW n PROVE Relay!Upto(n) = Upto(n)
BY DEF Relay!Upto, Upto

(* Taking an event up is all the relay sees of it.                         *)
LEMMA ReceiveRelays == ASSUME DeltaAssumption, IInv, Receive PROVE Relay!Take
<1>1. reader = "idle" /\ reader' \in {"add", "flush"} /\ sent' = sent /\ lost' = lost
    BY DEF Receive, relay
<1>2. Relay!Upto(Len(ends)) = Upto(handled) BY SameUpto DEF handled
<1>3. \E size \in 0..MaxDelta : ends' = Append(ends, Relay!Upto(Len(ends)) + size)
  <2>1. CASE reader' = "add" BY <1>2, <2>1 DEF Receive, DeltaAssumption
  <2>2. CASE reader' = "flush"
    <3>1. ends' = Append(ends, Upto(handled)) BY <2>2 DEF Receive
    <3>2. handled \in 0..handled BY DEF IInv, TypeOK, handled
    <3>3. Upto(handled) \in Nat BY <3>2, UptoTyped DEF IInv
    <3>4. ends' = Append(ends, Upto(handled) + 0) /\ 0 \in 0..MaxDelta
        BY <3>1, <3>3 DEF DeltaAssumption
    <3>. QED BY <1>2, <3>4
  <2>. QED BY <1>1, <2>1, <2>2
<1>. QED BY <1>1, <1>3 DEF Relay!Take

(* A step that posts nothing before the session is over stays inside.      *)
LEMMA Inside ==
    ASSUME reader # "done", reader' # "done", UNCHANGED <<ends, relay>>
    PROVE  UNCHANGED Relay!vars
BY DEF Relay!vars, relay

(* Stopping with nothing buffered closes the path at once, with nothing    *)
(* more to deliver; otherwise the path stays open until the post is over.  *)
LEMMA StopRelays == ASSUME DeltaAssumption, IInv, Stop PROVE [Relay!Next]_(Relay!vars)
<1>1. /\ reader = "idle" /\ mutex = "free" /\ reader' = "done" /\ posting = <<>>
      /\ ends' = ends /\ sent' = sent /\ lost' = lost
      /\ mutex' = IF bytes = 0 THEN "free" ELSE "stop"
    BY DEF Stop, FlushLocked, IInv, MutexHeld, relay
<1>2. CASE bytes = 0
    <2>1. buffer = <<>> BY <1>2 DEF IInv, Measured
    <2>2. Len(ends) = Len(sent) /\ Len(ends) \in Nat /\ sent \in Seq(1..MaxEvents)
        BY <1>1, <2>1 DEF IInv, TypeOK, Contiguous, InHand, handled
    <2>3. sent' = sent \o Relay!Following(0) BY <1>1, <2>2 DEF Relay!Following
    <2>4. 0 \in 0..(Len(ends) - Len(sent)) /\ Len(sent) + 0 = Len(ends) BY <2>2
    <2>5. Relay!Fits(0) BY DEF Relay!Fits
    <2>6. reader # "done" /\ (reader' = "done" /\ mutex' # "stop") BY <1>1, <1>2
    <2>. QED BY <1>1, <2>3, <2>4, <2>5, <2>6 DEF Relay!Next, Relay!Deliver
<1>3. CASE bytes # 0 BY <1>1, <1>3 DEF Relay!vars
<1>. QED BY <1>2, <1>3

(* The post of a flush delivers it; if stop made it, that was the tail.    *)
LEMMA PostedRelays == ASSUME DeltaAssumption, IInv, Posted PROVE Relay!Deliver
<1>. DEFINE n == Len(posting)
<1>1. /\ mutex # "free" /\ sent' = sent \o posting /\ mutex' = "free" /\ posting # <<>>
      /\ lost' \in {lost, lost \cup {posting[i] : i \in 1..Len(posting)}}
      /\ UNCHANGED <<ends, reader>>
    BY DEF Posted, Deliver, IInv, MutexHeld
<1>2. /\ sent \in Seq(1..MaxEvents) /\ posting \in Seq(1..MaxEvents)
      /\ n \in Nat /\ n > 0 /\ Len(sent) \in Nat /\ Len(ends) \in Nat
      /\ n \in 0..(Len(ends) - Len(sent))
    BY <1>1 DEF IInv, TypeOK, Contiguous, InHand, handled
<1>0. \A i \in 1..n : posting[i] = Len(sent) + i BY DEF IInv, Contiguous
<1>3. posting = Relay!Following(n)
    <2>1. posting = [i \in 1..n |-> posting[i]] BY <1>2
    <2>. QED BY <1>0, <2>1 DEF Relay!Following
<1>4. {posting[i] : i \in 1..Len(posting)} = {Len(sent) + i : i \in 1..n} BY <1>0
<1>5. Relay!Fits(n) BY <1>1, SameUpto DEF IInv, FlushIsBounded, Relay!Fits
<1>6. reader = "done" => mutex = "stop" BY <1>1 DEF IInv, MutexHeld
<1>7. reader = "done" => Len(sent) + n = Len(ends)
    BY <1>2 DEF IInv, TypeOK, Contiguous, MutexHeld, InHand, handled
<1>. HIDE DEF n
<1>8. lost' \in {lost, lost \cup {Len(sent) + i : i \in 1..n}} BY <1>1, <1>4
<1>. QED BY <1>1, <1>2, <1>3, <1>5, <1>6, <1>7, <1>8 DEF Relay!Deliver

(* An event that is not a delta is a delivery of one.                      *)
LEMMA ForwardRelays == ASSUME DeltaAssumption, IInv, Forward PROVE Relay!Deliver
<1>. DEFINE one == <<handled>>
<1>1. /\ reader = "forward" /\ reader' = "idle" /\ sent' = sent \o one
      /\ lost' \in {lost, lost \cup {one[i] : i \in 1..Len(one)}}
      /\ ends' = ends /\ buffer = <<>> /\ posting = <<>>
    BY DEF Forward, Deliver, IInv, MutexHeld
<1>2. /\ handled = Len(sent) + 1 /\ Len(sent) \in Nat /\ Len(ends) = handled
      /\ 1 \in 0..(Len(ends) - Len(sent))
    BY <1>1 DEF IInv, TypeOK, Contiguous, InHand, handled
<1>3. Len(one) = 1 /\ one = [i \in 1..1 |-> one[i]] /\ \A i \in 1..1 : one[i] = Len(sent) + i
    BY <1>2
<1>4. one = Relay!Following(1) /\ {one[i] : i \in 1..Len(one)} = {Len(sent) + i : i \in 1..1}
    BY <1>3 DEF Relay!Following
<1>5. Relay!Fits(1)
  <2>1. Len(sent) \in 0..handled BY <1>2
  <2>2. Upto(Len(sent)) \in Nat BY <2>1, UptoTyped DEF IInv
  <2>3. Relay!Upto(Len(sent) + 1 - 1) = Upto(Len(sent)) BY <1>2, SameUpto
  <2>. QED BY <2>2, <2>3, SameUpto DEF Relay!Fits, DeltaAssumption
<1>. HIDE DEF one
<1>6. sent' = sent \o Relay!Following(1) BY <1>1, <1>4
<1>7. lost' \in {lost, lost \cup {Len(sent) + i : i \in 1..1}} BY <1>1, <1>4
<1>. QED BY <1>1, <1>2, <1>5, <1>6, <1>7 DEF Relay!Deliver

LEMMA NextRelays == ASSUME DeltaAssumption, IInv, [Next]_vars PROVE [Relay!Next]_(Relay!vars)
<1>1. CASE Receive BY <1>1, ReceiveRelays DEF Relay!Next
<1>2. CASE Add BY <1>2, Inside DEF Add
<1>3. CASE Flush BY <1>3, Inside DEF Flush
<1>4. CASE Forward BY <1>4, ForwardRelays DEF Relay!Next
<1>5. CASE Stop BY <1>5, StopRelays
<1>6. CASE TimerExpires BY <1>6 DEF TimerExpires, Relay!vars, relay
<1>7. CASE Callback
    <2>1. /\ UNCHANGED <<ends, reader, sent, lost>> /\ mutex = "free"
          /\ mutex' = IF bytes = 0 THEN "free" ELSE "timer"
        BY <1>7 DEF Callback, FlushLocked, relay
    <2>. QED BY <2>1 DEF Relay!vars
<1>8. CASE Posted BY <1>8, PostedRelays DEF Relay!Next
<1>9. CASE UNCHANGED vars BY <1>9 DEF vars, Relay!vars, relay
<1>. QED BY <1>1, <1>2, <1>3, <1>4, <1>5, <1>6, <1>7, <1>8, <1>9 DEF Next

(* The coalescer implements the relay the API counts on, whichever posts   *)
(* fail: deliveries that stop growing at the limit, in order, each event   *)
(* posted once, after stop the whole tail and then nothing; and nothing is *)
(* missing but what a failed post carried (deltas.go).                     *)
THEOREM CoalescerRelays == Spec => ImplementsRelay
<1>1. Init => Relay!Init BY DEF Init, Relay!Init
<1>2. IInv /\ [Next]_vars => [Relay!Next]_(Relay!vars) BY NextRelays, DeltaAssumption
<1>. QED BY <1>1, <1>2, InductiveInvariant, PTL DEF Spec, ImplementsRelay, Relay!Spec
=============================================================================
