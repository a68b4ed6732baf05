---------------------------- MODULE DeltaCoalescer ----------------------------
(***************************************************************************)
(* The coalescer between the read loop of a session and the API            *)
(* (worker/deltas.go): deltas wait in a buffer until there are enough of   *)
(* them, a timer expires, or another event follows.  The read loop and the *)
(* callbacks of the timer share the buffer under one mutex, which is held  *)
(* while a flush is posted.  Events are numbered in the order the read     *)
(* loop handles them; a delta has a size, and no delta is empty.           *)
(***************************************************************************)
EXTENDS Naturals, Sequences

CONSTANTS
    MaxEvents,  \* bound: events the read loop handles
    MaxBytes,   \* maxBytes: a buffer this long is flushed
    MaxDelta    \* bound: bytes of one delta

ASSUME DeltaAssumption ==
    /\ MaxEvents \in Nat
    /\ MaxBytes \in Nat \ {0}
    /\ MaxDelta \in Nat \ {0}

VARIABLES
    ends,       \* where in the text each event ends that was taken up so far
    reader,     \* where the read loop is
    buffer,     \* deltas waiting
    bytes,      \* their length
    posting,    \* deltas of the flush under way
    mutex,      \* who holds the mutex while a flush is posted
    timer,      \* c.timer: nil, running, or expired
    callbacks,  \* timer callbacks that have not got the mutex yet
    sent,       \* what was handed to the API client, in order
    lost        \* those of it whose post failed: it is logged, not repeated

relay == <<sent, lost>>
vars  == <<ends, reader, buffer, bytes, posting, mutex, timer, callbacks, relay>>

handled == Len(ends)
Upto(n) == IF n = 0 THEN 0 ELSE ends[n]

(* Every variable keeps its type, and the buffer stays below its limit.    *)
TypeOK ==
    /\ ends \in Seq(Nat) /\ handled <= MaxEvents
    /\ reader \in {"idle", "add", "flush", "forward", "done"}
    /\ buffer \in Seq(1..MaxEvents) /\ bytes \in 0..(MaxBytes - 1)
    /\ posting \in Seq(1..MaxEvents)
    /\ mutex \in {"free", "add", "flush", "stop", "timer"}
    /\ timer \in {"nil", "running", "expired"}
    /\ callbacks \in Nat
    /\ sent \in Seq(1..MaxEvents) /\ lost \subseteq 1..MaxEvents

Init ==
    /\ ends = <<>>
    /\ reader = "idle"
    /\ buffer = <<>> /\ bytes = 0 /\ posting = <<>>
    /\ mutex = "free"
    /\ timer = "nil" /\ callbacks = 0
    /\ sent = <<>> /\ lost = {}

-----------------------------------------------------------------------------
(* The read loop takes up a delta, or an event of any other kind, which    *)
(* adds nothing to the text.                                               *)
Receive ==
    /\ reader = "idle" /\ mutex # "add"
    /\ handled < MaxEvents
    /\ \/ reader' = "add" /\ \E size \in 1..MaxDelta : ends' = Append(ends, Upto(handled) + size)
       \/ reader' = "flush" /\ ends' = Append(ends, Upto(handled))
    /\ UNCHANGED <<buffer, bytes, posting, mutex, timer, callbacks, relay>>

(* Mutant: a timer that expired is not forgotten, so none is started       *)
(* again.                                                                  *)
FlushKeepsTimer(holder, text, length) ==
    /\ UNCHANGED timer
    /\ posting' = IF length = 0 THEN <<>> ELSE text
    /\ buffer' = <<>> /\ bytes' = 0
    /\ mutex' = IF length = 0 THEN "free" ELSE holder

(* flushLocked up to the post; a flush of nothing gives the mutex back at  *)
(* once.                                                                   *)
FlushLocked(holder, text, length) ==
    /\ timer' = "nil"
    /\ posting' = IF length = 0 THEN <<>> ELSE text
    /\ buffer' = <<>> /\ bytes' = 0
    /\ mutex' = IF length = 0 THEN "free" ELSE holder

(* add, before stop: only the session loop adds, and it is over by then.   *)
(* The limit is looked at after the delta has been written.                *)
Add ==
    /\ reader = "add" /\ mutex = "free"
    /\ reader' = "idle"
    /\ LET text   == Append(buffer, handled)
           length == bytes + (Upto(handled) - Upto(handled - 1))
       IN
       IF length >= MaxBytes
       THEN FlushLocked("add", text, length)
       ELSE /\ buffer' = text /\ bytes' = length
            /\ timer' = IF timer = "nil" THEN "running" ELSE timer
            /\ UNCHANGED <<posting, mutex>>
    /\ UNCHANGED <<ends, callbacks, relay>>

(* Mutant: an event is forwarded past the deltas before it.                *)
FlushNothing ==
    /\ reader = "flush" /\ mutex = "free"
    /\ reader' = "forward"
    /\ UNCHANGED <<ends, buffer, bytes, posting, mutex, timer, callbacks, relay>>

(* Any other event: flush, then forward it without the mutex.              *)
Flush ==
    /\ reader = "flush" /\ mutex = "free"
    /\ reader' = "forward"
    /\ FlushLocked("flush", buffer, bytes)
    /\ UNCHANGED <<ends, callbacks, relay>>

(* A delivery is posted: once, whether the post succeeds or fails.         *)
Deliver(text) ==
    /\ sent' = sent \o text
    /\ lost' \in {lost, lost \cup {text[i] : i \in 1..Len(text)}}

Forward ==
    /\ reader = "forward" /\ mutex # "flush"
    /\ reader' = "idle"
    /\ Deliver(<<handled>>)
    /\ UNCHANGED <<ends, buffer, bytes, posting, mutex, timer, callbacks>>

(* The session is over.                                                    *)
Stop ==
    /\ reader = "idle" /\ mutex = "free"
    /\ reader' = "done"
    /\ FlushLocked("stop", buffer, bytes)
    /\ UNCHANGED <<ends, callbacks, relay>>

-----------------------------------------------------------------------------
TimerExpires ==
    /\ timer = "running"
    /\ timer' = "expired"
    /\ callbacks' = callbacks + 1
    /\ UNCHANGED <<ends, reader, buffer, bytes, posting, mutex, relay>>

(* A callback that lost the race against a flush finds what came after it. *)
Callback ==
    /\ callbacks > 0 /\ mutex = "free"
    /\ callbacks' = callbacks - 1
    /\ FlushLocked("timer", buffer, bytes)
    /\ UNCHANGED <<ends, reader, relay>>

(* The post of a flush returns and the mutex is given back.                *)
Posted ==
    /\ mutex # "free"
    /\ Deliver(posting)
    /\ posting' = <<>>
    /\ mutex' = "free"
    /\ UNCHANGED <<ends, reader, buffer, bytes, timer, callbacks>>

Next ==
    \/ Receive \/ Add \/ Flush \/ Forward \/ Stop
    \/ TimerExpires \/ Callback \/ Posted

Spec == Init /\ [][Next]_vars

(* The timer goes on and the posts return; the read loop may wait for an event that *)
(* never comes.                                                            *)
FairSpec ==
    /\ Spec
    /\ WF_vars(TimerExpires) /\ WF_vars(Callback) /\ WF_vars(Posted)
    /\ WF_vars(Add) /\ WF_vars(Flush) /\ WF_vars(Forward)

-----------------------------------------------------------------------------
(* What is posted is what was handled, in that order, with nothing left    *)
(* out or repeated: an event never overtakes the deltas before it.         *)
InOrder == \A i \in 1..Len(sent) : sent[i] = i

(* Once stop has returned everything handled has been posted, and no       *)
(* callback that is still around posts anything more.                      *)
TailIsKept ==
    reader = "done" /\ mutex # "stop" => Len(sent) = handled /\ buffer = <<>> /\ posting = <<>>

(* A flush exceeds maxBytes by less than its last delta: what was buffered *)
(* before that one was below the limit.                                    *)
FlushIsBounded ==
    posting # <<>> =>
        Upto(Len(sent) + Len(posting) - 1) < Upto(Len(sent)) + MaxBytes

(* The path of the events out of the session: whatever the timer and the   *)
(* read loop do to one another, what is posted is the next run of what was *)
(* read, which stopped growing at maxBytes; closing it leaves nothing      *)
(* behind; and only a delivery whose own post failed is missing.           *)
Relay == INSTANCE EventRelay WITH
    Sizes  <- 0..MaxDelta,
    Batch  <- MaxBytes,
    out    <- sent,
    closed <- reader = "done" /\ mutex # "stop"

ImplementsRelay == Relay!Spec

(* Nothing waits in the buffer without somebody on the way to fetch it: a  *)
(* timer that runs, or a callback that is waiting for the mutex.           *)
BufferIsTimed == buffer # <<>> => timer = "running" \/ callbacks > 0

(* A delta waits for company, not for ever: it is posted even if the agent *)
(* says nothing more, as long as posts return.                             *)
DeltaIsForwarded == \A n \in 1..MaxEvents : handled >= n ~> Len(sent) >= n
=============================================================================
