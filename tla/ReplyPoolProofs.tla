---------------------------- MODULE ReplyPoolProofs ----------------------------
(***************************************************************************)
(* Proofs about ReplyPool, for any finite set of sessions and, where it    *)
(* matters, any pool with two connections for each of them.                *)
(***************************************************************************)
EXTENDS ReplyPool, FiniteSetTheorems, TLAPS

(* Only a waiting session has a waiter, and a new one has no watcher.      *)
Idle ==
    \A s \in Sessions :
        /\ session[s] # "waiting" => waiter[s] = "off"
        /\ session[s] = "new" => watcher[s] = "off"

Ways == {"done", "cancelled", "expired", "failed"}

-----------------------------------------------------------------------------
(* Types.                                                                  *)

(* The bell rings for goroutines that hold a connection.                   *)
Rings(b, watching, waiting) ==
    b \subseteq ({"watch"} \X {s \in Sessions : watching[s] \in Holding})
                  \cup ({"wait"} \X {s \in Sessions : waiting[s] \in Holding})

(* A goroutine that ends takes its notification with it.                   *)
LEMMA EndTyped ==
    ASSUME TypeOK, NEW s \in Sessions, NEW how \in Ways, EndSession(s, how)
    PROVE  /\ session' \in [Sessions -> {"new"} \cup Ways \cup Open]
           /\ watcher' \in [Sessions -> Wait] /\ waiter' \in [Sessions -> Wait]
           /\ Rings(bell', watcher', waiter')
<1>. USE DEF TypeOK, EndSession, Wait, Ways
<1>1. /\ session' \in [Sessions -> {"new"} \cup Ways \cup Open]
      /\ watcher' \in [Sessions -> Wait] /\ waiter' \in [Sessions -> Wait]
    BY DEF Open
<1>2. ASSUME NEW b \in bell'
      PROVE  b \in ({"watch"} \X {t \in Sessions : watcher'[t] \in Holding})
                  \cup ({"wait"} \X {t \in Sessions : waiter'[t] \in Holding})
  <2>1. b \in bell /\ b # <<"watch", s>> /\ b # <<"wait", s>> BY <1>2
  <2>2. CASE \E t \in Sessions : b = <<"watch", t>> /\ watcher[t] \in Holding
    <3>1. PICK t \in Sessions : b = <<"watch", t>> /\ watcher[t] \in Holding BY <2>2
    <3>2. t # s BY <2>1, <3>1
    <3>. QED BY <3>1, <3>2
  <2>3. CASE \E t \in Sessions : b = <<"wait", t>> /\ waiter[t] \in Holding
    <3>1. PICK t \in Sessions : b = <<"wait", t>> /\ waiter[t] \in Holding BY <2>3
    <3>2. t # s BY <2>1, <3>1
    <3>. QED BY <3>1, <3>2
  <2>. QED BY <2>1, <2>2, <2>3
<1>. QED BY <1>1, <1>2 DEF Rings

(* A goroutine moves on: its own notification, if any, is consumed, or it  *)
(* holds a connection before and after.                                    *)
LEMMA WaiterRings ==
    ASSUME TypeOK, NEW s \in Sessions, NEW to \in Wait,
           waiter' = [waiter EXCEPT ![s] = to], watcher' = watcher,
           \/ bell' = bell \ {<<"wait", s>>}
           \/ bell' = bell /\ (to \in Holding \/ waiter[s] \notin Holding)
    PROVE  Rings(bell', watcher', waiter')
<1>. SUFFICES ASSUME NEW b \in bell'
              PROVE  b \in ({"watch"} \X {t \in Sessions : watcher'[t] \in Holding})
                        \cup ({"wait"} \X {t \in Sessions : waiter'[t] \in Holding})
    BY DEF Rings
<1>1. b \in bell OBVIOUS
<1>2. CASE \E t \in Sessions : b = <<"watch", t>> /\ watcher[t] \in Holding BY <1>2
<1>3. CASE \E t \in Sessions : b = <<"wait", t>> /\ waiter[t] \in Holding
  <2>1. PICK t \in Sessions : b = <<"wait", t>> /\ waiter[t] \in Holding BY <1>3
  <2>2. t = s => to \in Holding BY <2>1
  <2>3. waiter'[t] \in Holding BY <2>1, <2>2 DEF TypeOK
  <2>. QED BY <2>1, <2>3
<1>. QED BY <1>1, <1>2, <1>3 DEF TypeOK

LEMMA WatcherRings ==
    ASSUME TypeOK, NEW s \in Sessions, NEW to \in Wait,
           watcher' = [watcher EXCEPT ![s] = to], waiter' = waiter,
           \/ bell' = bell \ {<<"watch", s>>}
           \/ bell' = bell /\ (to \in Holding \/ watcher[s] \notin Holding)
    PROVE  Rings(bell', watcher', waiter')
<1>. SUFFICES ASSUME NEW b \in bell'
              PROVE  b \in ({"watch"} \X {t \in Sessions : watcher'[t] \in Holding})
                        \cup ({"wait"} \X {t \in Sessions : waiter'[t] \in Holding})
    BY DEF Rings
<1>1. b \in bell OBVIOUS
<1>2. CASE \E t \in Sessions : b = <<"wait", t>> /\ waiter[t] \in Holding BY <1>2
<1>3. CASE \E t \in Sessions : b = <<"watch", t>> /\ watcher[t] \in Holding
  <2>1. PICK t \in Sessions : b = <<"watch", t>> /\ watcher[t] \in Holding BY <1>3
  <2>2. t = s => to \in Holding BY <2>1
  <2>3. watcher'[t] \in Holding BY <2>1, <2>2 DEF TypeOK
  <2>. QED BY <2>1, <2>3
<1>. QED BY <1>1, <1>2, <1>3 DEF TypeOK

LEMMA InitIdle == Init => TypeOK /\ Idle
<1>1. 0 \in 0..MaxAsks BY ReplyPoolAssumption
<1>. QED BY <1>1 DEF Init, TypeOK, Idle, Wait, Open

LEMMA TypesKept == TypeOK /\ Idle /\ [Next]_vars => TypeOK'
<1>. SUFFICES ASSUME TypeOK, Idle, [Next]_vars PROVE TypeOK' OBVIOUS
<1>0. MaxAsks \in Nat BY ReplyPoolAssumption
<1>1. CASE PollTick \/ PollAcquire BY <1>1 DEF PollTick, PollAcquire, TypeOK
<1>2. CASE PollClaims
  <2>1. PICK s \in Sessions : /\ session[s] = "new"
                              /\ session' = [session EXCEPT ![s] = "work"]
                              /\ watcher' = [watcher EXCEPT ![s] = "acquire"]
      BY <1>2 DEF PollClaims
  <2>2. watcher[s] \notin Holding /\ "acquire" \in Wait BY <2>1 DEF Idle, Holding, Wait
  <2>3. UNCHANGED <<waiter, bell>> BY <1>2 DEF PollClaims
  <2>4. Rings(bell', watcher', waiter') BY <2>1, <2>2, <2>3, WatcherRings
  <2>. QED BY <1>2, <2>1, <2>2, <2>4 DEF PollClaims, TypeOK, Rings, Open
<1>3. ASSUME NEW s \in Sessions, Ask(s)
      PROVE  TypeOK'
  <2>1. asks' \in [Sessions -> 0..MaxAsks] BY <1>0, <1>3 DEF Ask, TypeOK
  <2>2. session' \in [Sessions -> {"new"} \cup Ways \cup Open] BY <1>3 DEF Ask, TypeOK, Open, Ways
  <2>. QED BY <1>3, <2>1, <2>2 DEF Ask, TypeOK, Ways
<1>4. ASSUME NEW s \in Sessions, Reply(s)
      PROVE  TypeOK'
  <2>1. bell' = bell \cup ({"wait"} \X Listening(waiter)) /\ UNCHANGED <<watcher, waiter>>
      BY <1>4 DEF Reply
  <2>2. Rings(bell', watcher', waiter') BY <2>1 DEF TypeOK, Rings, Listening, Holding
  <2>3. replies' \in [Sessions -> BOOLEAN] BY <1>4 DEF Reply, TypeOK
  <2>. QED BY <1>4, <2>2, <2>3 DEF Reply, TypeOK, Rings
<1>5. ASSUME NEW s \in Sessions, Cancel(s)
      PROVE  TypeOK'
  <2>1. bell' = bell \cup ({"watch"} \X Listening(watcher)) /\ UNCHANGED <<watcher, waiter>>
      BY <1>5 DEF Cancel
  <2>2. Rings(bell', watcher', waiter') BY <2>1 DEF TypeOK, Rings, Listening, Holding
  <2>3. row' \in [Sessions -> BOOLEAN] BY <1>5 DEF Cancel, TypeOK
  <2>. QED BY <1>5, <2>2, <2>3 DEF Cancel, TypeOK, Rings
<1>6. ASSUME NEW s \in Sessions, Finish(s) \/ Expire(s) \/ WaiterFails(s) \/ SeeCancelled(s)
      PROVE  TypeOK'
  <2>1. /\ \E how \in Ways : EndSession(s, how)
        /\ UNCHANGED <<asks, row, replies, early, poll>>
      BY <1>6 DEF Finish, Expire, WaiterFails, SeeCancelled, Ways
  <2>2. PICK how \in Ways : EndSession(s, how) BY <2>1
  <2>3. /\ session' \in [Sessions -> {"new"} \cup Ways \cup Open]
        /\ watcher' \in [Sessions -> Wait] /\ waiter' \in [Sessions -> Wait]
        /\ Rings(bell', watcher', waiter')
      BY <2>2, EndTyped
  <2>. QED BY <2>1, <2>3 DEF TypeOK, Rings, Ways
<1>7. ASSUME NEW s \in Sessions, BeginWait(s)
      PROVE  TypeOK'
  <2>1. /\ waiter' = [waiter EXCEPT ![s] = "acquire"] /\ UNCHANGED <<watcher, bell>>
        /\ waiter[s] \notin Holding /\ "acquire" \in Wait
      BY <1>7 DEF BeginWait, Idle, Holding, Wait
  <2>2. Rings(bell', watcher', waiter') BY <2>1, WaiterRings
  <2>. QED BY <1>7, <2>1, <2>2 DEF BeginWait, TypeOK, Rings, Open
<1>8. ASSUME NEW s \in Sessions,
             \/ WaiterAcquire(s) \/ WaiterListen(s) \/ ClaimReply(s) \/ NoReplyYet(s)
             \/ WaiterWakes(s)
      PROVE  TypeOK'
  <2>1. \E to \in Wait :
          /\ waiter' = [waiter EXCEPT ![s] = to] /\ watcher' = watcher
          /\ \/ bell' = bell \ {<<"wait", s>>}
             \/ bell' = bell /\ (to \in Holding \/ waiter[s] \notin Holding)
      BY <1>8 DEF WaiterAcquire, WaiterListen, ClaimReply, NoReplyYet, WaiterWakes, Holding, Wait
  <2>2. Rings(bell', watcher', waiter') BY <2>1, WaiterRings
  <2>3. waiter' \in [Sessions -> Wait] /\ watcher' \in [Sessions -> Wait] BY <2>1 DEF TypeOK
  <2>4. /\ \/ session' = session
           \/ session' = [session EXCEPT ![s] = "work"]
        /\ \/ replies' = replies
           \/ replies' = [replies EXCEPT ![s] = FALSE]
        /\ UNCHANGED <<asks, row, early, poll>>
      BY <1>8 DEF WaiterAcquire, WaiterListen, ClaimReply, NoReplyYet, WaiterWakes
  <2>5. session' \in [Sessions -> {"new"} \cup Ways \cup Open] /\ replies' \in [Sessions -> BOOLEAN]
      BY <2>4 DEF TypeOK, Ways, Open
  <2>. QED BY <2>2, <2>3, <2>4, <2>5 DEF TypeOK, Rings, Ways
<1>9. ASSUME NEW s \in Sessions,
             \/ WatcherAcquire(s) \/ WatcherListen(s) \/ NotCancelled(s) \/ WatcherWakes(s)
             \/ WatcherFails(s)
      PROVE  TypeOK'
  <2>1. \E to \in Wait :
          /\ watcher' = [watcher EXCEPT ![s] = to] /\ waiter' = waiter
          /\ \/ bell' = bell \ {<<"watch", s>>}
             \/ bell' = bell /\ (to \in Holding \/ watcher[s] \notin Holding)
      BY <1>9 DEF WatcherAcquire, WatcherListen, NotCancelled, WatcherWakes, WatcherFails, Holding,
                  Wait
  <2>2. Rings(bell', watcher', waiter') BY <2>1, WatcherRings
  <2>3. waiter' \in [Sessions -> Wait] /\ watcher' \in [Sessions -> Wait] BY <2>1 DEF TypeOK
  <2>4. UNCHANGED <<session, asks, row, replies, early, poll>>
      BY <1>9 DEF WatcherAcquire, WatcherListen, NotCancelled, WatcherWakes, WatcherFails
  <2>. QED BY <2>2, <2>3, <2>4 DEF TypeOK, Rings
<1>10. CASE UNCHANGED vars BY <1>10 DEF vars, TypeOK
<1>. QED
    BY <1>1, <1>2, <1>3, <1>4, <1>5, <1>6, <1>7, <1>8, <1>9, <1>10
       DEF Next, Poll, Waiter, Watcher

LEMMA IdleKept == TypeOK /\ Idle /\ [Next]_vars => Idle'
<1>. SUFFICES ASSUME TypeOK, Idle, [Next]_vars PROVE Idle' OBVIOUS
<1>. USE DEF Idle, TypeOK
<1>1. CASE PollTick \/ PollAcquire BY <1>1 DEF PollTick, PollAcquire
<1>2. CASE PollClaims BY <1>2 DEF PollClaims
<1>3. ASSUME NEW s \in Sessions,
             \/ Ask(s) \/ Reply(s) \/ Cancel(s) \/ BeginWait(s)
             \/ WaiterAcquire(s) \/ WaiterListen(s) \/ ClaimReply(s) \/ NoReplyYet(s)
             \/ WaiterWakes(s)
      PROVE  Idle'
  BY <1>3 DEF Ask, Reply, Cancel, BeginWait, WaiterAcquire, WaiterListen, ClaimReply, NoReplyYet,
              WaiterWakes
<1>4. ASSUME NEW s \in Sessions,
             \/ WatcherAcquire(s) \/ WatcherListen(s) \/ NotCancelled(s) \/ WatcherWakes(s)
             \/ WatcherFails(s)
      PROVE  Idle'
  BY <1>4 DEF WatcherAcquire, WatcherListen, NotCancelled, WatcherWakes, WatcherFails
<1>5. ASSUME NEW s \in Sessions, Finish(s) \/ Expire(s) \/ WaiterFails(s) \/ SeeCancelled(s)
      PROVE  Idle'
  <2>1. \E how \in Ways : EndSession(s, how)
      BY <1>5 DEF Finish, Expire, WaiterFails, SeeCancelled, Ways
  <2>. QED BY <2>1 DEF EndSession, Ways
<1>6. CASE UNCHANGED vars BY <1>6 DEF vars
<1>. QED BY <1>1, <1>2, <1>3, <1>4, <1>5, <1>6 DEF Next, Poll, Waiter, Watcher

LEMMA IdleInvariance == Spec => [](TypeOK /\ Idle)
BY InitIdle, TypesKept, IdleKept, PTL DEF Spec

(* TypeOK: every variable keeps its type, and no notification is buffered  *)
(* for a goroutine that has given its connection back.                     *)
THEOREM TypeCorrect == Spec => []TypeOK
BY IdleInvariance, PTL

-----------------------------------------------------------------------------
(* Early replies.                                                          *)

(* A wait that began with its reply there finds it at its first check.     *)
EarlyInv ==
    \A s \in Sessions :
        /\ session[s] = "waiting" /\ early[s] =>
              replies[s] /\ waiter[s] \in {"acquire", "listen", "check"}
        /\ session[s] = "expired" => ~early[s]

Roomy == PoolSize >= 2 * Cardinality(Sessions)

(* With two connections for every session, those that sleep never hold     *)
(* them all while another one waits to get one.                            *)
LEMMA RoomForOneMore ==
    ASSUME Roomy, TypeOK, NEW s \in Sessions, waiter[s] = "acquire"
    PROVE  ~Exhausted
<1>. DEFINE W == Asleep("watch", watcher)
            R == Asleep("wait", waiter)
            N == Cardinality(Sessions)
<1>1. IsFiniteSet(Sessions) /\ N \in Nat BY ReplyPoolAssumption, FS_CardinalityType
<1>2. W \subseteq Sessions /\ R \subseteq Sessions \ {s} BY DEF Asleep
<1>3. Cardinality(W) \in Nat /\ Cardinality(W) <= N
    BY <1>1, <1>2, FS_Subset, FS_CardinalityType
<1>4. IsFiniteSet(Sessions \ {s}) /\ Cardinality(Sessions \ {s}) = N - 1
    BY <1>1, FS_RemoveElement
<1>5. Cardinality(R) \in Nat /\ Cardinality(R) <= N - 1
    BY <1>2, <1>4, FS_Subset, FS_CardinalityType
<1>6. PoolSize \in Nat BY ReplyPoolAssumption
<1>7. Cardinality(W) + Cardinality(R) < PoolSize BY <1>1, <1>3, <1>5, <1>6 DEF Roomy
<1>8. Exhausted => Cardinality(W) + Cardinality(R) = PoolSize BY DEF Exhausted
<1>. HIDE DEF W, R
<1>. QED BY <1>3, <1>5, <1>6, <1>7, <1>8

LEMMA EarlyKept ==
    ASSUME Roomy, TypeOK, Idle, EarlyInv, [Next]_vars
    PROVE  EarlyInv'
<1>. USE DEF EarlyInv, TypeOK
<1>1. CASE PollTick \/ PollAcquire BY <1>1 DEF PollTick, PollAcquire
<1>2. CASE PollClaims BY <1>2 DEF PollClaims
<1>3. ASSUME NEW s \in Sessions,
             \/ Ask(s) \/ Reply(s) \/ Cancel(s) \/ BeginWait(s)
             \/ WaiterAcquire(s) \/ WaiterListen(s) \/ ClaimReply(s) \/ NoReplyYet(s)
             \/ WaiterWakes(s)
      PROVE  EarlyInv'
  BY <1>3 DEF Ask, Reply, Cancel, BeginWait, WaiterAcquire, WaiterListen, ClaimReply, NoReplyYet,
              WaiterWakes
<1>4. ASSUME NEW s \in Sessions,
             \/ WatcherAcquire(s) \/ WatcherListen(s) \/ NotCancelled(s) \/ WatcherWakes(s)
             \/ WatcherFails(s)
      PROVE  EarlyInv'
  BY <1>4 DEF WatcherAcquire, WatcherListen, NotCancelled, WatcherWakes, WatcherFails
<1>5. ASSUME NEW s \in Sessions, Finish(s) \/ WaiterFails(s) \/ SeeCancelled(s)
      PROVE  EarlyInv'
  <2>1. /\ \E how \in {"done", "failed", "cancelled"} : EndSession(s, how)
        /\ UNCHANGED <<replies, early>>
      BY <1>5 DEF Finish, WaiterFails, SeeCancelled
  <2>. QED BY <2>1 DEF EndSession
<1>6. ASSUME NEW s \in Sessions, Expire(s)
      PROVE  EarlyInv'
  <2>1. /\ session[s] = "waiting" /\ EndSession(s, "expired") /\ UNCHANGED <<replies, early>>
        /\ s \in Asleep("wait", waiter) \/ (waiter[s] = "acquire" /\ Exhausted)
      BY <1>6 DEF Expire
  <2>2. waiter[s] = "sleep" BY <2>1, RoomForOneMore DEF Asleep
  <2>3. ~early[s] BY <2>1, <2>2
  <2>. QED BY <2>1, <2>3 DEF EndSession
<1>7. CASE UNCHANGED vars BY <1>7 DEF vars
<1>. QED BY <1>1, <1>2, <1>3, <1>4, <1>5, <1>6, <1>7 DEF Next, Poll, Waiter, Watcher

(* AnsweredIsDelivered: with two connections for every session, no wait    *)
(* that began with its reply there runs into its deadline, however the     *)
(* goroutines and the notifications interleave.                            *)
THEOREM EarlyReplyIsDelivered == Roomy => (Spec => []AnsweredIsDelivered)
<1>. SUFFICES ASSUME Roomy PROVE Spec => []AnsweredIsDelivered OBVIOUS
<1>1. Init => EarlyInv BY DEF Init, EarlyInv
<1>2. TypeOK /\ Idle /\ EarlyInv /\ [Next]_vars => EarlyInv' BY EarlyKept
<1>3. EarlyInv => AnsweredIsDelivered BY DEF EarlyInv, AnsweredIsDelivered
<1>. QED BY <1>1, <1>2, <1>3, IdleInvariance, PTL DEF Spec

-----------------------------------------------------------------------------
(* Notifications.                                                          *)

(* A step of one goroutine loses nobody else's notification, and its own   *)
(* only by looking again or by leaving.                                    *)
LEMMA WakeupKept ==
    ASSUME TypeOK, NoLostWakeup, [Next]_vars
    PROVE  NoLostWakeup'
<1>. USE DEF NoLostWakeup, TypeOK
<1>1. CASE PollTick \/ PollAcquire BY <1>1 DEF PollTick, PollAcquire
<1>2. CASE PollClaims BY <1>2 DEF PollClaims
<1>3. ASSUME NEW s \in Sessions,
             \/ Ask(s) \/ BeginWait(s) \/ WaiterAcquire(s) \/ WaiterListen(s) \/ NoReplyYet(s)
             \/ WatcherAcquire(s) \/ WatcherListen(s) \/ NotCancelled(s)
      PROVE  NoLostWakeup'
  BY <1>3 DEF Ask, BeginWait, WaiterAcquire, WaiterListen, NoReplyYet, WatcherAcquire,
              WatcherListen, NotCancelled
<1>4. ASSUME NEW s \in Sessions,
             ClaimReply(s) \/ WaiterWakes(s) \/ WatcherWakes(s) \/ WatcherFails(s)
      PROVE  NoLostWakeup'
  BY <1>4 DEF ClaimReply, WaiterWakes, WatcherWakes, WatcherFails
<1>5. ASSUME NEW s \in Sessions, Finish(s) \/ Expire(s) \/ WaiterFails(s) \/ SeeCancelled(s)
      PROVE  NoLostWakeup'
  <2>1. /\ \E how \in Ways : EndSession(s, how)
        /\ UNCHANGED <<row, replies>>
      BY <1>5 DEF Finish, Expire, WaiterFails, SeeCancelled, Ways
  <2>. QED BY <2>1 DEF EndSession
<1>6. ASSUME NEW s \in Sessions, Reply(s)
      PROVE  NoLostWakeup'
  <2>1. /\ \A t \in Sessions : waiter[t] = "sleep" => <<"wait", t>> \in bell'
        /\ bell \subseteq bell' /\ UNCHANGED <<row, watcher, waiter>>
      BY <1>6 DEF Reply, Listening
  <2>. QED BY <2>1
<1>7. ASSUME NEW s \in Sessions, Cancel(s)
      PROVE  NoLostWakeup'
  <2>1. /\ \A t \in Sessions : watcher[t] = "sleep" => <<"watch", t>> \in bell'
        /\ bell \subseteq bell' /\ UNCHANGED <<replies, watcher, waiter>>
      BY <1>7 DEF Cancel, Listening
  <2>. QED BY <2>1
<1>8. CASE UNCHANGED vars BY <1>8 DEF vars
<1>. QED BY <1>1, <1>2, <1>3, <1>4, <1>5, <1>6, <1>7, <1>8 DEF Next, Poll, Waiter, Watcher

(* NoLostWakeup: LISTEN before the first look is what makes it true, for   *)
(* any number of sessions and whatever fails (messages/store.go,           *)
(* WaitForReply; queue.go, WatchCancellation).                             *)
THEOREM WakeupsAreNotLost == Spec => []NoLostWakeup
<1>1. Init => NoLostWakeup BY DEF Init, NoLostWakeup
<1>2. TypeOK /\ NoLostWakeup /\ [Next]_vars => NoLostWakeup' BY WakeupKept
<1>. QED BY <1>1, <1>2, IdleInvariance, PTL DEF Spec

-----------------------------------------------------------------------------
(* Connections.                                                            *)

(* While the poll loop has a claim under way, a slot is waiting for what   *)
(* it claims.                                                              *)
SlotKept == poll # "idle" => \E s \in Sessions : session[s] = "new"

LEMMA SlotIsKept == ASSUME TypeOK, Idle, SlotKept, [Next]_vars PROVE SlotKept'
<1>. USE DEF SlotKept, TypeOK
<1>1. CASE Poll BY <1>1 DEF Poll, PollTick, PollAcquire, PollClaims
<1>2. ASSUME NEW s \in Sessions, session[s] # "new", poll' = poll,
             \/ session' = session
             \/ \E how : session' = [session EXCEPT ![s] = how]
      PROVE  SlotKept'
  BY <1>2
<1>3. ASSUME NEW s \in Sessions,
             \/ Ask(s) \/ Reply(s) \/ Cancel(s) \/ BeginWait(s) \/ ClaimReply(s)
             \/ Finish(s) \/ Expire(s) \/ WaiterFails(s) \/ SeeCancelled(s)
      PROVE  SlotKept'
  <2>1. session[s] # "new"
      BY <1>3 DEF Ask, Reply, Cancel, BeginWait, ClaimReply, Finish, Expire, WaiterFails,
                  SeeCancelled, Idle, Open
  <2>2. CASE \/ Ask(s) \/ Reply(s) \/ Cancel(s) \/ BeginWait(s) \/ ClaimReply(s)
      BY <1>2, <2>1, <2>2 DEF Ask, Reply, Cancel, BeginWait, ClaimReply
  <2>3. CASE \/ Finish(s) \/ Expire(s) \/ WaiterFails(s) \/ SeeCancelled(s)
      BY <1>2, <2>1, <2>3 DEF Finish, Expire, WaiterFails, SeeCancelled, EndSession
  <2>. QED BY <1>3, <2>2, <2>3
<1>4. ASSUME NEW s \in Sessions,
             \/ WaiterAcquire(s) \/ WaiterListen(s) \/ NoReplyYet(s) \/ WaiterWakes(s)
             \/ WatcherAcquire(s) \/ WatcherListen(s) \/ NotCancelled(s) \/ WatcherWakes(s)
             \/ WatcherFails(s)
      PROVE  SlotKept'
  BY <1>4 DEF WaiterAcquire, WaiterListen, NoReplyYet, WaiterWakes, WatcherAcquire,
              WatcherListen, NotCancelled, WatcherWakes, WatcherFails
<1>5. CASE UNCHANGED vars BY <1>5 DEF vars
<1>. QED BY <1>1, <1>3, <1>4, <1>5 DEF Next, Waiter, Watcher

(* Sessions that leave somebody out are fewer.                             *)
LEMMA OneLess ==
    ASSUME NEW S \in SUBSET Sessions
    PROVE  /\ Cardinality(S) \in Nat /\ Cardinality(Sessions) \in Nat
           /\ Cardinality(S) <= Cardinality(Sessions)
           /\ (\E s \in Sessions : s \notin S) => Cardinality(S) <= Cardinality(Sessions) - 1
<1>1. IsFiniteSet(Sessions) /\ Cardinality(Sessions) \in Nat
    BY ReplyPoolAssumption, FS_CardinalityType
<1>2. Cardinality(S) \in Nat /\ Cardinality(S) <= Cardinality(Sessions)
    BY <1>1, FS_Subset, FS_CardinalityType
<1>3. ASSUME NEW s \in Sessions, s \notin S PROVE Cardinality(S) <= Cardinality(Sessions) - 1
  <2>1. IsFiniteSet(Sessions \ {s}) /\ Cardinality(Sessions \ {s}) = Cardinality(Sessions) - 1
      BY <1>1, FS_RemoveElement
  <2>2. S \subseteq Sessions \ {s} BY <1>3
  <2>. QED BY <2>1, <2>2, FS_Subset
<1>. QED BY <1>1, <1>2, <1>3

(* Whoever waits for a connection holds none, and while the poll loop      *)
(* holds one a whole session holds none: at most one less than two for     *)
(* each session are in use.                                                *)
LEMMA SpareIsFree ==
    ASSUME Roomy, Idle, SlotKept,
           poll = "acquire" \/ \E s \in Sessions : "acquire" \in {watcher[s], waiter[s]}
    PROVE  Free
<1>. DEFINE W == {s \in Sessions : watcher[s] \in Holding}
            R == {s \in Sessions : waiter[s] \in Holding}
            N == Cardinality(Sessions)
            C == IF poll = "claim" THEN 1 ELSE 0
<1>1. /\ Cardinality(W) \in Nat /\ Cardinality(R) \in Nat /\ N \in Nat
      /\ Cardinality(W) <= N /\ Cardinality(R) <= N
      /\ (\E s \in Sessions : s \notin W) => Cardinality(W) <= N - 1
      /\ (\E s \in Sessions : s \notin R) => Cardinality(R) <= N - 1
    BY OneLess
<1>2. PoolSize \in Nat /\ PoolSize >= 2 * N BY ReplyPoolAssumption DEF Roomy
<1>3. Free <=> Cardinality(W) + Cardinality(R) + C < PoolSize BY DEF Free, InUse
<1>4. CASE poll # "idle"
  <2>1. \E s \in Sessions : s \notin W /\ s \notin R BY <1>4 DEF SlotKept, Idle, Holding
  <2>2. Cardinality(W) <= N - 1 /\ Cardinality(R) <= N - 1 BY <1>1, <2>1
  <2>. HIDE DEF W, R
  <2>. QED BY <1>1, <1>2, <1>3, <2>2
<1>5. CASE poll = "idle"
  <2>1. (\E s \in Sessions : s \notin W) \/ (\E s \in Sessions : s \notin R)
      BY <1>5 DEF Holding
  <2>2. Cardinality(W) + Cardinality(R) <= 2 * N - 1
      <3>. HIDE DEF W, R
      <3>. QED BY <1>1, <2>1
  <2>3. C = 0 BY <1>5
  <2>. HIDE DEF W, R, C
  <2>. QED BY <1>1, <1>2, <1>3, <2>2, <2>3
<1>. QED BY <1>4, <1>5

(* ConnectionToSpare: with two connections for each session nobody, the    *)
(* poll loop included, ever queues for one, so a wait for a person holds   *)
(* nothing else up (main.go and worker.go share one pool).                 *)
THEOREM NobodyQueues == Spec => []ConnectionToSpare
<1>1. Init => SlotKept BY DEF Init, SlotKept
<1>2. TypeOK /\ Idle /\ SlotKept /\ [Next]_vars => SlotKept' BY SlotIsKept
<1>3. Idle /\ SlotKept => ConnectionToSpare BY SpareIsFree DEF ConnectionToSpare, Roomy
<1>. QED BY <1>1, <1>2, <1>3, IdleInvariance, PTL DEF Spec
=============================================================================
