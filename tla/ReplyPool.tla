------------------------------ MODULE ReplyPool ------------------------------
(***************************************************************************)
(* How one replica's agent sessions wait for people (messages/store.go,    *)
(* queue/queue.go WatchCancellation, worker/replytimeout.go).  A session   *)
(* has one goroutine that waits for its cancellation for as long as the    *)
(* session lasts and, while it asks, one that waits for a reply; both hold *)
(* a connection of the pool that the poll loop's claim statement is sent   *)
(* over.  A connection that has executed LISTEN buffers what it is         *)
(* notified of; a notification is not addressed to one job.                *)
(***************************************************************************)
EXTENDS Naturals, FiniteSets

CONSTANTS
    Sessions,   \* the agent jobs of this replica, one per limiter slot
    PoolSize,   \* connections in the pool
    MaxAsks,    \* bound: questions a session asks
    Faults      \* which faults the environment may inject

ASSUME ReplyPoolAssumption ==
    /\ IsFiniteSet(Sessions)
    /\ PoolSize \in Nat \ {0}
    /\ MaxAsks \in Nat
    /\ Faults \subseteq {"db"}

VARIABLES
    session,    \* what a session is doing
    asks,       \* questions it asked so far
    row,        \* jobs.status is cancelled
    replies,    \* an undelivered row of job_messages
    early,      \* the reply was there when the wait for it began
    watcher,    \* the goroutine in WatchCancellation
    waiter,     \* the goroutine in WaitForReply
    bell,       \* goroutines whose connection has buffered a notification
    poll        \* the poll loop's claim

vars == <<session, asks, row, replies, early, watcher, waiter, bell, poll>>

Wait == {"off", "acquire", "listen", "check", "sleep"}
Open == {"work", "asked", "waiting"}

Holding == {"listen", "check", "sleep"}

(* Every variable keeps its type, and only a goroutine that holds a        *)
(* connection has a notification buffered.                                 *)
TypeOK ==
    /\ session \in [Sessions -> {"new", "done", "cancelled", "expired", "failed"} \cup Open]
    /\ asks \in [Sessions -> 0..MaxAsks]
    /\ row \in [Sessions -> BOOLEAN]
    /\ replies \in [Sessions -> BOOLEAN]
    /\ early \in [Sessions -> BOOLEAN]
    /\ watcher \in [Sessions -> Wait]
    /\ waiter \in [Sessions -> Wait]
    /\ bell \subseteq
           ({"watch"} \X {s \in Sessions : watcher[s] \in Holding})
             \cup ({"wait"} \X {s \in Sessions : waiter[s] \in Holding})
    /\ poll \in {"idle", "acquire", "claim"}

Init ==
    /\ session = [s \in Sessions |-> "new"]
    /\ asks    = [s \in Sessions |-> 0]
    /\ row     = [s \in Sessions |-> FALSE]
    /\ replies = [s \in Sessions |-> FALSE]
    /\ early   = [s \in Sessions |-> FALSE]
    /\ watcher = [s \in Sessions |-> "off"]
    /\ waiter  = [s \in Sessions |-> "off"]
    /\ bell    = {}
    /\ poll    = "idle"

(* A goroutine holds its connection from Acquire to the deferred Release.  *)
InUse ==
      Cardinality({s \in Sessions : watcher[s] \in Holding})
    + Cardinality({s \in Sessions : waiter[s] \in Holding})
    + (IF poll = "claim" THEN 1 ELSE 0)

Free == InUse < PoolSize

-----------------------------------------------------------------------------
(* The poll loop: a claim needs a slot, then a connection.                 *)

(* Mutant: the loop polls although no slot is free.                        *)
PollTickAlways ==
    /\ poll = "idle"
    /\ poll' = "acquire"
    /\ UNCHANGED <<session, asks, row, replies, early, watcher, waiter, bell>>

PollTick ==
    /\ poll = "idle"
    /\ \E s \in Sessions : session[s] = "new"
    /\ poll' = "acquire"
    /\ UNCHANGED <<session, asks, row, replies, early, watcher, waiter, bell>>

PollAcquire ==
    /\ poll = "acquire" /\ Free
    /\ poll' = "claim"
    /\ UNCHANGED <<session, asks, row, replies, early, watcher, waiter, bell>>

(* The claimed job's session starts, and with it its watcher.              *)
PollClaims ==
    /\ poll = "claim"
    /\ poll' = "idle"
    /\ \E s \in Sessions :
          /\ session[s] = "new"
          /\ session' = [session EXCEPT ![s] = "work"]
          /\ watcher' = [watcher EXCEPT ![s] = "acquire"]
    /\ UNCHANGED <<asks, row, replies, early, waiter, bell>>

-----------------------------------------------------------------------------
(* The session.                                                            *)

Ask(s) ==
    /\ session[s] = "work" /\ asks[s] < MaxAsks
    /\ session' = [session EXCEPT ![s] = "asked"]
    /\ asks' = [asks EXCEPT ![s] = @ + 1]
    /\ UNCHANGED <<row, replies, early, watcher, waiter, bell, poll>>

BeginWait(s) ==
    /\ session[s] = "asked"
    /\ session' = [session EXCEPT ![s] = "waiting"]
    /\ early' = [early EXCEPT ![s] = replies[s]]
    /\ waiter' = [waiter EXCEPT ![s] = "acquire"]
    /\ UNCHANGED <<asks, row, replies, watcher, bell, poll>>

(* The session returns: its context is cancelled and whoever waits for it  *)
(* gives the connection back.                                              *)
EndSession(s, how) ==
    /\ session' = [session EXCEPT ![s] = how]
    /\ watcher' = [watcher EXCEPT ![s] = "off"]
    /\ waiter' = [waiter EXCEPT ![s] = "off"]
    /\ bell' = bell \ {<<"watch", s>>, <<"wait", s>>}

Finish(s) ==
    /\ session[s] = "work"
    /\ EndSession(s, "done")
    /\ UNCHANGED <<asks, row, replies, early, poll>>

-----------------------------------------------------------------------------
(* WaitForReply: acquire, LISTEN, then check and sleep until a check finds *)
(* a reply.                                                                *)

WaiterAcquire(s) ==
    /\ waiter[s] = "acquire" /\ Free
    /\ waiter' = [waiter EXCEPT ![s] = "listen"]
    /\ UNCHANGED <<session, asks, row, replies, early, watcher, bell, poll>>

(* Mutant: no check between LISTEN and the first sleep.                    *)
WaiterListenOnly(s) ==
    /\ waiter[s] = "listen"
    /\ waiter' = [waiter EXCEPT ![s] = "sleep"]
    /\ UNCHANGED <<session, asks, row, replies, early, watcher, bell, poll>>

WaiterListen(s) ==
    /\ waiter[s] = "listen"
    /\ waiter' = [waiter EXCEPT ![s] = "check"]
    /\ UNCHANGED <<session, asks, row, replies, early, watcher, bell, poll>>

ClaimReply(s) ==
    /\ waiter[s] = "check" /\ replies[s]
    /\ replies' = [replies EXCEPT ![s] = FALSE]
    /\ waiter' = [waiter EXCEPT ![s] = "off"]
    /\ bell' = bell \ {<<"wait", s>>}
    /\ session' = [session EXCEPT ![s] = "work"]
    /\ UNCHANGED <<asks, row, early, watcher, poll>>

NoReplyYet(s) ==
    /\ waiter[s] = "check" /\ ~replies[s]
    /\ waiter' = [waiter EXCEPT ![s] = "sleep"]
    /\ UNCHANGED <<session, asks, row, replies, early, watcher, bell, poll>>

(* Mutant: a notification is taken for one of another job, unchecked.      *)
WaiterTurnsOver(s) ==
    /\ waiter[s] = "sleep" /\ <<"wait", s>> \in bell
    /\ bell' = bell \ {<<"wait", s>>}
    /\ UNCHANGED <<session, asks, row, replies, early, watcher, waiter, poll>>

WaiterWakes(s) ==
    /\ waiter[s] = "sleep" /\ <<"wait", s>> \in bell
    /\ waiter' = [waiter EXCEPT ![s] = "check"]
    /\ bell' = bell \ {<<"wait", s>>}
    /\ UNCHANGED <<session, asks, row, replies, early, watcher, poll>>

(* The deadline is a day away: it meets a goroutine that nothing the       *)
(* process does by itself would move, because it sleeps unnotified or      *)
(* because such sleepers hold every connection.                            *)
Asleep(kind, state) == {s \in Sessions : state[s] = "sleep" /\ <<kind, s>> \notin bell}

Exhausted == Cardinality(Asleep("watch", watcher)) + Cardinality(Asleep("wait", waiter)) = PoolSize

Expire(s) ==
    /\ session[s] = "waiting"
    /\ \/ s \in Asleep("wait", waiter)
       \/ waiter[s] = "acquire" /\ Exhausted
    /\ EndSession(s, "expired")
    /\ UNCHANGED <<asks, row, replies, early, poll>>

WaiterFails(s) ==
    /\ "db" \in Faults /\ waiter[s] # "off"
    /\ EndSession(s, "failed")
    /\ UNCHANGED <<asks, row, replies, early, poll>>

-----------------------------------------------------------------------------
(* WatchCancellation.                                                      *)

WatcherAcquire(s) ==
    /\ watcher[s] = "acquire" /\ Free
    /\ watcher' = [watcher EXCEPT ![s] = "listen"]
    /\ UNCHANGED <<session, asks, row, replies, early, waiter, bell, poll>>

(* Mutant: no check between LISTEN and the first sleep.                    *)
WatcherListenOnly(s) ==
    /\ watcher[s] = "listen"
    /\ watcher' = [watcher EXCEPT ![s] = "sleep"]
    /\ UNCHANGED <<session, asks, row, replies, early, waiter, bell, poll>>

WatcherListen(s) ==
    /\ watcher[s] = "listen"
    /\ watcher' = [watcher EXCEPT ![s] = "check"]
    /\ UNCHANGED <<session, asks, row, replies, early, waiter, bell, poll>>

SeeCancelled(s) ==
    /\ watcher[s] = "check" /\ row[s]
    /\ EndSession(s, "cancelled")
    /\ UNCHANGED <<asks, row, replies, early, poll>>

NotCancelled(s) ==
    /\ watcher[s] = "check" /\ ~row[s]
    /\ watcher' = [watcher EXCEPT ![s] = "sleep"]
    /\ UNCHANGED <<session, asks, row, replies, early, waiter, bell, poll>>

WatcherWakes(s) ==
    /\ watcher[s] = "sleep" /\ <<"watch", s>> \in bell
    /\ watcher' = [watcher EXCEPT ![s] = "check"]
    /\ bell' = bell \ {<<"watch", s>>}
    /\ UNCHANGED <<session, asks, row, replies, early, waiter, poll>>

(* Its error is not looked at: the session goes on unwatched.              *)
WatcherFails(s) ==
    /\ "db" \in Faults /\ watcher[s] # "off"
    /\ watcher' = [watcher EXCEPT ![s] = "off"]
    /\ bell' = bell \ {<<"watch", s>>}
    /\ UNCHANGED <<session, asks, row, replies, early, waiter, poll>>

-----------------------------------------------------------------------------
(* The API writes a row and notifies every connection that listens.        *)

Listening(state) == {s \in Sessions : state[s] \in {"check", "sleep"}}

Reply(s) ==
    /\ session[s] \in {"asked", "waiting"} /\ ~replies[s]
    /\ replies' = [replies EXCEPT ![s] = TRUE]
    /\ bell' = bell \cup ({"wait"} \X Listening(waiter))
    /\ UNCHANGED <<session, asks, row, early, watcher, waiter, poll>>

Cancel(s) ==
    /\ session[s] \in Open /\ ~row[s]
    /\ row' = [row EXCEPT ![s] = TRUE]
    /\ bell' = bell \cup ({"watch"} \X Listening(watcher))
    /\ UNCHANGED <<session, asks, replies, early, watcher, waiter, poll>>

-----------------------------------------------------------------------------
Waiter(s) == BeginWait(s) \/ WaiterAcquire(s) \/ WaiterListen(s) \/ ClaimReply(s)
                \/ NoReplyYet(s) \/ WaiterWakes(s)

Watcher(s) == WatcherAcquire(s) \/ WatcherListen(s) \/ SeeCancelled(s) \/ NotCancelled(s)
                \/ WatcherWakes(s)

Poll == PollTick \/ PollAcquire \/ PollClaims

Next ==
    \/ Poll
    \/ \E s \in Sessions :
          \/ Waiter(s) \/ WaiterFails(s) \/ Expire(s)
          \/ Watcher(s) \/ WatcherFails(s)
          \/ Ask(s) \/ Finish(s) \/ Reply(s) \/ Cancel(s)

Spec == Init /\ [][Next]_vars

(* The goroutines run; agents, people and the deadline do as they like.    *)
FairSpec ==
    /\ Spec
    /\ WF_vars(Poll)
    /\ \A s \in Sessions : WF_vars(Waiter(s)) /\ WF_vars(Watcher(s))

-----------------------------------------------------------------------------
(* A question whose reply was already there when the wait began is never   *)
(* failed as unanswered (worker/replytimeout.go).                          *)
AnsweredIsDelivered == \A s \in Sessions : session[s] = "expired" => ~early[s]

(* Whoever sleeps on something that has happened has been notified of it,  *)
(* although a notification says nothing of the job it is for and may have  *)
(* come between LISTEN and the check, or for somebody else                 *)
(* (messages/store.go, queue.go WatchCancellation).                        *)
NoLostWakeup ==
    \A s \in Sessions :
        /\ waiter[s] = "sleep" /\ replies[s] => <<"wait", s>> \in bell
        /\ watcher[s] = "sleep" /\ row[s] => <<"watch", s>> \in bell

(* Two connections for each session are enough for the poll loop too:      *)
(* nobody who wants one queues behind goroutines that sleep.               *)
ConnectionToSpare ==
    PoolSize >= 2 * Cardinality(Sessions) =>
        (poll = "acquire" \/ (\E s \in Sessions : "acquire" \in {watcher[s], waiter[s]}) => Free)

(* A reply reaches the session that asked, unless the session ended.       *)
ReplyArrives == \A s \in Sessions : replies[s] ~> (~replies[s] \/ session[s] \notin Open)

(* A cancelled session ends, whatever its agent and the people do, unless  *)
(* its watcher failed.                                                     *)
CancelArrives == \A s \in Sessions : row[s] ~> (session[s] \notin Open \/ watcher[s] = "off")
=============================================================================
