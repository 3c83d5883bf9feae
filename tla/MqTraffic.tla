------------------------------ MODULE MqTraffic -----------------------------
(***************************************************************************)
(* lib/posix/options/message_passing/mqueue.c: what goes through one queue *)
(* (mq_send, mq_timedsend, mq_receive, mq_timedreceive, mq_setattr) and    *)
(* the registration for notification (mq_notify, the notification thread). *)
(* The lifetime of queues is in Mqueue; here the queue stays open.         *)
(*                                                                         *)
(* The messages are in a kernel message queue, whose calls are atomic. A   *)
(* step is what one thread does between two accesses to that queue, to the *)
(* flags of the descriptor or to the registration.  Calls that fail with   *)
(* EBADF, EINVAL, EMSGSIZE, EBUSY or ENOSYS leave everything as it was.    *)
(***************************************************************************)
EXTENDS Integers, Sequences, SequencesExt, FiniteSets

CONSTANTS
    Threads,
    MaxMsg,     \* mq_maxmsg
    MaxSends,   \* bound: messages sent in all
    MaxNotes    \* bound: notification threads at a time

VARIABLES
    buf,        \* the messages in the queue
    waitq,      \* the threads pending on it, first come first served
    nonblock,   \* mqd->flags & O_NONBLOCK
    not,        \* msg_queue->not: "zero", or its sigev_notify
    notes,      \* notification threads: how many are to call, to clear
    call,       \* where each thread is in its call, and its locals (set back once
                \* they are not read again)
    got,        \* the messages received, in order
    hist,       \* of each message: its sender, and whether its call has failed
    missed,     \* a call has ended that should have notified and did not
    fault,      \* "call" once a function pointer that was cleared is called
    habit       \* "serial": the clients' calls do not overlap

kernel == <<buf, waitq, got>>
vars == <<kernel, nonblock, not, notes, call, hist, missed, fault, habit>>

\* k_timeout_t: a time that may or may not come, which K_FOREVER is too, or
\* K_NO_WAIT, which a deadline in the past becomes.
Timeouts == {"timed", "nowait"}
Events == {"none", "thread"}        \* SIGEV_NONE, SIGEV_THREAD

Idle == [pc |-> "idle", how |-> "nowait", sample |-> 0, msg |-> 0, due |-> "zero"]

Init ==
    /\ buf = <<>> /\ waitq = <<>> /\ got = <<>>
    /\ nonblock = FALSE
    /\ not = "zero"
    /\ notes = [call |-> 0, clear |-> 0]
    /\ call = [t \in Threads |-> Idle]
    /\ hist = <<>> /\ missed = FALSE
    /\ fault = "no"
    /\ habit \in {"serial", "free"}

\* Threads that are neither idle nor asleep in the kernel
Busy == {t \in Threads : call[t].pc \notin {"idle", "put_wait", "get_wait"}}

Calls(t) ==
    /\ fault = "no"
    /\ call[t].pc = "idle"
    /\ habit = "serial" => Busy = {} /\ notes.call + notes.clear = 0

At(t, l) == fault = "no" /\ call[t].pc = l
Goto(t, l) == call' = [call EXCEPT ![t].pc = l]
Return(t) == call' = [call EXCEPT ![t] = Idle]

\* The call that sends t's message ends, having notified or not.
Ends(t, res, fired) ==
    /\ Return(t)
    /\ hist' = [hist EXCEPT ![call[t].msg].res = res]
    /\ missed' = (missed \/ (call[t].due # "zero" /\ not = call[t].due /\ ~fired))

Effective(m) == IF nonblock THEN "nowait" ELSE m

Receivers == {t \in Threads : call[t].pc = "get_wait"}
Senders == {t \in Threads : call[t].pc = "put_wait"}

-----------------------------------------------------------------------------
(* send_message *)

\* The flags are read, and the number of messages for the first time.
SendCall(t, m) ==
    /\ Calls(t)
    /\ Len(hist) < MaxSends
    /\ call' = [call EXCEPT ![t] = [pc |-> "put", how |-> Effective(m),
                                    sample |-> Len(buf), msg |-> Len(hist) + 1, due |-> "zero"]]
    /\ hist' = Append(hist, [by |-> t, res |-> "none"])
    /\ UNCHANGED <<kernel, nonblock, not, notes, missed, fault, habit>>

\* k_msgq_put hands the message to the first thread that waits for one.
PutHandOver(t) ==
    /\ At(t, "put")
    /\ Receivers # {}
    /\ LET r == Head(waitq) IN
        /\ got' = Append(got, call[t].msg)
        /\ waitq' = Tail(waitq)
        /\ call' = [call EXCEPT ![t].pc = "sample", ![t].how = "nowait", ![r] = Idle]
    /\ UNCHANGED <<buf, nonblock, not, notes, hist, missed, fault, habit>>

\* (mutant) the last place of the queue is used twice
PutOverLast(t) ==
    /\ At(t, "put")
    /\ Receivers = {}
    /\ buf' = IF Len(buf) < MaxMsg THEN Append(buf, call[t].msg) ELSE Append(Front(buf), call[t].msg)
    /\ call' = [call EXCEPT ![t].pc = "sample", ![t].how = "nowait",
                            ![t].due = IF buf = <<>> THEN not ELSE "zero"]
    /\ UNCHANGED <<waitq, got, nonblock, not, notes, hist, missed, fault, habit>>

\* k_msgq_put finds room.
PutRoom(t) ==
    /\ At(t, "put")
    /\ Receivers = {} /\ Len(buf) < MaxMsg
    /\ buf' = Append(buf, call[t].msg)
    /\ call' = [call EXCEPT ![t].pc = "sample", ![t].how = "nowait",
                            ![t].due = IF buf = <<>> THEN not ELSE "zero"]
    /\ UNCHANGED <<waitq, got, nonblock, not, notes, hist, missed, fault, habit>>

\* The queue is full: EAGAIN without a timeout, or the thread sleeps.
PutFull(t) ==
    /\ At(t, "put")
    /\ Receivers = {} /\ Len(buf) = MaxMsg
    /\ IF call[t].how = "nowait"
         THEN Ends(t, "failed", FALSE) /\ UNCHANGED waitq
         ELSE Goto(t, "put_wait") /\ waitq' = Append(waitq, t) /\ UNCHANGED <<hist, missed>>
    /\ UNCHANGED <<buf, got, nonblock, not, notes, fault, habit>>

\* ETIMEDOUT
PutExpires(t) ==
    /\ At(t, "put_wait") /\ call[t].how = "timed"
    /\ \E i \in DOMAIN waitq : waitq[i] = t /\ waitq' = RemoveAt(waitq, i)
    /\ Ends(t, "failed", FALSE)
    /\ UNCHANGED <<buf, got, nonblock, not, notes, fault, habit>>

\* (mutant) one message more does not count
SampleOffByOne(t) ==
    /\ At(t, "sample")
    /\ IF Len(buf) > call[t].sample + 1
         THEN /\ call' = [call EXCEPT ![t].pc = "notify", ![t].sample = 0]
              /\ UNCHANGED <<hist, missed>>
         ELSE Ends(t, "sent", FALSE)
    /\ UNCHANGED <<kernel, nonblock, not, notes, fault, habit>>

\* The number of messages is read again: an unsigned difference, greater than
\* zero whenever the two numbers differ.
SampleAgain(t) ==
    /\ At(t, "sample")
    /\ IF Len(buf) # call[t].sample
         THEN /\ call' = [call EXCEPT ![t].pc = "notify", ![t].sample = 0]
              /\ UNCHANGED <<hist, missed>>
         ELSE Ends(t, "sent", FALSE)
    /\ UNCHANGED <<kernel, nonblock, not, notes, fault, habit>>

\* sevp->sigev_notify is read: SIGEV_NONE calls from here, SIGEV_THREAD makes a
\* thread that does.
NotifyKind(t) ==
    /\ At(t, "notify")
    /\ \/ /\ not = "none"
          /\ Goto(t, "call")
          /\ UNCHANGED <<notes, hist, missed>>
       \/ /\ not = "thread" /\ notes.call + notes.clear < MaxNotes
          /\ notes' = [notes EXCEPT !.call = @ + 1]
          /\ Ends(t, "sent", TRUE)
       \/ /\ not = "zero"
          /\ Ends(t, "sent", FALSE)
          /\ UNCHANGED notes
    /\ UNCHANGED <<kernel, nonblock, not, fault, habit>>

\* pthread_create fails: so does mq_send, although the message is in the queue.
NotifyNoThread(t) ==
    /\ At(t, "notify") /\ not = "thread"
    /\ Ends(t, "create", TRUE)
    /\ UNCHANGED <<kernel, nonblock, not, notes, fault, habit>>

\* sevp->sigev_notify_function is read, and called.
NotifyCall(t) ==
    /\ At(t, "call")
    /\ IF not = "zero"
         THEN fault' = "call" /\ UNCHANGED <<call, hist, missed>>
         ELSE Ends(t, "sent", TRUE) /\ UNCHANGED fault
    /\ UNCHANGED <<kernel, nonblock, not, notes, habit>>

-----------------------------------------------------------------------------
(* receive_message *)

ReceiveCall(t, m) ==
    /\ Calls(t)
    /\ call' = [call EXCEPT ![t].pc = "get", ![t].how = Effective(m)]
    /\ UNCHANGED <<kernel, nonblock, not, notes, hist, missed, fault, habit>>

\* (mutant) the message of a pending sender is given ahead of the queue's
GetPendingFirst(t) ==
    /\ At(t, "get")
    /\ buf # <<>>
    /\ IF Senders = {}
         THEN /\ got' = Append(got, Head(buf))
              /\ buf' = Tail(buf)
              /\ Return(t)
              /\ UNCHANGED waitq
         ELSE /\ got' = Append(got, call[Head(waitq)].msg)
              /\ call' = [call EXCEPT ![t] = Idle, ![Head(waitq)].pc = "sample",
                           ![Head(waitq)].how = "nowait"]
              /\ waitq' = Tail(waitq)
              /\ UNCHANGED buf
    /\ UNCHANGED <<nonblock, not, notes, hist, missed, fault, habit>>

\* k_msgq_get takes the oldest message; the first thread that waits for room
\* puts its own.
Get(t) ==
    /\ At(t, "get")
    /\ buf # <<>>
    /\ got' = Append(got, Head(buf))
    /\ IF Senders = {}
         THEN /\ buf' = Tail(buf)
              /\ Return(t)
              /\ UNCHANGED waitq
         ELSE /\ buf' = Append(Tail(buf), call[Head(waitq)].msg)
              /\ call' = [call EXCEPT ![t] = Idle, ![Head(waitq)].pc = "sample",
                           ![Head(waitq)].how = "nowait"]
              /\ waitq' = Tail(waitq)
    /\ UNCHANGED <<nonblock, not, notes, hist, missed, fault, habit>>

\* Nothing to receive: EAGAIN without a timeout, or the thread sleeps.
GetEmpty(t) ==
    /\ At(t, "get")
    /\ buf = <<>>
    /\ IF call[t].how = "nowait"
         THEN Return(t) /\ UNCHANGED waitq
         ELSE Goto(t, "get_wait") /\ waitq' = Append(waitq, t)
    /\ UNCHANGED <<buf, got, nonblock, not, notes, hist, missed, fault, habit>>

\* ETIMEDOUT
GetExpires(t) ==
    /\ At(t, "get_wait") /\ call[t].how = "timed"
    /\ \E i \in DOMAIN waitq : waitq[i] = t /\ waitq' = RemoveAt(waitq, i)
    /\ Return(t)
    /\ UNCHANGED <<buf, got, nonblock, not, notes, hist, missed, fault, habit>>

\* mq_setattr: O_NONBLOCK is all it sets; a call that has started keeps the old.
Setattr(t) ==
    /\ Calls(t)
    /\ nonblock' = ~nonblock
    /\ UNCHANGED <<kernel, not, notes, call, hist, missed, fault, habit>>

-----------------------------------------------------------------------------
(* mq_notify: the test whether the queue is taken, and what follows it under *)
(* mq_sem, are two steps.                                                    *)

RegisterTest(t, e) ==
    /\ Calls(t)
    /\ not = "zero"
    /\ call' = [call EXCEPT ![t].pc = "store", ![t].how = e]
    /\ UNCHANGED <<kernel, nonblock, not, notes, hist, missed, fault, habit>>

RegisterStore(t) ==
    /\ At(t, "store")
    /\ not' = call[t].how
    /\ Return(t)
    /\ UNCHANGED <<kernel, nonblock, notes, hist, missed, fault, habit>>

UnregisterTest(t) ==
    /\ Calls(t)
    /\ not # "zero"
    /\ Goto(t, "clear")
    /\ UNCHANGED <<kernel, nonblock, not, notes, hist, missed, fault, habit>>

\* remove_notification
UnregisterClear(t) ==
    /\ At(t, "clear")
    /\ not' = "zero"
    /\ Return(t)
    /\ UNCHANGED <<kernel, nonblock, notes, hist, missed, fault, habit>>

\* mq_notify_thread calls what is registered by then.
NoteCall ==
    /\ fault = "no" /\ notes.call > 0
    /\ IF not = "zero"
         THEN fault' = "call" /\ UNCHANGED notes
         ELSE notes' = [call |-> notes.call - 1, clear |-> notes.clear + 1] /\ UNCHANGED fault
    /\ UNCHANGED <<kernel, nonblock, not, call, hist, missed, habit>>

\* ... and clears what is registered by then.
NoteClear ==
    /\ fault = "no" /\ notes.clear > 0
    /\ not' = "zero"
    /\ notes' = [notes EXCEPT !.clear = @ - 1]
    /\ UNCHANGED <<kernel, nonblock, call, hist, missed, fault, habit>>

\* Nothing is said of a program that has called a null pointer.
Crashed == fault # "no" /\ UNCHANGED vars

-----------------------------------------------------------------------------
Thread(t) ==
    \/ \E m \in Timeouts : SendCall(t, m) \/ ReceiveCall(t, m)
    \/ PutHandOver(t) \/ PutRoom(t) \/ PutFull(t) \/ PutExpires(t)
    \/ SampleAgain(t) \/ NotifyKind(t) \/ NotifyNoThread(t) \/ NotifyCall(t)
    \/ Get(t) \/ GetEmpty(t) \/ GetExpires(t)
    \/ Setattr(t)
    \/ \E e \in Events : RegisterTest(t, e)
    \/ RegisterStore(t) \/ UnregisterTest(t) \/ UnregisterClear(t)

Next == Crashed \/ NoteCall \/ NoteClear \/ \E t \in Threads : Thread(t)
Spec == Init /\ [][Next]_vars

-----------------------------------------------------------------------------
(* Properties *)

\* Every message that has left a sender, oldest first
Taken == got \o buf

\* mq_send tells the truth: a message whose call returned 0 is in the queue or
\* was received, once; one whose call failed with EAGAIN or ETIMEDOUT is and
\* was in neither, however a timeout races with the receiver that makes room.
\* (A call that failed to create the notification thread has sent its message.)
SendsTellTheTruth ==
    /\ IsInjective(Taken)
    /\ \A m \in DOMAIN hist :
        /\ hist[m].res \in {"sent", "create"} => m \in Range(Taken)
        /\ hist[m].res = "failed" => m \notin Range(Taken)

\* "All messages in message queue are of equal priority": the messages of one
\* thread are received in the order it sent them, also those that had to wait
\* for room or were handed over.
SenderOrderKept == \A i, j \in DOMAIN Taken :
    i < j /\ hist[Taken[i]].by = hist[Taken[j]].by => Taken[i] < Taken[j]

\* mq_notify registers "for notification when a message arrives on an empty
\* queue": no call that put a message in an empty queue, with a registration
\* then and to its end, returns without having notified.
ArrivalNotifies == ~missed

\* The same when calls do not overlap; and then no function that has been
\* unregistered is called.
SerialArrivalNotifies == habit = "serial" => ~missed /\ fault = "no"
=============================================================================
