------------------------------ MODULE MsgQueue ------------------------------
(***************************************************************************)
(* Messages that one thread sends to another's window: SendMessage,        *)
(* SendMessageTimeout, SendNotifyMessage, SendMessageCallback,             *)
(* ReplyMessage, and the end of a thread that sends or receives            *)
(* (dlls/ntdll/unix/horizon_msg_queue.h, its handlers in horizon.c, and    *)
(* the callers in dlls/win32u/message.c).                                  *)
(*                                                                         *)
(* Every handler runs under the objects mutex and is one action.  Sender   *)
(* and receiver share a result record which whoever lets go of it last     *)
(* frees, so the model keeps the record of every message, live or freed.   *)
(* Bits and masks are left out: each handler refreshes the queues, so      *)
(* QS_SENDMESSAGE is "sent[t] is not empty" and QS_SMRESULT "the head of   *)
(* sends[t] is answered", and a wait sets its own mask before it sleeps.   *)
(***************************************************************************)
EXTENDS Naturals, Sequences, SequencesExt, FiniteSets, SeqFilter

CONSTANTS
    Threads,     \* threads that have a message queue
    Msgs,        \* messages, each sent at most once
    MaxDepth,    \* how deep calls nest on one thread
    Kinds,       \* the kinds a run sends: "sync", "notify", "callback"
    Deadlines,   \* may a message have a deadline, and must it: a set of booleans
    MayEnd,      \* threads that may end
    None

ASSUME DepthAssumption == MaxDepth \in Nat \ {0}
ASSUME KindsAssumption == Kinds \subseteq {"sync", "notify", "callback"}
ASSUME DeadlinesAssumption == Deadlines \subseteq BOOLEAN /\ Deadlines # {}
ASSUME EndAssumption == MayEnd \subseteq Threads /\ None \notin Threads \cup Msgs
ASSUME AnswerAssumption == {"timeout", "denied"} \cap (Msgs \cup {None}) = {}

VARIABLES
    alive,     \* threads that have not ended
    sent,      \* sent[t]: what is sent to t and not received, oldest first
    res,       \* res[m]: the result record of m; "from" and "to" remember who sent it to whom
    sends,     \* sends[t]: results t waits for (send_results), the head first
    calls,     \* calls[t]: results t has a callback for (callback_results)
    recv,      \* recv[t]: results t is to reply to (recv_result), a stack
    frames,    \* frames[t]: what t's own stack is in, innermost first
    pumping,   \* messages whose senders' waits are in process_sent_messages
    told       \* told[m]: the answers the sender of m was given

vars == <<alive, sent, res, sends, calls, recv, frames, pumping, told>>

Answers == Msgs \cup {"timeout", "denied"}
Blank == [st |-> "none", sender |-> None, receiver |-> None, replied |-> FALSE,
          answer |-> None, deadline |-> FALSE, kind |-> "notify", from |-> None, to |-> None]
Message(m) == [k |-> "message", m |-> m]
Answer(m) == [k |-> "answer", m |-> m]
Proc(m) == [k |-> "proc", m |-> m, replied |-> FALSE, block |-> FALSE]
Wait(m, block) == [k |-> "wait", m |-> m, replied |-> FALSE, block |-> block]

Waiting(t) == frames[t] # <<>> /\ frames[t][1].k = "wait"
InProc(t) == frames[t] # <<>> /\ frames[t][1].k = "proc"
Awaited(t) == res[Head(sends[t])]

\* QS_SMRESULT: the answer the innermost wait is for has come.
HasResult(t) == sends[t] # <<>> /\ Awaited(t).replied

Init ==
    /\ alive = Threads
    /\ sent = [t \in Threads |-> <<>>]
    /\ res = [m \in Msgs |-> Blank]
    /\ sends = [t \in Threads |-> <<>>]
    /\ calls = [t \in Threads |-> <<>>]
    /\ recv = [t \in Threads |-> <<>>]
    /\ frames = [t \in Threads |-> <<>>]
    /\ pumping = {}
    /\ told = [m \in Msgs |-> <<>>]

-----------------------------------------------------------------------------
(* The result record *)

\* A record that neither side refers to is freed.
Settle(r) ==
    IF r.sender = None /\ r.receiver = None
    THEN [r EXCEPT !.st = IF @ = "live" THEN "freed" ELSE "double"] ELSE r

\* store_result.  A sender with a callback is done with the record once the
\* callback is on its way.
Store(r, a) ==
    LET q == [r EXCEPT !.replied = TRUE, !.answer = a, !.deadline = FALSE] IN
    Settle(IF r.kind = "callback" THEN [q EXCEPT !.sender = None] ELSE q)

\* The receiver is done with the record: its answer counts when there is
\* still a sender and no answer yet.
Answered(r, a) ==
    LET q == [r EXCEPT !.receiver = None] IN
    IF r.sender = None \/ r.replied THEN Settle(q) ELSE Store(q, a)

\* The callback is queued to its sender by the answer that counts.
Calls(r) == r.kind = "callback" /\ r.sender # None /\ ~r.replied

\* The answers in "ms" that callbacks take to thread u, in that order.
Deliver(u, ms) ==
    LET mine == Keep(ms, {m \in Msgs : Calls(res[m]) /\ res[m].sender = u})
    IN  [i \in DOMAIN mine |-> Answer(mine[i])]

\* The messages that the entries of a queue, or the frames of a stack, are for.
Ids(q) == [i \in DOMAIN q |-> q[i].m]

Unlink(q, m) == Keep(q, ToSet(q) \ {m})

-----------------------------------------------------------------------------
(* Operations *)

\* send_message to a thread that has not ended.  A sender without an answer
\* to wait for goes on at once; SMTO_BLOCK makes the wait deaf to messages.
Send(t, u, m, kind, deadline, block) ==
    /\ t \in alive /\ u \in alive \ {t} /\ ~Waiting(t) /\ Len(frames[t]) < MaxDepth
    /\ res[m] = Blank
    /\ deadline => kind = "sync"
    /\ block => deadline
    /\ res' = IF kind = "notify" THEN [res EXCEPT ![m] = [Blank EXCEPT !.st = "notify"]]
              ELSE [res EXCEPT ![m] = [Blank EXCEPT !.st = "live", !.sender = t, !.receiver = u,
                                                    !.deadline = deadline, !.kind = kind, !.from = t, !.to = u]]
    /\ sent' = [sent EXCEPT ![u] = Append(@, Message(m))]
    /\ sends' = IF kind = "sync" THEN [sends EXCEPT ![t] = <<m>> \o @] ELSE sends
    /\ calls' = IF kind = "callback" THEN [calls EXCEPT ![t] = <<m>> \o @] ELSE calls
    /\ frames' = IF kind = "sync" THEN [frames EXCEPT ![t] = <<Wait(m, block)>> \o @] ELSE frames
    /\ UNCHANGED <<alive, recv, pumping, told>>

\* Mutant: a wait never looks at what is sent meanwhile.
ListensDeaf(t) == ~Waiting(t)

\* wait_message_reply looks for its answer first and then, unless SMTO_BLOCK,
\* for messages; once it processes those it goes on until there are none left,
\* even if the answer comes meanwhile.  A thread that does not wait calls
\* GetMessage as it likes.
Pumping(t) == Waiting(t) /\ frames[t][1].m \in pumping
Listens(t) == Waiting(t) => Pumping(t) \/ (~HasResult(t) /\ ~frames[t][1].block)

\* Mutant: a result goes behind those the thread is already working on.
PushLast(stack, m) == Append(stack, m)
Push(stack, m) == <<m>> \o stack

\* get_message: the oldest sent message, before anything posted.  A thread
\* that waits for an answer processes what is sent to it meanwhile.  The
\* callback of SendMessageCallback runs in the frame that received it.
Receive(t) ==
    /\ t \in alive /\ sent[t] # <<>> /\ Listens(t) /\ Len(frames[t]) < MaxDepth
    /\ sent' = [sent EXCEPT ![t] = Tail(@)]
    /\ LET e == Head(sent[t]) IN
       IF e.k = "answer"
       THEN /\ told' = [told EXCEPT ![e.m] = Append(@, res[e.m].answer)]
            /\ UNCHANGED <<recv, frames>>
       ELSE /\ recv' = IF res[e.m].st = "notify" THEN recv ELSE [recv EXCEPT ![t] = Push(@, e.m)]
            /\ frames' = [frames EXCEPT ![t] = <<Proc(e.m)>> \o @]
            /\ UNCHANGED told
    /\ pumping' = IF Waiting(t) THEN pumping \cup {frames[t][1].m} ELSE pumping
    /\ UNCHANGED <<alive, res, sends, calls>>

\* process_sent_messages found no more, and the wait looks for its answer again
PumpEnds(t) ==
    /\ t \in alive /\ Pumping(t) /\ sent[t] = <<>>
    /\ pumping' = pumping \ {frames[t][1].m}
    /\ UNCHANGED <<alive, sent, res, sends, calls, recv, frames, told>>

\* The answer "a" of record m is stored while its receiver is at work: the
\* callback goes out and the record leaves the sender's list.
Store1(m, a, r) ==
    /\ res' = [res EXCEPT ![m] = r]
    /\ sent' = [u \in Threads |-> sent[u] \o Deliver(u, <<m>>)]
    /\ calls' = [u \in Threads |-> IF Calls(res[m]) THEN Unlink(calls[u], m) ELSE calls[u]]

\* ReplyMessage answers without ending the receiver's part in the record.
EarlyAnswered(r, a) == IF r.replied THEN r ELSE Store(r, a)

\* ReplyMessage in a window procedure: at most once, and not for a
\* notification.  It names no message: the server answers its topmost record.
ReplyMessage(t) ==
    /\ t \in alive /\ InProc(t) /\ ~frames[t][1].replied
    /\ res[frames[t][1].m].st # "notify"
    /\ frames' = [frames EXCEPT ![t][1].replied = TRUE]
    /\ IF recv[t] = <<>> THEN UNCHANGED <<res, sent, calls>>
       ELSE LET m == Head(recv[t]) IN Store1(m, frames[t][1].m, EarlyAnswered(res[m], frames[t][1].m))
    /\ UNCHANGED <<alive, sends, recv, pumping, told>>

\* The window procedure returns; reply_message with remove set, except for a
\* notification.
Return(t) ==
    /\ t \in alive /\ InProc(t)
    /\ frames' = [frames EXCEPT ![t] = Tail(@)]
    /\ IF res[frames[t][1].m].st = "notify" \/ recv[t] = <<>>
       THEN UNCHANGED <<res, sent, calls, recv>>
       ELSE LET m == Head(recv[t]) IN
            /\ recv' = [recv EXCEPT ![t] = Tail(@)]
            /\ Store1(m, frames[t][1].m, Answered(res[m], frames[t][1].m))
    /\ UNCHANGED <<alive, sends, pumping, told>>

\* get_message_reply once QS_SMRESULT is set: the sender lets go of the
\* record, which is at the head of its list.
Collect(t) ==
    /\ t \in alive /\ Waiting(t) /\ ~Pumping(t) /\ HasResult(t)
    /\ LET m == Head(sends[t]) IN
       /\ told' = [told EXCEPT ![frames[t][1].m] = Append(@, res[m].answer)]
       /\ res' = [res EXCEPT ![m] = Settle([@ EXCEPT !.sender = None])]
    /\ sends' = [sends EXCEPT ![t] = Tail(@)]
    /\ frames' = [frames EXCEPT ![t] = Tail(@)]
    /\ UNCHANGED <<alive, sent, calls, recv, pumping>>

\* Is m still in its receiver's queue (result->msg)?
Queued(m) == res[m].receiver # None /\ Contains(sent[res[m].receiver], Message(m))

\* Mutant: the message stays in the receiver's queue.
ExpireInPlace(m) ==
    /\ res[m].st = "live" /\ res[m].sender # None /\ res[m].deadline /\ ~res[m].replied
    /\ sent' = sent
    /\ res' = [res EXCEPT ![m] = Store(IF Queued(m) THEN [@ EXCEPT !.receiver = None] ELSE @, "timeout")]
    /\ UNCHANGED <<alive, sends, calls, recv, frames, pumping, told>>

\* The deadline passes (horizon_msgq_expire, part of every refresh): a message
\* that nobody received is taken back, one that is being processed goes on
\* without a sender who waits.
Expire(m) ==
    /\ res[m].st = "live" /\ res[m].sender # None /\ res[m].deadline /\ ~res[m].replied
    /\ sent' = [u \in Threads |-> IF u = res[m].receiver THEN Unlink(sent[u], Message(m)) ELSE sent[u]]
    /\ res' = [res EXCEPT ![m] = Store(IF Queued(m) THEN [@ EXCEPT !.receiver = None] ELSE @, "timeout")]
    /\ UNCHANGED <<alive, sends, calls, recv, frames, pumping, told>>

\* The records of which t is the receiver, as destroy meets them: those t
\* works on, innermost first, then the queue.
Owed(t) ==
    recv[t] \o Ids(Keep(sent[t], {e \in ToSet(sent[t]) : e.k = "message" /\ res[e.m].st # "notify"}))

\* What becomes of a record that the ending thread was to answer.
Deny(t, m) == Answered(res[m], "denied")

\* The thread ends (end_thread, horizon_msgq_destroy), killed or by itself,
\* wherever it is: it lets go of what it waits for, then denies what it owes.
EndThread(t) ==
    /\ t \in alive \cap MayEnd
    /\ alive' = alive \ {t}
    /\ res' = [m \in Msgs |->
                  IF res[m].sender = t THEN Settle([res[m] EXCEPT !.sender = None])
                  ELSE IF m \in ToSet(Owed(t)) THEN Deny(t, m) ELSE res[m]]
    /\ sent' = [u \in Threads |-> IF u = t THEN <<>> ELSE sent[u] \o Deliver(u, Owed(t))]
    /\ calls' = [u \in Threads |-> IF u = t THEN <<>>
                                   ELSE Keep(calls[u], {m \in Msgs : ~(m \in ToSet(Owed(t)) /\ Calls(res[m]))})]
    /\ sends' = [sends EXCEPT ![t] = <<>>]
    /\ recv' = [recv EXCEPT ![t] = <<>>]
    /\ frames' = [frames EXCEPT ![t] = <<>>]
    /\ UNCHANGED <<pumping, told>>

Next ==
    \/ \E t, u \in Threads, m \in Msgs, k \in Kinds, d \in Deadlines, b \in BOOLEAN : Send(t, u, m, k, d, b)
    \/ \E t \in Threads : Receive(t) \/ ReplyMessage(t) \/ Return(t) \/ Collect(t) \/ EndThread(t)
    \/ \E t \in Threads : PumpEnds(t)
    \/ \E m \in Msgs : Expire(m)

Spec == Init /\ [][Next]_vars

\* A thread that pumps messages receives what it is sent, its procedures
\* return, and it looks for the answer it waits for; deadlines pass.
Fair ==
    /\ \A t \in Threads : WF_vars(Receive(t)) /\ WF_vars(Return(t)) /\ WF_vars(PumpEnds(t)) /\ WF_vars(Collect(t))
    /\ \A m \in Msgs : WF_vars(Expire(m))

LiveSpec == Spec /\ Fair

-----------------------------------------------------------------------------
(* Properties *)

\* The variables have the values the code gives them.
TypeOK ==
    /\ alive \subseteq Threads
    /\ sent \in [Threads -> Seq([k : {"message", "answer"}, m : Msgs])]
    /\ res \in [Msgs -> [st : {"none", "notify", "live", "freed"}, sender : Threads \cup {None},
                         receiver : Threads \cup {None}, replied : BOOLEAN,
                         answer : Answers \cup {None}, deadline : BOOLEAN,
                         kind : {"sync", "notify", "callback"},
                         from : Threads \cup {None}, to : Threads \cup {None}]]
    /\ sends \in [Threads -> Seq(Msgs)] /\ calls \in [Threads -> Seq(Msgs)] /\ recv \in [Threads -> Seq(Msgs)]
    /\ frames \in [Threads -> Seq([k : {"proc", "wait"}, m : Msgs, replied : BOOLEAN, block : BOOLEAN])]
    /\ pumping \subseteq Msgs /\ told \in [Msgs -> Seq(Answers)]

\* Who refers to the record of m: the senders' lists, the receivers' stacks
\* and the messages that are still queued.
SenderRefs(m) == {t \in Threads : Contains(sends[t], m) \/ Contains(calls[t], m)}
ReceiverRefs(m) == {t \in Threads : Contains(recv[t], m) \/ Contains(sent[t], Message(m))}

\* No list of a thread refers to a freed record, none is freed twice and none
\* is leaked: the record is live exactly while a side refers to it, the sides
\* it names are the ones that refer to it, and both have not ended.
NoDangling ==
    \A m \in Msgs : res[m].st # "notify" =>
        /\ SenderRefs(m) = {res[m].sender} \ {None}
        /\ ReceiverRefs(m) = {res[m].receiver} \ {None}
        /\ SenderRefs(m) \cup ReceiverRefs(m) \subseteq alive
        /\ res[m].st = "live" <=> SenderRefs(m) \cup ReceiverRefs(m) # {}

\* The records that sender and receiver share are kept as long as they must.
RecordsKept == TypeOK /\ NoDangling

\* The frames of one kind that t is in, less notifications.
Part(t, k) == Keep(frames[t], {f \in ToSet(frames[t]) : f.k = k /\ res[f.m].st # "notify"})

\* reply_message and get_message_reply name no message: the server takes the
\* top of a stack of its own.  That stack always mirrors the caller's: the
\* window procedures a thread is in, less notifications, and the answers it
\* waits for, each innermost first.
StackMatches ==
    \A t \in alive : recv[t] = Ids(Part(t, "proc")) /\ sends[t] = Ids(Part(t, "wait"))

\* A sender learns of a message once, and what it learns is that message's
\* own answer or "timeout", or "denied" when the thread it was sent to has
\* ended.
AnswersMatch ==
    \A m \in Msgs :
        /\ Len(told[m]) <= 1
        /\ told[m] # <<>> => told[m][1] = res[m].answer
        /\ res[m].answer \in {None, m, "timeout", "denied"}
        /\ res[m].answer = "denied" => res[m].to \notin alive

\* A sender that waits can still get its answer: the answer is there, or a
\* thread that has not ended holds the message in its queue or in a procedure.
Answerable ==
    \A t \in alive : \A i \in DOMAIN sends[t] :
        LET r == res[sends[t][i]] IN r.replied \/ (r.receiver \in alive /\ ReceiverRefs(sends[t][i]) # {})

\* Answers reach the sends they belong to, however calls nest, expire and end.
AnswersReach == StackMatches /\ AnswersMatch /\ Answerable

\* Threads that send to each other do not wait for each other for ever: a
\* wait processes what is sent meanwhile, or has a deadline.  Every wait ends,
\* with its answer or with the sender: again and again nobody waits.
SendReturns == []<>(\A t \in Threads : sends[t] = <<>>)

\* A thread hears from each of its callbacks unless it ends itself: from the
\* receiver, or, when that ends first, that it was denied
\* (horizon_msgq_destroy).
CallbackComes ==
    []<>(\A m \in Msgs : res[m].kind = "callback" /\ res[m].from \in alive => told[m] # <<>>)

\* Whoever sent a message hears of it.
EveryoneHears == SendReturns /\ CallbackComes
=============================================================================
