---------------------------- MODULE EnvelopeQueue ---------------------------
(***************************************************************************)
(* What the envelope store promises while one store object serves its      *)
(* path: two queues, and a saved copy of both.  A request changes the      *)
(* queues in one step, one request at a time; it returns "ok" only when    *)
(* the queues as it left them are saved, both of them at once.  A request  *)
(* that fails may have changed the queues, and the next one to succeed     *)
(* saves that too.  After the death of the host the queues are what was    *)
(* saved last.                                                             *)
(*                                                                         *)
(* There are no files, mutexes or store objects here.  EnvelopeRefinement  *)
(* shows that EnvelopeStore implements this.                               *)
(***************************************************************************)
EXTENDS Naturals, FiniteSets

CONSTANTS
    Procs,  \* workflow steps that may be in flight together
    Refs,   \* envelope refs
    Msgs,   \* ciphertexts
    Times,  \* requested_at_unix
    Limits, \* the values of retention_limit the store may be started with
    None

VARIABLES
    durable,  \* is anything saved at all?
    saved,    \* the queues as last saved
    now,      \* the queues; None while the store is down
    limit,    \* retention_limit of the store; 0 keeps everything
    call      \* the local state of each step

vars == <<durable, saved, now, limit, call>>

Empty == [outbox |-> [r \in Refs |-> None], inbox |-> [r \in Refs |-> None]]

\* A step between its call and its return, before and after it changed the queues.
Pending == [pc  : {"pending"},
            op  : {"enqueue", "claim", "receive", "decrypt"},
            ref : Refs,
            arg : [msg : Msgs, at : Times] \cup {None}]

Init ==
    /\ durable \in BOOLEAN
    /\ saved = Empty
    /\ now = None
    /\ limit = 0
    /\ call = [p \in Procs |-> [pc |-> "idle"]]

Up ==
    /\ now = None
    /\ now' = saved
    /\ limit' \in Limits
    /\ UNCHANGED <<durable, saved, call>>

Down ==
    /\ now' = None
    /\ limit' = 0
    /\ call' = [p \in Procs |-> [pc |-> "idle"]]
    /\ UNCHANGED <<durable, saved>>

Return(p, pc) == call' = [call EXCEPT ![p] = [pc |-> pc]]
Open(p)       == call[p].pc \in {"pending", "applied"}

Call(p) ==
    /\ ~Open(p)
    /\ now # None
    /\ call'[p] \in Pending
    /\ call' = [call EXCEPT ![p] = call'[p]]
    /\ UNCHANGED <<durable, saved, now, limit>>

Refuse(p) ==
    /\ ~Open(p)
    /\ now = None
    /\ Return(p, "err")
    /\ UNCHANGED <<durable, saved, now, limit>>

Is(p, op) == call[p].pc = "pending" /\ call[p].op = op

\* A step that changes the queues, while no other has changed them and not returned.
Apply(p) ==
    /\ \A q \in Procs : call[q].pc # "applied"
    /\ IF durable THEN call' = [call EXCEPT ![p].pc = "applied"] ELSE Return(p, "ok")
    /\ UNCHANGED <<durable, saved, limit>>

Held(queue) == {r \in Refs : queue[r] # None}

\* Retention keeps the newest of what there was: nothing goes while the limit is not
\* exceeded, no more than has to, and nothing newer than what stays.  What was saved
\* under a higher limit is cut down by the next request that adds to its queue.
Retains(queue, kept) ==
    /\ \A r \in Refs : kept[r] \in {queue[r], None}
    /\ kept # queue => /\ limit > 0
                       /\ Cardinality(Held(kept)) = limit
    /\ limit > 0 => Cardinality(Held(kept)) <= limit
    /\ \A r \in Held(kept), s \in Held(queue) \ Held(kept) : queue[s].at <= queue[r].at

Put(p, name, status) ==
    LET record == [msg |-> call[p].arg.msg, status |-> status, at |-> call[p].arg.at]
    IN /\ Retains([now[name] EXCEPT ![call[p].ref] = record], now'[name])
       /\ now' = [now EXCEPT ![name] = now'[name]]
       /\ Apply(p)

Enqueue(p) == Is(p, "enqueue") /\ Put(p, "outbox", "queued")
Receive(p) == Is(p, "receive") /\ Put(p, "inbox", "received")

\* Only a queued envelope can be claimed, and it is queued no longer.
Claim(p) ==
    /\ Is(p, "claim")
    /\ now.outbox[call[p].ref] # None
    /\ now.outbox[call[p].ref].status = "queued"
    /\ now' = [now EXCEPT !.outbox[call[p].ref].status = "claimed"]
    /\ Apply(p)

Decrypt(p) ==
    /\ Is(p, "decrypt")
    /\ now.inbox[call[p].ref] # None
    /\ Return(p, "ok")
    /\ UNCHANGED <<durable, saved, now, limit>>

Commit(p) ==
    /\ call[p].pc = "applied"
    /\ saved' = now
    /\ Return(p, "ok")
    /\ UNCHANGED <<durable, now, limit>>

Fail(p) ==
    /\ Open(p)
    /\ Return(p, "err")
    /\ UNCHANGED <<durable, saved, now, limit>>

Next ==
    \/ Up \/ Down
    \/ \E p \in Procs :
          \/ Call(p) \/ Refuse(p) \/ Fail(p)
          \/ Enqueue(p) \/ Receive(p) \/ Claim(p) \/ Decrypt(p) \/ Commit(p)

Spec == Init /\ [][Next]_vars

=============================================================================
