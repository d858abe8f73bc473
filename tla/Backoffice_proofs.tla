-------------------------- MODULE Backoffice_proofs --------------------------
(***************************************************************************)
(* The back office: the notifications outbox, the two modules that are     *)
(* composed with the maker-checker service there (bulk campaigns and       *)
(* promotion campaigns), support tickets, and who may be on the road.      *)
(***************************************************************************)
EXTENDS Campaigns, Outreach, NotificationOutbox, SupportTickets, DriverPresence, Approvals_proofs

-----------------------------------------------------------------------------
(* The outbox.  A worker between its claim and the provider's answer owns   *)
(* one of the attempts counted in the row, and nobody else's: acceptances   *)
(* and owners together never exceed the attempts.  SendsAreBounded alone    *)
(* would let a worker that is about to send have its attempt given back.    *)

Owners(m) == {w \in Senders : sender[w].pc \in {"decide", "send"} /\ sender[w].m = m}

MessageType ==
  [st : Final \cup {"none", "queued", "sending"}, attempts : Nat,
   due : {"now", "later", "morning"}, id : BOOLEAN]

SenderType ==
  [pc : {"idle", "decide", "send", "accepted", "finish", "retry"}, m : Messages \cup {Idle.m}]

RowsTyped == msg \in [Messages -> MessageType] /\ accepted \in [Messages -> Nat] /\ broker \subseteq Messages

SendersTyped ==
  /\ sender \in [Senders -> SenderType]
  /\ \A w \in Senders : sender[w].pc # "idle" => sender[w].m \in Messages

\* A row that may be claimed again has an attempt left.
AttemptsLeft ==
  \A m \in Messages :
    /\ msg[m].attempts <= MaxAttempts
    /\ msg[m].st \in {"none", "queued"} => msg[m].attempts < MaxAttempts

AttemptsOwned == \A m \in Messages : accepted[m] + Cardinality(Owners(m)) <= msg[m].attempts

OutboxInv == RowsTyped /\ SendersTyped /\ AttemptsLeft /\ AttemptsOwned

\* The owners of a message are finitely many.
LEMMA OwnersFinite ==
  ASSUME NEW m
  PROVE  IsFiniteSet(Owners(m)) /\ Cardinality(Owners(m)) \in Nat
<1>1. Owners(m) \subseteq Senders
  BY DEF Owners
<1>2. IsFiniteSet(Owners(m))
  BY <1>1, OutboxConstants, FS_Subset
<1> QED BY <1>2, FS_CardinalityType

\* A worker that leaves the two states of an owner gives its message, and no other, back.
LEMMA OwnerLeaves ==
  ASSUME SendersTyped, NEW w \in Senders, sender'[w].pc \notin {"decide", "send"},
         \A u \in Senders \ {w} : sender'[u] = sender[u], NEW m \in Messages
  PROVE  /\ Cardinality(Owners(m)') \in Nat
         /\ Cardinality(Owners(m)') <= Cardinality(Owners(m))
         /\ sender[w].pc \in {"decide", "send"} /\ sender[w].m = m =>
              Cardinality(Owners(m)') = Cardinality(Owners(m)) - 1
<1>1. Owners(m)' = Owners(m) \ {w}
  BY DEF Owners
<1>2. IsFiniteSet(Owners(m)) /\ Cardinality(Owners(m)) \in Nat
  BY OwnersFinite
<1>3. CASE w \in Owners(m)
  <2>1. Cardinality(Owners(m) \ {w}) = Cardinality(Owners(m)) - 1
    BY <1>2, <1>3, FS_RemoveElement
  <2>2. IsFiniteSet(Owners(m) \ {w})
    BY <1>2, FS_Subset
  <2>3. Cardinality(Owners(m) \ {w}) \in Nat
    BY <2>2, FS_CardinalityType
  <2> QED BY <1>1, <1>2, <2>1, <2>3
<1>4. CASE w \notin Owners(m)
  <2>1. Owners(m)' = Owners(m)
    BY <1>1, <1>4
  <2>2. ~(sender[w].pc \in {"decide", "send"} /\ sender[w].m = m)
    BY <1>4 DEF Owners
  <2> QED BY <1>2, <2>1, <2>2
<1> QED BY <1>3, <1>4

\* How an idle worker looks, and what a worker's next step does to the others.
LEMMA SenderWrites ==
  ASSUME SendersTyped, NEW w \in Senders
  PROVE  /\ Leaves(w) => /\ SendersTyped' /\ sender'[w].pc = "idle"
                         /\ \A u \in Senders \ {w} : sender'[u] = sender[u]
         /\ \A pc \in {"send", "accepted", "finish", "retry"} :
              Moves(w, pc) /\ sender[w].pc # "idle" =>
                         /\ SendersTyped' /\ sender'[w].pc = pc /\ sender'[w].m = sender[w].m
                         /\ \A u \in Senders \ {w} : sender'[u] = sender[u]
<1>1. ASSUME Leaves(w)
      PROVE  /\ SendersTyped' /\ sender'[w].pc = "idle"
             /\ \A u \in Senders \ {w} : sender'[u] = sender[u]
  <2>1. Idle \in SenderType /\ Idle.pc = "idle"
    BY DEF Idle, SenderType
  <2>2. sender'[w] = Idle /\ \A u \in Senders \ {w} : sender'[u] = sender[u]
    BY <1>1 DEF Leaves, SendersTyped
  <2>3. sender' \in [Senders -> SenderType]
    BY <1>1, <2>1 DEF Leaves, SendersTyped
  <2> QED BY <2>1, <2>2, <2>3 DEF SendersTyped
<1>2. ASSUME NEW pc \in {"send", "accepted", "finish", "retry"}, Moves(w, pc), sender[w].pc # "idle"
      PROVE  /\ SendersTyped' /\ sender'[w].pc = pc /\ sender'[w].m = sender[w].m
             /\ \A u \in Senders \ {w} : sender'[u] = sender[u]
  <2>1. /\ sender'[w].pc = pc /\ sender'[w].m = sender[w].m
        /\ \A u \in Senders \ {w} : sender'[u] = sender[u]
    BY <1>2 DEF Moves, SendersTyped, SenderType
  <2>2. sender' \in [Senders -> SenderType]
    BY <1>2 DEF Moves, SendersTyped, SenderType
  <2> QED BY <1>2, <2>1, <2>2 DEF SendersTyped
<1> QED BY <1>1, <1>2

\* One row is written, and whatever is claimed, accepted and owned afterwards still adds up.
LEMMA RowWritten ==
  ASSUME OutboxInv, NEW m \in Messages, NEW row \in MessageType, msg' = [msg EXCEPT ![m] = row],
         accepted' \in [Messages -> Nat], broker' \subseteq Messages, SendersTyped',
         row.attempts <= MaxAttempts,
         row.st \in {"none", "queued"} => row.attempts < MaxAttempts,
         accepted'[m] + Cardinality(Owners(m)') <= row.attempts,
         \A n \in Messages \ {m} : accepted'[n] + Cardinality(Owners(n)') <= msg[n].attempts
  PROVE  OutboxInv'
<1>1. msg'[m] = row /\ \A n \in Messages \ {m} : msg'[n] = msg[n]
  BY DEF OutboxInv, RowsTyped
<1>2. RowsTyped'
  BY DEF OutboxInv, RowsTyped
<1>3. AttemptsLeft'
  BY <1>1 DEF OutboxInv, AttemptsLeft
<1>4. AttemptsOwned'
  BY <1>1 DEF AttemptsOwned
<1> QED BY <1>2, <1>3, <1>4 DEF OutboxInv

\* A row is written by somebody who owns nothing: the app, the beat task, a callback.
LEMMA RowWrittenByOthers ==
  ASSUME OutboxInv, NEW m \in Messages, NEW row \in MessageType, msg' = [msg EXCEPT ![m] = row],
         broker' \subseteq Messages, UNCHANGED <<accepted, sender>>,
         row.attempts = msg[m].attempts,
         row.st \in {"none", "queued"} => row.attempts < MaxAttempts
  PROVE  OutboxInv'
<1>1. \A n \in Messages : Owners(n)' = Owners(n)
  BY DEF Owners
<1>2. \A n \in Messages : accepted'[n] + Cardinality(Owners(n)') <= msg[n].attempts
  BY <1>1 DEF OutboxInv, AttemptsOwned
<1>3. SendersTyped' /\ accepted' \in [Messages -> Nat] /\ row.attempts <= MaxAttempts
  BY DEF OutboxInv, SendersTyped, RowsTyped, AttemptsLeft
<1> QED BY <1>2, <1>3, RowWritten

\* No message and no sender in the beginning.
LEMMA OutboxInitOK == OutboxInit => OutboxInv
<1> SUFFICES ASSUME OutboxInit PROVE OutboxInv
  OBVIOUS
<1> DEFINE row == [st |-> "none", attempts |-> 0, due |-> "now", id |-> FALSE]
<1>1. /\ msg = [m \in Messages |-> row] /\ accepted = [m \in Messages |-> 0] /\ broker = {}
      /\ sender = [w \in Senders |-> Idle]
  BY DEF OutboxInit
<1>2. row \in MessageType /\ row.st = "none" /\ row.attempts = 0
  BY DEF MessageType
<1> HIDE DEF row
<1>3. Idle \in SenderType /\ Idle.pc = "idle"
  BY DEF Idle, SenderType
<1>4. RowsTyped
  BY <1>1, <1>2 DEF RowsTyped
<1>5. SendersTyped
  BY <1>1, <1>3 DEF SendersTyped
<1>6. AttemptsLeft
  BY <1>1, <1>2, OutboxConstants DEF AttemptsLeft
<1>7. AttemptsOwned
  <2> SUFFICES ASSUME NEW m \in Messages PROVE accepted[m] + Cardinality(Owners(m)) <= msg[m].attempts
    BY DEF AttemptsOwned
  <2>1. Owners(m) = {}
    BY <1>1, <1>3 DEF Owners
  <2>2. Cardinality(Owners(m)) = 0
    BY <2>1, FS_EmptySet
  <2>3. accepted[m] = 0 /\ msg[m].attempts = 0
    BY <1>1, <1>2
  <2> QED BY <2>2, <2>3
<1> QED BY <1>4, <1>5, <1>6, <1>7 DEF OutboxInv


\* deliver's claim: the attempt it counts is the claiming worker's.
LEMMA ClaimsOK ==
  ASSUME OutboxInv, NEW w \in Senders, NEW m \in Messages, Claims(w, m)
  PROVE  OutboxInv'
<1>1. sender[w].pc = "idle" /\ broker' \subseteq Messages /\ UNCHANGED accepted
  BY DEF Claims, OutboxInv, RowsTyped
<1>2. CASE ~(msg[m].st = "queued" /\ msg[m].due = "now")
  <2>1. UNCHANGED <<msg, sender>>
    BY <1>2 DEF Claims
  <2>2. \A n \in Messages : Owners(n)' = Owners(n)
    BY <2>1 DEF Owners
  <2>3. AttemptsOwned'
    BY <1>1, <2>1, <2>2 DEF OutboxInv, AttemptsOwned
  <2>4. RowsTyped' /\ SendersTyped' /\ AttemptsLeft'
    BY <1>1, <2>1 DEF OutboxInv, RowsTyped, SendersTyped, AttemptsLeft
  <2> QED BY <2>3, <2>4 DEF OutboxInv
<1>3. CASE msg[m].st = "queued" /\ msg[m].due = "now"
  <2> DEFINE count == msg[m].attempts + 1
             row == [msg[m] EXCEPT !.st = "sending", !.attempts = count]
  <2>1. /\ msg' = [msg EXCEPT ![m] = row]
        /\ sender' = [sender EXCEPT ![w] = [pc |-> "decide", m |-> m]]
    BY <1>3 DEF Claims
  <2>2. msg[m] \in MessageType /\ msg[m].attempts \in Nat /\ msg[m].attempts < MaxAttempts
    BY <1>3 DEF OutboxInv, RowsTyped, MessageType, AttemptsLeft
  <2>3. count \in Nat /\ count <= MaxAttempts
    BY <2>2, OutboxConstants
  <2> HIDE DEF count
  <2>4. row \in MessageType /\ row.st = "sending" /\ row.attempts = count
    BY <2>2, <2>3 DEF MessageType
  <2> HIDE DEF row
  <2>5. /\ sender'[w] = [pc |-> "decide", m |-> m]
        /\ \A u \in Senders \ {w} : sender'[u] = sender[u]
    BY <2>1 DEF OutboxInv, SendersTyped
  <2>6. sender' \in [Senders -> SenderType]
    BY <2>1 DEF OutboxInv, SendersTyped, SenderType
  <2>7. SendersTyped'
    BY <2>5, <2>6 DEF OutboxInv, SendersTyped
  <2>8. w \notin Owners(m) /\ Owners(m)' = Owners(m) \cup {w}
    BY <1>1, <2>5 DEF Owners
  <2>9. Cardinality(Owners(m)') = Cardinality(Owners(m)) + 1
    BY <2>8, OwnersFinite, FS_AddElement
  <2>10. \A n \in Messages \ {m} : Owners(n)' = Owners(n)
    BY <1>1, <2>5 DEF Owners
  <2>11. accepted[m] + Cardinality(Owners(m)') <= row.attempts
    <3>1. accepted[m] + Cardinality(Owners(m)) <= msg[m].attempts /\ accepted[m] \in Nat
      BY DEF OutboxInv, AttemptsOwned, RowsTyped
    <3>2. Cardinality(Owners(m)) \in Nat
      BY OwnersFinite
    <3> QED BY <2>2, <2>4, <2>9, <3>1, <3>2 DEF count
  <2>12. \A n \in Messages \ {m} : accepted'[n] + Cardinality(Owners(n)') <= msg[n].attempts
    BY <1>1, <2>10 DEF OutboxInv, AttemptsOwned
  <2>13. accepted' \in [Messages -> Nat]
    BY <1>1 DEF OutboxInv, RowsTyped
  <2> QED BY <1>1, <2>1, <2>3, <2>4, <2>7, <2>11, <2>12, <2>13, RowWritten
<1> QED BY <1>2, <1>3

\* What a worker's own step leaves of its message's row: as many attempts as before, or one less
\* when an owner gives its attempt back unused.
LEMMA WorkerWrites ==
  ASSUME OutboxInv, NEW w \in Senders, sender[w].pc # "idle", NEW row \in MessageType,
         msg' = [msg EXCEPT ![sender[w].m] = row], broker' \subseteq Messages, UNCHANGED accepted,
         Leaves(w) \/ \E pc \in {"accepted", "finish", "retry"} : Moves(w, pc),
         \/ row.attempts = msg[sender[w].m].attempts
         \/ sender[w].pc = "decide" /\ row.attempts = msg[sender[w].m].attempts - 1,
         row.st \in {"none", "queued"} => row.attempts < MaxAttempts
  PROVE  OutboxInv'
<1>0. PICK m \in Messages : m = sender[w].m
  BY DEF OutboxInv, SendersTyped
<1>1. /\ SendersTyped /\ msg[m].attempts \in Nat
      /\ msg[m].attempts <= MaxAttempts /\ row.attempts \in Nat
      /\ accepted \in [Messages -> Nat]
      /\ \A n \in Messages : msg[n].attempts \in Nat
      /\ \A n \in Messages : accepted[n] + Cardinality(Owners(n)) <= msg[n].attempts
  BY <1>0 DEF OutboxInv, RowsTyped, MessageType, AttemptsLeft, AttemptsOwned
<1>2. /\ SendersTyped' /\ sender'[w].pc \notin {"decide", "send"}
      /\ \A u \in Senders \ {w} : sender'[u] = sender[u]
  BY <1>1, SenderWrites
<1>3. \A n \in Messages :
        /\ Cardinality(Owners(n)') \in Nat /\ Cardinality(Owners(n)) \in Nat
        /\ Cardinality(Owners(n)') <= Cardinality(Owners(n))
        /\ sender[w].pc \in {"decide", "send"} /\ sender[w].m = n =>
             Cardinality(Owners(n)') = Cardinality(Owners(n)) - 1
  BY <1>1, <1>2, OwnerLeaves, OwnersFinite
<1>4. accepted'[m] + Cardinality(Owners(m)') <= row.attempts
  <2>1. CASE row.attempts = msg[m].attempts
    <3>1. /\ Cardinality(Owners(m)') \in Nat /\ Cardinality(Owners(m)) \in Nat
          /\ Cardinality(Owners(m)') <= Cardinality(Owners(m))
          /\ accepted[m] + Cardinality(Owners(m)) <= msg[m].attempts
          /\ accepted[m] \in Nat /\ accepted' = accepted
      BY <1>1, <1>3
    <3> QED BY <1>1, <2>1, <3>1
  <2>2. CASE sender[w].pc = "decide" /\ row.attempts = msg[m].attempts - 1
    <3>1. /\ Cardinality(Owners(m)') = Cardinality(Owners(m)) - 1 /\ Cardinality(Owners(m)) \in Nat
          /\ accepted[m] + Cardinality(Owners(m)) <= msg[m].attempts
          /\ accepted[m] \in Nat /\ accepted' = accepted
      BY <1>0, <1>1, <1>3, <2>2
    <3> QED BY <1>1, <2>2, <3>1
  <2> QED BY <1>0, <2>1, <2>2
<1>5. \A n \in Messages \ {m} : accepted'[n] + Cardinality(Owners(n)') <= msg[n].attempts
  BY <1>1, <1>3
<1>6. row.attempts <= MaxAttempts
  BY <1>0, <1>1, OutboxConstants
<1> QED BY <1>0, <1>1, <1>2, <1>4, <1>5, <1>6, RowWritten

\* The decision before sending, the provider's answer, and what is recorded of it.
LEMMA WorkerSteps ==
  ASSUME OutboxInv, NEW w \in Senders,
         decide_again(w) \/ adapter_send(w) \/ SavesId(w) \/ _finish_message(w) \/ _retry_or_fail(w)
  PROVE  OutboxInv'
<1>0. PICK m : m = sender[w].m
  OBVIOUS
<1>1. sender[w].pc # "idle"
  BY DEF decide_again, adapter_send, SavesId, _finish_message, _retry_or_fail
<1>2. /\ SendersTyped /\ m \in Messages /\ msg[m] \in MessageType /\ msg[m].attempts \in Nat
      /\ msg[m].attempts <= MaxAttempts
      /\ msg \in [Messages -> MessageType] /\ accepted \in [Messages -> Nat] /\ broker \subseteq Messages
  BY <1>0, <1>1 DEF OutboxInv, SendersTyped, RowsTyped, MessageType, AttemptsLeft
<1>3. ASSUME NEW st \in Final, msg' = [msg EXCEPT ![m].st = st], Leaves(w),
             UNCHANGED <<accepted, broker>>
      PROVE  OutboxInv'
  <2> DEFINE row == [msg[m] EXCEPT !.st = st]
  <2>1. row \in MessageType /\ row.attempts = msg[m].attempts /\ row.st = st
    BY <1>2 DEF MessageType
  <2>2. msg' = [msg EXCEPT ![m] = row]
    BY <1>3
  <2>3. st \notin {"none", "queued"}
    BY DEF Final
  <2> HIDE DEF row
  <2> QED BY <1>0, <1>1, <1>2, <1>3, <2>1, <2>2, <2>3, WorkerWrites
<1>4. ASSUME NEW due \in {"later", "morning"}, NEW count \in Nat, count < MaxAttempts,
             msg' = [msg EXCEPT ![m] = [msg[m] EXCEPT !.st = "queued", !.attempts = count, !.due = due]],
             count = msg[m].attempts \/ (sender[w].pc = "decide" /\ count = msg[m].attempts - 1),
             Leaves(w), _schedule(m), UNCHANGED accepted
      PROVE  OutboxInv'
  <2> DEFINE row == [msg[m] EXCEPT !.st = "queued", !.attempts = count, !.due = due]
  <2>1. row \in MessageType /\ row.attempts = count
    BY <1>2 DEF MessageType
  <2>2. msg' = [msg EXCEPT ![m] = row]
    BY <1>4
  <2>3. broker' \subseteq Messages
    BY <1>2, <1>4 DEF _schedule
  <2> HIDE DEF row
  <2>4. /\ \/ row.attempts = msg[sender[w].m].attempts
           \/ sender[w].pc = "decide" /\ row.attempts = msg[sender[w].m].attempts - 1
        /\ row.attempts < MaxAttempts
        /\ msg' = [msg EXCEPT ![sender[w].m] = row]
    BY <1>0, <1>4, <2>1, <2>2
  <2> QED BY <1>1, <1>4, <2>1, <2>3, <2>4, WorkerWrites
<1>5. CASE decide_again(w)
  <2>1. sender[w].pc = "decide" /\ UNCHANGED accepted
    BY <1>5 DEF decide_again
  <2>2. CASE msg' = [msg EXCEPT ![m].st = "suppressed"] /\ Leaves(w) /\ UNCHANGED broker
    BY <1>3, <2>1, <2>2 DEF Final
  <2>3. ASSUME NEW due \in {"later", "morning"}, Leaves(w), _schedule(m),
               msg' = [msg EXCEPT ![m].st = "queued", ![m].attempts = @ - 1, ![m].due = due]
        PROVE  OutboxInv'
    <3> DEFINE count == msg[m].attempts - 1
    <3>1. w \in Owners(m)
      BY <1>0, <2>1 DEF Owners
    <3>2. Cardinality(Owners(m)) # 0
      BY <3>1, OwnersFinite, FS_EmptySet
    <3>3. /\ Cardinality(Owners(m)) \in Nat /\ accepted[m] \in Nat
          /\ accepted[m] + Cardinality(Owners(m)) <= msg[m].attempts
      BY <1>2, OwnersFinite DEF OutboxInv, AttemptsOwned
    <3>4. count \in Nat /\ count < MaxAttempts
      BY <1>2, <3>2, <3>3, OutboxConstants
    <3>5. msg' = [msg EXCEPT ![m] = [msg[m] EXCEPT !.st = "queued", !.attempts = count, !.due = due]]
      BY <2>3
    <3> HIDE DEF count
    <3>6. count = msg[m].attempts - 1
      BY DEF count
    <3> QED BY <1>4, <2>1, <2>3, <3>4, <3>5, <3>6
  <2>4. CASE Moves(w, "send") /\ UNCHANGED <<msg, broker>>
    <3>1. /\ SendersTyped' /\ sender'[w].pc = "send" /\ sender'[w].m = sender[w].m
          /\ \A u \in Senders \ {w} : sender'[u] = sender[u]
      BY <1>2, <2>1, <2>4, SenderWrites
    <3>2. \A n \in Messages : Owners(n)' = Owners(n)
      BY <2>1, <3>1 DEF Owners
    <3>3. AttemptsOwned'
      BY <2>1, <2>4, <3>2 DEF OutboxInv, AttemptsOwned
    <3>4. RowsTyped' /\ AttemptsLeft'
      BY <2>1, <2>4 DEF OutboxInv, RowsTyped, AttemptsLeft
    <3> QED BY <3>1, <3>3, <3>4 DEF OutboxInv
  <2> QED BY <1>0, <1>5, <2>2, <2>3, <2>4 DEF decide_again
<1>6. ASSUME NEW pc \in {"accepted", "retry"}, sender[w].pc = "send", Moves(w, pc),
             accepted' = [accepted EXCEPT ![m] = @ + 1] \/ UNCHANGED accepted,
             UNCHANGED <<msg, broker>>
      PROVE  OutboxInv'
  <2>1. /\ SendersTyped' /\ sender'[w].pc = pc
        /\ \A u \in Senders \ {w} : sender'[u] = sender[u]
    BY <1>2, <1>6, SenderWrites
  <2>2. \A n \in Messages :
          /\ Cardinality(Owners(n)') \in Nat /\ Cardinality(Owners(n)) \in Nat
          /\ Cardinality(Owners(n)') <= Cardinality(Owners(n))
          /\ n = m => Cardinality(Owners(n)') = Cardinality(Owners(n)) - 1
    BY <1>0, <1>2, <1>6, <2>1, OwnerLeaves, OwnersFinite
  <2>3. /\ accepted' \in [Messages -> Nat]
        /\ \A n \in Messages \ {m} : accepted'[n] = accepted[n]
        /\ accepted'[m] <= accepted[m] + 1 /\ accepted'[m] \in Nat
    BY <1>2, <1>6
  <2>4. \A n \in Messages : /\ accepted[n] + Cardinality(Owners(n)) <= msg[n].attempts
                            /\ accepted[n] \in Nat /\ msg[n].attempts \in Nat
    BY <1>2 DEF OutboxInv, AttemptsOwned, MessageType
  <2>5. AttemptsOwned'
    <3> SUFFICES ASSUME NEW n \in Messages
                 PROVE  accepted'[n] + Cardinality(Owners(n)') <= msg[n].attempts
      BY <1>6 DEF AttemptsOwned
    <3>1. CASE n = m
      BY <2>2, <2>3, <2>4, <3>1
    <3>2. CASE n # m
      BY <2>2, <2>3, <2>4, <3>2
    <3> QED BY <3>1, <3>2
  <2>6. RowsTyped' /\ AttemptsLeft'
    BY <1>6, <2>3 DEF OutboxInv, RowsTyped, AttemptsLeft
  <2> QED BY <2>1, <2>5, <2>6 DEF OutboxInv
<1>7. CASE adapter_send(w)
  BY <1>0, <1>3, <1>6, <1>7 DEF adapter_send, Final
<1>8. CASE SavesId(w)
  <2> DEFINE row == [msg[m] EXCEPT !.id = TRUE]
  <2>1. row \in MessageType
    BY <1>2, Zenon DEF MessageType
  <2>2. row.attempts = msg[m].attempts /\ row.st = msg[m].st
    BY <1>2 DEF MessageType
  <2>3. msg' = [msg EXCEPT ![m] = row] /\ UNCHANGED <<accepted, broker>> /\ Moves(w, "finish")
    BY <1>0, <1>8 DEF SavesId
  <2>4. row.st \in {"none", "queued"} => row.attempts < MaxAttempts
    BY <1>2, <2>2 DEF OutboxInv, AttemptsLeft
  <2> HIDE DEF row
  <2> QED BY <1>0, <1>1, <1>2, <2>1, <2>2, <2>3, <2>4, WorkerWrites
<1>9. CASE _finish_message(w)
  BY <1>0, <1>3, <1>9 DEF _finish_message, Final
<1>10. CASE _retry_or_fail(w)
  <2>1. Leaves(w) /\ UNCHANGED accepted
    BY <1>10 DEF _retry_or_fail
  <2>2. CASE msg[m].attempts >= MaxAttempts
    BY <1>0, <1>3, <1>10, <2>1, <2>2 DEF _retry_or_fail, Final
  <2>3. CASE ~(msg[m].attempts >= MaxAttempts)
    <3>1. msg[m].attempts < MaxAttempts
      BY <1>2, <2>3, OutboxConstants
    <3>2. msg' = [msg EXCEPT ![m].st = "queued", ![m].due = "later"] /\ _schedule(m)
      BY <1>0, <1>10, <2>3 DEF _retry_or_fail
    <3> DEFINE row == [msg[m] EXCEPT !.st = "queued", !.due = "later"]
    <3>3. row \in MessageType /\ row.attempts = msg[m].attempts
      BY <1>2 DEF MessageType
    <3>4. msg' = [msg EXCEPT ![m] = row] /\ broker' \subseteq Messages
      BY <1>2, <3>2 DEF _schedule
    <3> HIDE DEF row
    <3> QED BY <1>0, <1>1, <1>2, <2>1, <3>1, <3>3, <3>4, WorkerWrites
  <2> QED BY <2>2, <2>3
<1> QED BY <1>5, <1>7, <1>8, <1>9, <1>10

\* A killed worker's attempt stays counted.
LEMMA WorkerDiesOK ==
  ASSUME OutboxInv, NEW w \in Senders, WorkerDies(w)
  PROVE  OutboxInv'
<1>1. /\ sender[w].pc # "idle" /\ Leaves(w) /\ broker' = broker \cup {sender[w].m}
      /\ UNCHANGED <<msg, accepted>>
  BY DEF WorkerDies
<1>2. /\ SendersTyped' /\ sender'[w].pc = "idle"
      /\ \A u \in Senders \ {w} : sender'[u] = sender[u]
  BY <1>1, SenderWrites DEF OutboxInv
<1>3. \A n \in Messages :
        /\ Cardinality(Owners(n)') \in Nat /\ Cardinality(Owners(n)) \in Nat
        /\ Cardinality(Owners(n)') <= Cardinality(Owners(n))
  BY <1>2, OwnerLeaves, OwnersFinite DEF OutboxInv
<1>4. \A n \in Messages : /\ accepted[n] + Cardinality(Owners(n)) <= msg[n].attempts
                          /\ accepted[n] \in Nat /\ msg[n].attempts \in Nat
  BY DEF OutboxInv, AttemptsOwned, RowsTyped, MessageType
<1>5. AttemptsOwned'
  <2> SUFFICES ASSUME NEW n \in Messages PROVE accepted[n] + Cardinality(Owners(n)') <= msg[n].attempts
    BY <1>1 DEF AttemptsOwned
  <2> QED BY <1>3, <1>4
<1>6. RowsTyped' /\ AttemptsLeft'
  BY <1>1 DEF OutboxInv, SendersTyped, RowsTyped, AttemptsLeft
<1> QED BY <1>2, <1>5, <1>6 DEF OutboxInv

\* The app, the beat task, time and the provider's callbacks.
LEMMA MessageSteps ==
  ASSUME OutboxInv, NEW m \in Messages,
         \/ enqueue(m) \/ dispatch_queued(m) \/ requeue_stuck(m) \/ FallsDue(m)
         \/ \E st \in DOMAIN _ADVANCE : apply_status(m, st)
  PROVE  OutboxInv'
<1>0. /\ msg \in [Messages -> MessageType] /\ msg[m] \in MessageType /\ msg[m].attempts \in Nat
      /\ msg[m].st \in {"none", "queued"} => msg[m].attempts < MaxAttempts
      /\ broker \subseteq Messages
  BY DEF OutboxInv, RowsTyped, MessageType, AttemptsLeft
<1>1. ASSUME NEW st \in Final \cup {"none", "queued"}, NEW due \in {"now", "later", "morning"},
             msg' = [msg EXCEPT ![m] = [msg[m] EXCEPT !.st = st, !.due = due]],
             broker' \subseteq Messages, UNCHANGED <<accepted, sender>>,
             st = "queued" => msg[m].attempts < MaxAttempts, st # "none"
      PROVE  OutboxInv'
  <2> DEFINE row == [msg[m] EXCEPT !.st = st, !.due = due]
  <2>1. row \in MessageType /\ row.attempts = msg[m].attempts /\ row.st = st
    BY <1>0 DEF MessageType
  <2>2. msg' = [msg EXCEPT ![m] = row]
    BY <1>1
  <2> HIDE DEF row
  <2> QED BY <1>1, <2>1, <2>2, RowWrittenByOthers
<1>2. CASE enqueue(m)
  <2>1. msg[m].st = "none" /\ UNCHANGED <<accepted, sender>> /\ broker' \subseteq Messages
    BY <1>0, <1>2 DEF enqueue, _schedule
  <2>2. msg[m].due \in {"now", "later", "morning"}
    BY <1>0 DEF MessageType
  <2>3. ASSUME NEW due \in {"now", "later", "morning"},
               msg' = [msg EXCEPT ![m].st = "queued", ![m].due = due]
        PROVE  OutboxInv'
    <3>1. msg' = [msg EXCEPT ![m] = [msg[m] EXCEPT !.st = "queued", !.due = due]]
      BY <2>3
    <3> QED BY <1>0, <1>1, <2>1, <3>1
  <2>4. ASSUME NEW st \in {"suppressed", "failed"}, msg' = [msg EXCEPT ![m].st = st]
        PROVE  OutboxInv'
    <3> DEFINE row == [msg[m] EXCEPT !.st = st]
    <3>1. row \in MessageType /\ row.attempts = msg[m].attempts /\ row.st = st
      BY <1>0 DEF MessageType, Final
    <3>2. msg' = [msg EXCEPT ![m] = row]
      BY <2>4
    <3> HIDE DEF row
    <3> QED BY <2>1, <3>1, <3>2, RowWrittenByOthers
  <2>5. CASE msg' = [msg EXCEPT ![m].st = "queued", ![m].due = IF night THEN "morning" ELSE "now"]
    BY <2>3, <2>5
  <2> QED BY <1>2, <2>4, <2>5 DEF enqueue
<1>3. CASE dispatch_queued(m)
  <2>1. UNCHANGED <<msg, accepted, sender>> /\ broker' \subseteq Messages
    BY <1>0, <1>3 DEF dispatch_queued
  <2>2. \A n \in Messages : Owners(n)' = Owners(n)
    BY <2>1 DEF Owners
  <2>3. AttemptsOwned'
    BY <2>1, <2>2 DEF OutboxInv, AttemptsOwned
  <2>4. RowsTyped' /\ SendersTyped' /\ AttemptsLeft'
    BY <2>1 DEF OutboxInv, RowsTyped, SendersTyped, AttemptsLeft
  <2> QED BY <2>3, <2>4 DEF OutboxInv
<1>4. CASE requeue_stuck(m)
  <2>1. msg' = [msg EXCEPT ![m] = Requeued(m)] /\ UNCHANGED <<accepted, broker, sender>>
    BY <1>4 DEF requeue_stuck
  <2>2. /\ Requeued(m) \in MessageType /\ Requeued(m).attempts = msg[m].attempts
        /\ Requeued(m).st \in {"none", "queued"} => Requeued(m).attempts < MaxAttempts
    <3>1. CASE msg[m].attempts >= MaxAttempts
      BY <1>0, <3>1 DEF Requeued, MessageType, Final
    <3>2. CASE ~(msg[m].attempts >= MaxAttempts)
      <4>1. msg[m].attempts < MaxAttempts
        BY <1>0, <3>2, OutboxConstants
      <4> QED BY <1>0, <3>2, <4>1 DEF Requeued, MessageType
    <3> QED BY <3>1, <3>2
  <2> QED BY <1>0, <2>1, <2>2, RowWrittenByOthers
<1>5. CASE FallsDue(m)
  <2> DEFINE row == [msg[m] EXCEPT !.due = "now"]
  <2>1. row \in MessageType /\ row.attempts = msg[m].attempts /\ row.st = msg[m].st
    BY <1>0 DEF MessageType
  <2>2. msg' = [msg EXCEPT ![m] = row] /\ UNCHANGED <<accepted, broker, sender>>
    BY <1>5 DEF FallsDue
  <2> HIDE DEF row
  <2> QED BY <1>0, <2>1, <2>2, RowWrittenByOthers
<1>6. ASSUME NEW st \in DOMAIN _ADVANCE, apply_status(m, st)
      PROVE  OutboxInv'
  <2> DEFINE new == IF msg[m].st \in _ADVANCE[st] THEN st ELSE msg[m].st
             row == [msg[m] EXCEPT !.st = new]
  <2>1. st \in {"delivered", "failed", "sent"}
    BY DEF _ADVANCE
  <2>2. new = msg[m].st \/ new \in {"delivered", "failed", "sent"}
    BY <2>1
  <2>3. msg' = [msg EXCEPT ![m] = row] /\ UNCHANGED <<accepted, broker, sender>>
    BY <1>6 DEF apply_status
  <2> HIDE DEF new
  <2>4. row \in MessageType /\ row.attempts = msg[m].attempts /\ row.st = new
    BY <1>0, <2>2 DEF MessageType, Final
  <2> HIDE DEF row
  <2>5. row.st \in {"none", "queued"} => row.attempts < MaxAttempts
    BY <1>0, <2>2, <2>4
  <2> QED BY <1>0, <2>3, <2>4, <2>5, RowWrittenByOthers
<1> QED BY <1>2, <1>3, <1>4, <1>5, <1>6

\* Every step of the outbox preserves its invariant.
LEMMA OutboxStep == OutboxInv /\ [OutboxNext]_outboxVars => OutboxInv'
<1> SUFFICES ASSUME OutboxInv, [OutboxNext]_outboxVars PROVE OutboxInv'
  OBVIOUS
<1>1. ASSUME NEW w \in Senders, SenderStep(w) \/ WorkerDies(w) PROVE OutboxInv'
  BY <1>1, WorkerSteps, ClaimsOK, WorkerDiesOK DEF SenderStep
<1>2. ASSUME NEW m \in Messages,
             \/ enqueue(m) \/ dispatch_queued(m) \/ requeue_stuck(m) \/ FallsDue(m)
             \/ \E st \in DOMAIN _ADVANCE : apply_status(m, st)
      PROVE  OutboxInv'
  BY <1>2, MessageSteps
<1>3. CASE set_preference \/ in_quiet_hours \/ UNCHANGED outboxVars
  <2>1. UNCHANGED <<msg, accepted, broker, sender>>
    BY <1>3 DEF set_preference, in_quiet_hours, outboxVars
  <2>2. \A n \in Messages : Owners(n)' = Owners(n)
    BY <2>1 DEF Owners
  <2>3. AttemptsOwned'
    BY <2>1, <2>2 DEF OutboxInv, AttemptsOwned
  <2>4. RowsTyped' /\ SendersTyped' /\ AttemptsLeft'
    BY <2>1 DEF OutboxInv, RowsTyped, SendersTyped, AttemptsLeft
  <2> QED BY <2>3, <2>4 DEF OutboxInv
<1> QED BY <1>1, <1>2, <1>3 DEF OutboxNext

\* A message is given to the provider at most NOTIFY_MAX_ATTEMPTS times, whatever workers are
\* killed, stall and come back (deliver, requeue_stuck, _retry_or_fail).
THEOREM OutboxBounded == OutboxSpec => []SendsAreBounded
<1>1. OutboxInv => SendsAreBounded
  <2> SUFFICES ASSUME OutboxInv, NEW m \in Messages
               PROVE  accepted[m] <= msg[m].attempts /\ msg[m].attempts <= MaxAttempts
    BY DEF SendsAreBounded
  <2>1. /\ accepted[m] \in Nat /\ msg[m].attempts \in Nat /\ msg[m].attempts <= MaxAttempts
        /\ accepted[m] + Cardinality(Owners(m)) <= msg[m].attempts
    BY DEF OutboxInv, RowsTyped, MessageType, AttemptsLeft, AttemptsOwned
  <2>2. Cardinality(Owners(m)) \in Nat
    BY OwnersFinite
  <2> QED BY <2>1, <2>2
<1> QED BY <1>1, OutboxInitOK, OutboxStep, PTL DEF OutboxSpec

-----------------------------------------------------------------------------
(* Bulk campaigns.  A request that still holds its key was raised for the   *)
(* draft as it is now: drafts change only while no such request exists.     *)

OutreachKeys ==
  ({"activate"} \X Versions \X Nat) \cup ({"archive"} \X Versions) \cup ({"send"} \X Versions \X Nat)

InForce(v) == tmpl[v].st \in {"active", "archived"}

OutreachTyped ==
  /\ tmpl \in [Versions -> [st : {"draft", "pending", "active", "archived"}, copy : Nat]]
  /\ bulk \in [st : {"draft", "pending", "scheduled", "sending", "sent", "cancelled"},
               edit : Nat, v : Versions, at : BOOLEAN]
  /\ DOMAIN outbox = Audience
  /\ expander \in [Expanders -> [on : BOOLEAN, left : SUBSET Audience]]

RequestsCurrent ==
  \A r \in Requests : Holds(r) =>
    LET kind == req[r].key[1]
        v == req[r].key[2] IN
      /\ kind = "activate" => tmpl[v].st # "draft" /\ req[r].key = <<"activate", v, tmpl[v].copy>>
      /\ kind = "archive" => InForce(v)
      /\ kind = "send" => bulk.st # "draft" /\ req[r].key = SendKey

VersionsApproved ==
  \A v \in Versions : InForce(v) => v = First \/ TookEffect(<<"activate", v, tmpl[v].copy>>)

BulkApproved ==
  /\ InForce(bulk.v)
  /\ bulk.st \in {"scheduled", "sending", "sent"} => TookEffect(SendKey)
  /\ \A x \in Expanders : expander[x].on => bulk.st \in {"sending", "sent"}

OutreachInv ==
  /\ ServiceInv(OutreachKeys) /\ OutreachTyped
  /\ RequestsCurrent /\ VersionsApproved /\ BulkApproved /\ SentAsApproved

\* A key's first part says what it is for, and its second which version.
LEMMA OutreachKeyParts ==
  ASSUME NEW key \in OutreachKeys
  PROVE  /\ key[1] \in {"activate", "archive", "send"} /\ key[2] \in Versions
         /\ key[1] = "activate" => key = <<"activate", key[2], key[3]>>
BY DEF OutreachKeys

\* The campaign is a draft and nothing is requested in the beginning.
LEMMA OutreachInitOK == ApprovalInit /\ OutreachInit => OutreachInv
<1> SUFFICES ASSUME ApprovalInit, OutreachInit PROVE OutreachInv
  OBVIOUS
<1>1. ServiceInv(OutreachKeys)
  BY ServiceInit
<1>2. \A r \in Requests : ~Holds(r)
  BY DEF ApprovalInit, Blank, Holds, KEY_HELD_STATUSES
<1>3. /\ tmpl = [v \in Versions |-> [st |-> IF v = First THEN "active" ELSE "draft", copy |-> 0]]
      /\ bulk = [st |-> "draft", edit |-> 0, v |-> First, at |-> FALSE]
      /\ outbox = [u \in Audience |-> <<>>]
      /\ expander = [x \in Expanders |-> [on |-> FALSE, left |-> {}]]
  BY DEF OutreachInit
<1>4. OutreachTyped
  BY <1>3, OutreachConstants DEF OutreachTyped
<1>5. RequestsCurrent
  BY <1>2 DEF RequestsCurrent
<1>6. VersionsApproved
  BY <1>3 DEF VersionsApproved, InForce
<1>7. BulkApproved
  <2>1. InForce(bulk.v) /\ bulk.st = "draft"
    BY <1>3, OutreachConstants DEF InForce
  <2>2. \A x \in Expanders : ~expander[x].on
    BY <1>3, Zenon
  <2> QED BY <2>1, <2>2 DEF BulkApproved
<1>8. SentAsApproved
  BY <1>3 DEF SentAsApproved
<1> QED BY <1>1, <1>4, <1>5, <1>6, <1>7, <1>8 DEF OutreachInv

\* Steps of the service that a raising module only watches.
LEMMA EffectsCarryOver ==
  ASSUME OutreachInv, ServiceStep(OutreachKeys) \/ UNCHANGED approvalVars
  PROVE  /\ ServiceInv(OutreachKeys)'
         /\ UNCHANGED tmpl => VersionsApproved'
         /\ UNCHANGED outbox => SentAsApproved'
         /\ \A key : TookEffect(key) => TookEffect(key)'
<1>1. ServiceInv(OutreachKeys)'
  BY ServiceKept DEF OutreachInv
<1>2. \A key : TookEffect(key) => TookEffect(key)'
  BY TookEffectLasts DEF OutreachInv
<1>3. ASSUME UNCHANGED tmpl PROVE VersionsApproved'
  <2> SUFFICES ASSUME NEW v \in Versions, InForce(v)', v # First
               PROVE  TookEffect(<<"activate", v, tmpl[v].copy>>)'
    BY <1>3 DEF VersionsApproved
  <2>1. TookEffect(<<"activate", v, tmpl[v].copy>>)
    BY <1>3 DEF OutreachInv, VersionsApproved, InForce
  <2> QED BY <1>2, <1>3, <2>1 DEF TookEffect
<1>4. ASSUME UNCHANGED outbox PROVE SentAsApproved'
  <2> SUFFICES ASSUME NEW u \in Audience, outbox[u] # <<>>
               PROVE  LET v == outbox[u][1] IN
                        /\ TookEffect(<<"send", v, outbox[u][3]>>)'
                        /\ v = First \/ TookEffect(<<"activate", v, outbox[u][2]>>)'
    BY <1>4 DEF SentAsApproved, TookEffect
  <2>1. LET v == outbox[u][1] IN
          /\ TookEffect(<<"send", v, outbox[u][3]>>)
          /\ v = First \/ TookEffect(<<"activate", v, outbox[u][2]>>)
    BY DEF OutreachInv, SentAsApproved, TookEffect
  <2> QED BY <1>2, <1>4, <2>1 DEF TookEffect
<1> QED BY <1>1, <1>2, <1>3, <1>4

\* Steps on a draft template, and the proposals to activate and to archive.
LEMMA TemplateSteps ==
  ASSUME OutreachInv, NEW v \in Versions,
         update_template_draft(v) \/ \E o \in Makers : propose_activation(v, o) \/ propose_archive(v, o)
  PROVE  OutreachInv'
<1> USE DEF OutreachInv
<1>0. tmpl \in [Versions -> [st : {"draft", "pending", "active", "archived"}, copy : Nat]]
  BY DEF OutreachTyped
<1>1. CASE update_template_draft(v)
  <2>1. /\ tmpl[v].st = "draft" /\ tmpl' = [tmpl EXCEPT ![v].copy = @ + 1]
        /\ UNCHANGED <<approvalVars, bulk, outbox, expander, lostRuns>>
    BY <1>1 DEF update_template_draft
  <2>2. /\ tmpl'[v].st = "draft" /\ \A w \in Versions \ {v} : tmpl'[w] = tmpl[w]
        /\ tmpl' \in [Versions -> [st : {"draft", "pending", "active", "archived"}, copy : Nat]]
    BY <1>0, <2>1
  <2>3. \A w \in Versions : InForce(w)' <=> InForce(w)
    BY <2>1, <2>2 DEF InForce
  <2>4. ServiceInv(OutreachKeys)' /\ SentAsApproved' /\ UNCHANGED <<req, ran>>
    BY <2>1, EffectsCarryOver DEF approvalVars
  <2>5. OutreachTyped'
    BY <2>1, <2>2 DEF OutreachTyped
  <2>6. RequestsCurrent'
    <3> SUFFICES ASSUME NEW r \in Requests, Holds(r), NEW k, k = req[r].key
                 PROVE  /\ k[1] = "activate" => /\ tmpl'[k[2]].st # "draft"
                                                /\ k = <<"activate", k[2], tmpl'[k[2]].copy>>
                        /\ k[1] = "archive" => InForce(k[2])'
                        /\ k[1] = "send" => bulk.st # "draft" /\ k = SendKey
      BY <2>1, <2>4 DEF RequestsCurrent, Holds, SendKey
    <3>1. k[2] \in Versions
      BY OutreachKeyParts DEF ServiceInv, KeysRaised, Holds, KEY_HELD_STATUSES
    <3>2. /\ k[1] = "activate" => tmpl[k[2]].st # "draft" /\ k = <<"activate", k[2], tmpl[k[2]].copy>>
          /\ k[1] = "archive" => InForce(k[2])
          /\ k[1] = "send" => bulk.st # "draft" /\ k = SendKey
      BY DEF RequestsCurrent
    <3>3. k[1] = "activate" => k[2] # v
      BY <2>1, <3>2
    <3> QED BY <2>2, <2>3, <3>1, <3>2, <3>3
  <2>7. VersionsApproved'
    BY <2>2, <2>3, <2>4 DEF VersionsApproved, TookEffect, InForce
  <2>8. BulkApproved'
    BY <2>1, <2>3, <2>4 DEF BulkApproved, TookEffect, SendKey, OutreachTyped
  <2> QED BY <2>4, <2>5, <2>6, <2>7, <2>8
<1>2. ASSUME NEW o \in Makers, NEW key \in OutreachKeys, NEW r \in Requests,
             require_approval_or_execute(o, key, TRUE, r),
             NEW st \in {"pending", "active"}, tmpl' = [tmpl EXCEPT ![v].st = st],
             UNCHANGED <<bulk, outbox, expander, lostRuns>>,
             \/ tmpl[v].st = "draft" /\ st = "pending" /\ key = <<"activate", v, tmpl[v].copy>>
             \/ tmpl[v].st = "active" /\ st = "active" /\ key = <<"archive", v>>
      PROVE  OutreachInv'
  <2>1. Raises(OutreachKeys)
    BY <1>2, ApprovalConstants DEF Raises
  <2>2. /\ ServiceInv(OutreachKeys)' /\ SentAsApproved'
        /\ \A k : TookEffect(k) => TookEffect(k)'
    BY <1>2, <2>1, EffectsCarryOver DEF ServiceStep
  <2>3. /\ tmpl'[v].st = st /\ tmpl'[v].copy = tmpl[v].copy
        /\ \A w \in Versions \ {v} : tmpl'[w] = tmpl[w]
        /\ tmpl' \in [Versions -> [st : {"draft", "pending", "active", "archived"}, copy : Nat]]
    BY <1>0, <1>2
  <2>4. \A w \in Versions : (InForce(w)' <=> InForce(w)) /\ tmpl'[w].copy = tmpl[w].copy
                            /\ (tmpl[w].st # "draft" => tmpl'[w].st # "draft")
    BY <1>2, <2>3 DEF InForce
  <2>5. \A s \in Requests : Holds(s)' => \/ Holds(s) /\ req'[s].key = req[s].key
                                         \/ s = r /\ req'[s].key = key
    BY <1>2, RaiserHolds
  <2>6. OutreachTyped'
    BY <1>2, <2>3 DEF OutreachTyped
  <2>7. RequestsCurrent'
    <3> SUFFICES ASSUME NEW s \in Requests, Holds(s)', NEW k, k = req'[s].key
                 PROVE  /\ k[1] = "activate" => /\ tmpl'[k[2]].st # "draft"
                                                /\ k = <<"activate", k[2], tmpl'[k[2]].copy>>
                        /\ k[1] = "archive" => InForce(k[2])'
                        /\ k[1] = "send" => bulk.st # "draft" /\ k = SendKey
      BY <1>2 DEF RequestsCurrent, SendKey
    <3>1. CASE Holds(s) /\ req'[s].key = req[s].key
      <4>1. k[2] \in Versions
        BY <3>1, OutreachKeyParts DEF ServiceInv, KeysRaised, Holds, KEY_HELD_STATUSES
      <4> QED BY <2>4, <3>1, <4>1 DEF RequestsCurrent
    <3>2. CASE k = key
      BY <1>2, <2>3, <3>2 DEF InForce
    <3> QED BY <2>5, <3>1, <3>2
  <2>8. VersionsApproved'
    <3> SUFFICES ASSUME NEW w \in Versions, InForce(w), w # First
                 PROVE  TookEffect(<<"activate", w, tmpl[w].copy>>)'
      BY <2>4 DEF VersionsApproved
    <3>1. PICK k : k = <<"activate", w, tmpl[w].copy>>
      OBVIOUS
    <3>2. TookEffect(k)'
      BY <2>2, <3>1 DEF VersionsApproved
    <3> QED BY <2>4, <3>1, <3>2 DEF TookEffect
  <2>9. BulkApproved'
    <3>1. PICK k : k = SendKey
      OBVIOUS
    <3>2. TookEffect(k) => TookEffect(k)'
      BY <2>2
    <3>3. TookEffect(SendKey) => TookEffect(SendKey)'
      BY <1>2, <3>1, <3>2 DEF TookEffect, SendKey
    <3>4. bulk.v \in Versions
      BY DEF OutreachTyped
    <3> QED BY <1>2, <2>4, <3>3, <3>4 DEF BulkApproved
  <2> QED BY <2>2, <2>6, <2>7, <2>8, <2>9
<1>3. ASSUME NEW o \in Makers, propose_activation(v, o) PROVE OutreachInv'
  <2>1. PICK r \in Requests : require_approval_or_execute(o, <<"activate", v, tmpl[v].copy>>, TRUE, r)
    BY <1>3 DEF propose_activation
  <2>2. <<"activate", v, tmpl[v].copy>> \in OutreachKeys
    BY <1>0 DEF OutreachKeys
  <2>3. PICK key \in OutreachKeys : key = <<"activate", v, tmpl[v].copy>>
    BY <2>2
  <2> QED BY <1>2, <1>3, <2>1, <2>3 DEF propose_activation
<1>4. ASSUME NEW o \in Makers, propose_archive(v, o) PROVE OutreachInv'
  <2>1. PICK r \in Requests : require_approval_or_execute(o, <<"archive", v>>, TRUE, r)
    BY <1>4 DEF propose_archive
  <2>2. <<"archive", v>> \in OutreachKeys
    BY DEF OutreachKeys
  <2>3. tmpl[v].st = "active" /\ UNCHANGED <<bulk, outbox, expander, lostRuns>>
    BY <1>4 DEF propose_archive, outreachVars
  <2>4. tmpl' = [tmpl EXCEPT ![v].st = "active"]
    <3>1. UNCHANGED tmpl
      BY <1>4 DEF propose_archive, outreachVars
    <3>2. tmpl[v] = [tmpl[v] EXCEPT !.st = "active"]
      BY <1>0, <2>3
    <3> QED BY <1>0, <3>1, <3>2
  <2> QED BY <1>2, <2>1, <2>2, <2>3, <2>4
<1> QED BY <1>1, <1>3, <1>4

\* A step that takes no version out of force, and none into it without an executed activation.
LEMMA VersionsStay ==
  ASSUME OutreachInv, ServiceStep(OutreachKeys) \/ UNCHANGED approvalVars,
         \A w \in Versions :
           /\ tmpl'[w].copy = tmpl[w].copy
           /\ InForce(w)' => InForce(w) \/ \E r \in Requests :
                ran'[r] = 1 /\ req'[r].key = <<"activate", w, tmpl[w].copy>>
  PROVE  VersionsApproved'
<1> SUFFICES ASSUME NEW w \in Versions, InForce(w)', w # First
             PROVE  TookEffect(<<"activate", w, tmpl[w].copy>>)'
  BY DEF VersionsApproved
<1>1. PICK k : k = <<"activate", w, tmpl[w].copy>>
  OBVIOUS
<1>2. CASE InForce(w)
  <2>1. TookEffect(k)'
    BY <1>1, <1>2, EffectsCarryOver DEF OutreachInv, VersionsApproved
  <2> QED BY <1>1, <2>1 DEF TookEffect
<1>3. CASE \E r \in Requests : ran'[r] = 1 /\ req'[r].key = <<"activate", w, tmpl[w].copy>>
  BY <1>3 DEF TookEffect
<1> QED BY <1>2, <1>3

\* A step that raises nothing, and changes no draft that a request still stands for.
LEMMA HoldersStay ==
  ASSUME OutreachInv, Decides \/ RunnerMoves \/ UNCHANGED approvalVars,
         \A w \in Versions :
           /\ tmpl'[w].copy = tmpl[w].copy
           /\ InForce(w) => InForce(w)'
           /\ \A s \in Requests : Holds(s)' /\ req[s].key = <<"activate", w, tmpl[w].copy>> =>
                tmpl'[w].st # "draft",
         \A s \in Requests : Holds(s)' /\ req[s].key = SendKey =>
           bulk'.st # "draft" /\ bulk'.v = bulk.v /\ bulk'.edit = bulk.edit
  PROVE  RequestsCurrent'
<1> SUFFICES ASSUME NEW s \in Requests, Holds(s)', NEW k, k = req'[s].key
             PROVE  /\ k[1] = "activate" => /\ tmpl'[k[2]].st # "draft"
                                            /\ k = <<"activate", k[2], tmpl'[k[2]].copy>>
                    /\ k[1] = "archive" => InForce(k[2])'
                    /\ k[1] = "send" => bulk'.st # "draft" /\ k = SendKey'
  BY DEF RequestsCurrent
<1>1. Holds(s) /\ k = req[s].key
  BY OthersHold DEF OutreachInv
<1>2. k[2] \in Versions
  BY <1>1, OutreachKeyParts DEF OutreachInv, ServiceInv, KeysRaised, Holds, KEY_HELD_STATUSES
<1>3. /\ k[1] = "activate" => k = <<"activate", k[2], tmpl[k[2]].copy>>
      /\ k[1] = "archive" => InForce(k[2])
      /\ k[1] = "send" => k = SendKey
  BY <1>1 DEF OutreachInv, RequestsCurrent
<1>4. k[1] = "activate" => /\ tmpl'[k[2]].st # "draft"
                           /\ k = <<"activate", k[2], tmpl'[k[2]].copy>>
  BY <1>1, <1>2, <1>3
<1>5. k[1] = "archive" => InForce(k[2])'
  BY <1>2, <1>3
<1>6. k[1] = "send" => bulk'.st # "draft" /\ k = SendKey'
  BY <1>1, <1>3 DEF SendKey
<1> QED BY <1>4, <1>5, <1>6

\* A step that leaves the campaign's content alone, and schedules it only on an executed approval.
LEMMA BulkStays ==
  ASSUME OutreachInv, ServiceStep(OutreachKeys) \/ UNCHANGED approvalVars,
         bulk'.v = bulk.v, bulk'.edit = bulk.edit, InForce(bulk.v) => InForce(bulk.v)',
         bulk'.st \in {"scheduled", "sending", "sent"} =>
           \/ bulk.st \in {"scheduled", "sending", "sent"}
           \/ \E r \in Requests : ran'[r] = 1 /\ req'[r].key = SendKey,
         \A x \in Expanders : expander'[x].on => bulk'.st \in {"sending", "sent"}
  PROVE  BulkApproved'
<1>1. PICK k : k = SendKey
  OBVIOUS
<1>2. k = SendKey'
  BY <1>1 DEF SendKey
<1>3. ASSUME bulk'.st \in {"scheduled", "sending", "sent"} PROVE TookEffect(SendKey)'
  <2>1. CASE bulk.st \in {"scheduled", "sending", "sent"}
    <3>1. TookEffect(k)'
      BY <1>1, <2>1, EffectsCarryOver DEF OutreachInv, BulkApproved
    <3> QED BY <1>2, <3>1 DEF TookEffect
  <2>2. CASE \E r \in Requests : ran'[r] = 1 /\ req'[r].key = SendKey
    BY <1>1, <1>2, <2>2 DEF TookEffect
  <2> QED BY <1>3, <2>1, <2>2
<1>4. InForce(bulk.v)'
  BY DEF OutreachInv, BulkApproved, InForce
<1> QED BY <1>3, <1>4 DEF BulkApproved

\* The executor of a template request.
LEMMA TemplateExecuted ==
  ASSUME OutreachInv, NEW r \in Requests, execute_template_change(r)
  PROVE  OutreachInv'
<1> USE DEF OutreachInv
<1>0. /\ tmpl \in [Versions -> [st : {"draft", "pending", "active", "archived"}, copy : Nat]]
      /\ bulk.v \in Versions
  BY DEF OutreachTyped
<1>1. /\ runner[r] = "run" /\ req[r].key[1] \in {"activate", "archive"}
      /\ UNCHANGED <<bulk, outbox, expander, lostRuns>>
      /\ Executes(r) \/ Refuses(r)
  BY DEF execute_template_change
<1>2. Holds(r) /\ req[r].key \in OutreachKeys
  BY <1>1, RunnerHolds
<1>3. PICK v \in Versions : v = req[r].key[2]
  BY <1>2, OutreachKeyParts
<1>4. \/ UNCHANGED tmpl
      \/ /\ req[r].key[1] = "activate" /\ Executes(r)
         /\ tmpl' = [w \in Versions |->
                       IF w = v THEN [tmpl[w] EXCEPT !.st = "active"]
                       ELSE [tmpl[w] EXCEPT !.st = IF @ = "active" THEN "archived" ELSE @]]
      \/ tmpl[v].st = "active" /\ tmpl' = [tmpl EXCEPT ![v].st = "archived"]
  BY <1>3 DEF execute_template_change
<1>5. req[r].key[1] = "activate" => req[r].key = <<"activate", v, tmpl[v].copy>>
  BY <1>2, <1>3 DEF RequestsCurrent
<1>6. Executes(r) => ran'[r] = 1 /\ UNCHANGED req
  BY <1>1, RunnerHolds
<1>7. tmpl' \in [Versions -> [st : {"draft", "pending", "active", "archived"}, copy : Nat]]
  BY <1>0, <1>4
<1>8. \A w \in Versions :
        /\ tmpl'[w].copy = tmpl[w].copy
        /\ InForce(w) => InForce(w)'
        /\ tmpl[w].st # "draft" => tmpl'[w].st # "draft"
        /\ InForce(w)' => InForce(w) \/ (w = v /\ req[r].key[1] = "activate" /\ Executes(r))
  BY <1>0, <1>4 DEF InForce
<1>9. RunnerMoves
  BY <1>1 DEF RunnerMoves
<1>10. ServiceInv(OutreachKeys)' /\ SentAsApproved'
  BY <1>1, <1>9, EffectsCarryOver DEF ServiceStep
<1>11. VersionsApproved'
  BY <1>5, <1>6, <1>8, <1>9, VersionsStay DEF ServiceStep
<1>12. RequestsCurrent'
  <2>1. \A s \in Requests : Holds(s)' => Holds(s)
    BY <1>9, OthersHold
  <2>2. \A s \in Requests, w \in Versions :
          Holds(s)' /\ req[s].key = <<"activate", w, tmpl[w].copy>> => tmpl'[w].st # "draft"
    <3> SUFFICES ASSUME NEW s \in Requests, NEW w \in Versions, Holds(s),
                        req[s].key = <<"activate", w, tmpl[w].copy>>
                 PROVE  tmpl[w].st # "draft"
      BY <1>8, <2>1
    <3> QED BY DEF RequestsCurrent
  <2>3. \A s \in Requests : Holds(s) /\ req[s].key = SendKey => bulk.st # "draft"
    BY DEF RequestsCurrent, SendKey
  <2> QED BY <1>1, <1>8, <1>9, <2>1, <2>2, <2>3, HoldersStay
<1>13. BulkApproved'
  <2>1. \A x \in Expanders : expander'[x].on => bulk'.st \in {"sending", "sent"}
    BY <1>1 DEF BulkApproved
  <2>2. InForce(bulk.v) => InForce(bulk.v)'
    BY <1>0, <1>1, <1>8 DEF InForce
  <2> QED BY <1>1, <1>9, <2>1, <2>2, BulkStays DEF ServiceStep
<1>14. OutreachTyped'
  BY <1>1, <1>7 DEF OutreachTyped
<1> QED BY <1>10, <1>11, <1>12, <1>13, <1>14

\* A rejected, withdrawn or expired request: its draft can be edited again.  No other request
\* stands for that draft, because a key has one holder.
LEMMA RequestClosed ==
  ASSUME OutreachInv, NEW r \in Requests,
         expire_stale(r) \/ \E o \in Operators : reject(r, o) \/ cancel(r, o),
         outreach_request_closed(r)
  PROVE  OutreachInv'
<1> USE DEF OutreachInv
<1>0. /\ tmpl \in [Versions -> [st : {"draft", "pending", "active", "archived"}, copy : Nat]]
      /\ bulk.v \in Versions
      /\ bulk \in [st : {"draft", "pending", "scheduled", "sending", "sent", "cancelled"},
                   edit : Nat, v : Versions, at : BOOLEAN]
  BY DEF OutreachTyped
<1>1. Decides
  BY DEF Decides
<1>2. Holds(r) /\ ~Holds(r)' /\ req[r].key \in OutreachKeys /\ UNCHANGED ran
  BY ClosedHoldsNothing
<1>3. PICK v \in Versions : v = req[r].key[2]
  BY <1>2, OutreachKeyParts
<1>4. PICK kind \in {"activate", "archive", "send"} : kind = req[r].key[1]
  BY <1>2, OutreachKeyParts
<1>5. /\ kind = "activate" => req[r].key = <<"activate", v, tmpl[v].copy>>
      /\ kind = "archive" => InForce(v)
      /\ kind = "send" => req[r].key = SendKey
  BY <1>2, <1>3, <1>4 DEF RequestsCurrent
<1>6. /\ tmpl' = IF kind = "send" THEN tmpl
                 ELSE [tmpl EXCEPT ![v].st = IF @ = "pending" THEN "draft" ELSE @]
      /\ bulk' = IF kind # "send" THEN bulk
                 ELSE [bulk EXCEPT !.st = IF @ = "pending" THEN "draft" ELSE @]
      /\ UNCHANGED <<outbox, expander, lostRuns>>
  BY <1>3, <1>4 DEF outreach_request_closed
<1>7. /\ tmpl' \in [Versions -> [st : {"draft", "pending", "active", "archived"}, copy : Nat]]
      /\ \A w \in Versions : /\ tmpl'[w].copy = tmpl[w].copy
                             /\ InForce(w)' <=> InForce(w)
                             /\ tmpl'[w].st = "draft" => tmpl[w].st = "draft" \/ (w = v /\ kind = "activate")
  BY <1>0, <1>4, <1>5, <1>6 DEF InForce
<1>8. /\ bulk' \in [st : {"draft", "pending", "scheduled", "sending", "sent", "cancelled"},
                    edit : Nat, v : Versions, at : BOOLEAN]
      /\ bulk'.v = bulk.v /\ bulk'.edit = bulk.edit
      /\ bulk'.st = bulk.st \/ (kind = "send" /\ bulk.st = "pending" /\ bulk'.st = "draft")
  BY <1>0, <1>6
<1>9. ServiceInv(OutreachKeys)' /\ SentAsApproved'
  BY <1>1, <1>6, EffectsCarryOver DEF ServiceStep
<1>10. VersionsApproved'
  BY <1>1, <1>7, VersionsStay DEF ServiceStep
<1>11. \A s \in Requests : Holds(s)' => Holds(s) /\ req[s].key # req[r].key
  <2>1. \A s \in Requests : Holds(s)' => Holds(s) /\ s # r
    BY <1>1, <1>2, OthersHold
  <2> QED BY <1>2, <2>1 DEF ServiceInv, OneHolder, Holds
<1>12. RequestsCurrent'
  <2>1. \A s \in Requests, w \in Versions :
          Holds(s)' /\ req[s].key = <<"activate", w, tmpl[w].copy>> => tmpl'[w].st # "draft"
    <3> SUFFICES ASSUME NEW s \in Requests, NEW w \in Versions, Holds(s)', tmpl'[w].st = "draft",
                        req[s].key = <<"activate", w, tmpl[w].copy>>
                 PROVE  FALSE
      OBVIOUS
    <3>1. Holds(s) /\ tmpl[w].st # "draft"
      BY <1>11 DEF RequestsCurrent
    <3>2. w = v /\ kind = "activate"
      BY <1>7, <3>1
    <3> QED BY <1>5, <1>11, <3>2
  <2>2. \A s \in Requests : Holds(s)' /\ req[s].key = SendKey => bulk'.st # "draft"
    <3> SUFFICES ASSUME NEW s \in Requests, Holds(s)', req[s].key = SendKey
                 PROVE  bulk'.st # "draft"
      OBVIOUS
    <3>1. bulk.st # "draft"
      BY <1>11 DEF RequestsCurrent, SendKey
    <3>2. kind # "send"
      BY <1>5, <1>11
    <3> QED BY <1>8, <3>1, <3>2
  <2> QED BY <1>1, <1>7, <1>8, <2>1, <2>2, HoldersStay
<1>13. BulkApproved'
  <2>1. \A x \in Expanders : expander'[x].on => bulk'.st \in {"sending", "sent"}
    BY <1>6, <1>8 DEF BulkApproved
  <2>2. InForce(bulk.v) => InForce(bulk.v)'
    BY <1>0, <1>7, <1>8 DEF InForce
  <2> QED BY <1>1, <1>8, <2>1, <2>2, BulkStays DEF ServiceStep
<1>14. OutreachTyped'
  BY <1>6, <1>7, <1>8 DEF OutreachTyped
<1> QED BY <1>9, <1>10, <1>12, <1>13, <1>14

\* A step that leaves the templates and the service alone, and the campaign's content with it.
LEMMA BulkMoves ==
  ASSUME OutreachInv, Decides \/ RunnerMoves \/ UNCHANGED approvalVars,
         UNCHANGED <<tmpl, outbox>>, OutreachTyped',
         bulk'.v = bulk.v, bulk'.edit = bulk.edit, bulk'.st = "draft" => bulk.st = "draft",
         bulk'.st \in {"scheduled", "sending", "sent"} =>
           \/ bulk.st \in {"scheduled", "sending", "sent"}
           \/ \E r \in Requests : ran'[r] = 1 /\ req'[r].key = SendKey,
         \A x \in Expanders : expander'[x].on => bulk'.st \in {"sending", "sent"}
  PROVE  OutreachInv'
<1> USE DEF OutreachInv
<1>1. \A w \in Versions : /\ tmpl'[w].copy = tmpl[w].copy
                          /\ InForce(w)' <=> InForce(w)
  BY DEF InForce
<1>2. ServiceInv(OutreachKeys)' /\ SentAsApproved' /\ VersionsApproved'
  BY EffectsCarryOver DEF ServiceStep
<1>3. \A s \in Requests : Holds(s)' => Holds(s)
  BY OthersHold
<1>4. \A s \in Requests, w \in Versions :
        Holds(s)' /\ req[s].key = <<"activate", w, tmpl[w].copy>> => tmpl'[w].st # "draft"
  <2> SUFFICES ASSUME NEW s \in Requests, NEW w \in Versions, Holds(s),
                      req[s].key = <<"activate", w, tmpl[w].copy>>
               PROVE  tmpl[w].st # "draft"
    BY <1>3
  <2> QED BY DEF RequestsCurrent
<1>5. \A s \in Requests : Holds(s) /\ req[s].key = SendKey => bulk.st # "draft"
  BY DEF RequestsCurrent, SendKey
<1>6. RequestsCurrent'
  BY <1>1, <1>3, <1>4, <1>5, HoldersStay
<1>7. InForce(bulk.v) => InForce(bulk.v)'
  BY DEF InForce
<1>8. BulkApproved'
  BY <1>7, BulkStays DEF ServiceStep
<1> QED BY <1>2, <1>6, <1>8

\* The campaign while it is a draft: its content may change, nobody stands behind it yet.
LEMMA BulkDraftSteps ==
  ASSUME OutreachInv, update_campaign_draft \/ \E o \in Makers : propose_send(o)
  PROVE  OutreachInv'
<1> USE DEF OutreachInv
<1>0. /\ tmpl \in [Versions -> [st : {"draft", "pending", "active", "archived"}, copy : Nat]]
      /\ bulk \in [st : {"draft", "pending", "scheduled", "sending", "sent", "cancelled"},
                   edit : Nat, v : Versions, at : BOOLEAN]
  BY DEF OutreachTyped
<1>1. bulk.st = "draft" /\ UNCHANGED <<tmpl, outbox, expander, lostRuns>>
  BY DEF update_campaign_draft, propose_send
<1>2. \A x \in Expanders : ~expander[x].on
  BY <1>1 DEF BulkApproved
<1>3. \A w \in Versions : InForce(w)' <=> InForce(w)
  BY <1>1 DEF InForce
<1>4. \A s \in Requests : Holds(s) => req[s].key[1] # "send"
  BY <1>1 DEF RequestsCurrent
<1>5. CASE update_campaign_draft
  <2>1. PICK v \in Versions : tmpl[v].st = "active" /\ bulk' = [bulk EXCEPT !.edit = @ + 1, !.v = v]
    BY <1>5 DEF update_campaign_draft
  <2>2. /\ bulk'.st = "draft" /\ bulk'.v = v
        /\ bulk' \in [st : {"draft", "pending", "scheduled", "sending", "sent", "cancelled"},
                      edit : Nat, v : Versions, at : BOOLEAN]
    <3>1. PICK edit \in Nat : edit = bulk.edit + 1
      BY <1>0
    <3>2. bulk' = [bulk EXCEPT !.edit = edit, !.v = v]
      BY <1>0, <2>1, <3>1
    <3> QED BY <1>0, <1>1, <3>2
  <2>3. UNCHANGED approvalVars /\ UNCHANGED <<req, ran>>
    BY <1>5 DEF update_campaign_draft, approvalVars
  <2>4. ServiceInv(OutreachKeys)' /\ SentAsApproved' /\ VersionsApproved'
    BY <1>1, <2>3, EffectsCarryOver
  <2>5. OutreachTyped'
    BY <1>1, <2>2 DEF OutreachTyped
  <2>6. RequestsCurrent'
    <3> SUFFICES ASSUME NEW s \in Requests, Holds(s), NEW k, k = req[s].key
                 PROVE  /\ k[1] = "activate" => /\ tmpl[k[2]].st # "draft"
                                                /\ k = <<"activate", k[2], tmpl[k[2]].copy>>
                        /\ k[1] = "archive" => InForce(k[2])'
                        /\ k[1] # "send"
      BY <1>1, <2>3 DEF RequestsCurrent, Holds
    <3>1. k[2] \in Versions
      BY OutreachKeyParts DEF ServiceInv, KeysRaised, Holds, KEY_HELD_STATUSES
    <3> QED BY <1>3, <1>4, <3>1 DEF RequestsCurrent
  <2>7. InForce(bulk.v)'
    BY <1>1, <2>1, <2>2 DEF InForce
  <2>8. BulkApproved'
    BY <1>1, <1>2, <2>2, <2>7 DEF BulkApproved
  <2> QED BY <2>4, <2>5, <2>6, <2>8
<1>6. ASSUME NEW o \in Makers, propose_send(o) PROVE OutreachInv'
  <2>0. bulk' = [bulk EXCEPT !.st = "pending"]
    BY <1>6 DEF propose_send
  <2>1. PICK r \in Requests : require_approval_or_execute(o, SendKey, TRUE, r)
    BY <1>6 DEF propose_send
  <2>2. PICK key \in OutreachKeys : key = SendKey
    BY <1>0 DEF OutreachKeys, SendKey
  <2>3. Raises(OutreachKeys)
    BY <2>1, <2>2, ApprovalConstants DEF Raises
  <2>4. ServiceInv(OutreachKeys)' /\ SentAsApproved' /\ VersionsApproved'
    BY <1>1, <2>3, EffectsCarryOver DEF ServiceStep
  <2>5. \A s \in Requests : Holds(s)' => \/ Holds(s) /\ req'[s].key = req[s].key
                                         \/ s = r /\ req'[s].key = key
    BY <2>1, <2>2, RaiserHolds
  <2>6. /\ bulk'.st = "pending" /\ bulk'.v = bulk.v /\ bulk'.edit = bulk.edit
        /\ bulk' \in [st : {"draft", "pending", "scheduled", "sending", "sent", "cancelled"},
                      edit : Nat, v : Versions, at : BOOLEAN]
    BY <1>0, <2>0
  <2>7. key = SendKey'
    BY <2>2, <2>6 DEF SendKey
  <2>8. OutreachTyped'
    BY <1>1, <2>6 DEF OutreachTyped
  <2>9. RequestsCurrent'
    <3> SUFFICES ASSUME NEW s \in Requests, Holds(s)', NEW k, k = req'[s].key
                 PROVE  /\ k[1] = "activate" => /\ tmpl[k[2]].st # "draft"
                                                /\ k = <<"activate", k[2], tmpl[k[2]].copy>>
                        /\ k[1] = "archive" => InForce(k[2])'
                        /\ k[1] = "send" => k = key
      BY <1>1, <2>6, <2>7 DEF RequestsCurrent
    <3>1. CASE Holds(s) /\ k = req[s].key
      <4>1. k[2] \in Versions
        BY <3>1, OutreachKeyParts DEF ServiceInv, KeysRaised, Holds, KEY_HELD_STATUSES
      <4> QED BY <1>3, <1>4, <3>1, <4>1 DEF RequestsCurrent
    <3>2. CASE k = key
      BY <2>2, <3>2 DEF SendKey
    <3> QED BY <2>5, <3>1, <3>2
  <2>10. InForce(bulk.v)'
    BY <1>1, <2>6 DEF InForce, BulkApproved
  <2>11. BulkApproved'
    BY <1>1, <1>2, <2>6, <2>10 DEF BulkApproved
  <2> QED BY <2>4, <2>8, <2>9, <2>11
<1> QED BY <1>5, <1>6

\* The campaign once it is out of its drafter's hands.
LEMMA BulkSteps ==
  ASSUME OutreachInv,
         \/ cancel_bulk \/ ScheduledTimeComes
         \/ \E r \in Requests : execute_campaign_send(r)
         \/ \E x \in Expanders : start(x) \/ Expanded(x) \/ RunDies(x)
  PROVE  OutreachInv'
<1> USE DEF OutreachInv
<1>0. /\ bulk \in [st : {"draft", "pending", "scheduled", "sending", "sent", "cancelled"},
                   edit : Nat, v : Versions, at : BOOLEAN]
      /\ expander \in [Expanders -> [on : BOOLEAN, left : SUBSET Audience]]
      /\ \A x \in Expanders : expander[x].on => bulk.st \in {"sending", "sent"}
  BY DEF OutreachTyped, BulkApproved
<1>1. CASE cancel_bulk \/ ScheduledTimeComes
  <2>1. /\ UNCHANGED approvalVars /\ UNCHANGED <<tmpl, outbox, expander>>
        /\ \/ bulk.st \in {"draft", "pending", "scheduled"} /\ bulk' = [bulk EXCEPT !.st = "cancelled"]
           \/ bulk' = [bulk EXCEPT !.at = TRUE]
    BY <1>1 DEF cancel_bulk, ScheduledTimeComes
  <2>2. /\ bulk'.v = bulk.v /\ bulk'.edit = bulk.edit
        /\ \/ bulk'.st = "cancelled" /\ bulk.st \in {"draft", "pending", "scheduled"}
           \/ bulk'.st = bulk.st
        /\ bulk' \in [st : {"draft", "pending", "scheduled", "sending", "sent", "cancelled"},
                      edit : Nat, v : Versions, at : BOOLEAN]
    BY <1>0, <2>1
  <2>3. OutreachTyped'
    BY <2>1, <2>2 DEF OutreachTyped
  <2>4. \A x \in Expanders : expander'[x].on => bulk'.st \in {"sending", "sent"}
    BY <1>0, <2>1, <2>2
  <2> QED BY <2>1, <2>2, <2>3, <2>4, BulkMoves
<1>2. ASSUME NEW r \in Requests, execute_campaign_send(r) PROVE OutreachInv'
  <2>1. /\ runner[r] = "run" /\ req[r].key[1] = "send" /\ UNCHANGED <<tmpl, outbox, expander>>
        /\ \/ bulk.st = "pending" /\ Executes(r) /\ bulk' = [bulk EXCEPT !.st = "scheduled"]
           \/ Refuses(r) /\ UNCHANGED bulk
    BY <1>2 DEF execute_campaign_send
  <2>2. Holds(r) /\ (Executes(r) => ran'[r] = 1 /\ UNCHANGED req)
    BY <2>1, RunnerHolds
  <2>3. req[r].key = SendKey
    BY <2>1, <2>2 DEF RequestsCurrent
  <2>4. /\ bulk'.v = bulk.v /\ bulk'.edit = bulk.edit
        /\ \/ bulk'.st = bulk.st
           \/ bulk'.st = "scheduled" /\ bulk.st = "pending" /\ ran'[r] = 1 /\ req'[r].key = SendKey
        /\ bulk' \in [st : {"draft", "pending", "scheduled", "sending", "sent", "cancelled"},
                      edit : Nat, v : Versions, at : BOOLEAN]
    BY <1>0, <2>1, <2>2, <2>3
  <2>5. OutreachTyped'
    BY <2>1, <2>4 DEF OutreachTyped
  <2>6. \A x \in Expanders : expander'[x].on => bulk'.st \in {"sending", "sent"}
    BY <1>0, <2>1, <2>4
  <2>7. RunnerMoves
    BY <2>1 DEF RunnerMoves
  <2> QED BY <2>1, <2>4, <2>5, <2>6, <2>7, BulkMoves
<1>3. ASSUME NEW x \in Expanders, start(x) \/ Expanded(x) \/ RunDies(x) PROVE OutreachInv'
  <2>1. UNCHANGED approvalVars /\ UNCHANGED <<tmpl, outbox>>
    BY <1>3 DEF start, Expanded, RunDies
  <2>2. CASE start(x)
    <3>1. /\ bulk.st \in {"scheduled", "sending"} /\ bulk' = [bulk EXCEPT !.st = "sending"]
          /\ expander' = [expander EXCEPT ![x] = [on |-> TRUE, left |-> Audience]]
      BY <2>2 DEF start
    <3>2. /\ bulk'.v = bulk.v /\ bulk'.edit = bulk.edit /\ bulk'.st = "sending"
          /\ bulk' \in [st : {"draft", "pending", "scheduled", "sending", "sent", "cancelled"},
                        edit : Nat, v : Versions, at : BOOLEAN]
          /\ expander' \in [Expanders -> [on : BOOLEAN, left : SUBSET Audience]]
      BY <1>0, <3>1
    <3>3. OutreachTyped'
      BY <2>1, <3>2 DEF OutreachTyped
    <3> QED BY <2>1, <3>1, <3>2, <3>3, BulkMoves
  <2>3. CASE Expanded(x)
    <3>1. /\ expander[x].on /\ bulk' = [bulk EXCEPT !.st = "sent"]
          /\ expander' = [expander EXCEPT ![x].on = FALSE]
      BY <2>3 DEF Expanded
    <3>2. /\ bulk'.v = bulk.v /\ bulk'.edit = bulk.edit /\ bulk'.st = "sent"
          /\ bulk.st \in {"sending", "sent"}
          /\ bulk' \in [st : {"draft", "pending", "scheduled", "sending", "sent", "cancelled"},
                        edit : Nat, v : Versions, at : BOOLEAN]
          /\ expander' \in [Expanders -> [on : BOOLEAN, left : SUBSET Audience]]
      BY <1>0, <3>1
    <3>3. OutreachTyped'
      BY <2>1, <3>2 DEF OutreachTyped
    <3> QED BY <2>1, <3>1, <3>2, <3>3, BulkMoves
  <2>4. CASE RunDies(x)
    <3>1. /\ bulk' = bulk
          /\ expander' = [expander EXCEPT ![x] = [on |-> FALSE, left |-> {}]]
      BY <2>4 DEF RunDies
    <3>2. /\ expander' \in [Expanders -> [on : BOOLEAN, left : SUBSET Audience]]
          /\ \A y \in Expanders \ {x} : expander'[y] = expander[y]
      BY <1>0, <3>1
    <3>3. ~expander'[x].on
      BY <1>0, <3>1, Zenon
    <3>4. OutreachTyped'
      BY <2>1, <3>1, <3>2 DEF OutreachTyped
    <3>5. \A y \in Expanders : expander'[y].on => bulk'.st \in {"sending", "sent"}
      BY <1>0, <3>1, <3>2, <3>3
    <3> QED BY <2>1, <3>1, <3>4, <3>5, BulkMoves
  <2> QED BY <1>3, <2>2, <2>3, <2>4
<1> QED BY <1>1, <1>2, <1>3

\* A recipient's row is written from the campaign and the template as both were approved.
LEMMA EnqueuesOK ==
  ASSUME OutreachInv, NEW x \in Expanders, Enqueues(x)
  PROVE  OutreachInv'
<1> USE DEF OutreachInv
<1>0. /\ expander \in [Expanders -> [on : BOOLEAN, left : SUBSET Audience]]
      /\ DOMAIN outbox = Audience /\ bulk.v \in Versions
      /\ \A y \in Expanders : expander[y].on => bulk.st \in {"sending", "sent"}
  BY DEF OutreachTyped, BulkApproved
<1>1. PICK u \in expander[x].left :
        /\ expander' = [expander EXCEPT ![x].left = @ \ {u}]
        /\ outbox' = [outbox EXCEPT ![u] =
                        IF @ = <<>> THEN <<bulk.v, tmpl[bulk.v].copy, bulk.edit>> ELSE @]
  BY DEF Enqueues
<1>2. expander[x].on /\ UNCHANGED approvalVars /\ UNCHANGED <<req, ran, tmpl, bulk>>
  BY DEF Enqueues, approvalVars
<1>3. u \in Audience
  BY <1>0, <1>1
<1>4. PICK letter : letter = IF outbox[u] = <<>> THEN <<bulk.v, tmpl[bulk.v].copy, bulk.edit>> ELSE outbox[u]
  OBVIOUS
<1>5. outbox'[u] = letter /\ DOMAIN outbox' = Audience /\ \A w \in Audience \ {u} : outbox'[w] = outbox[w]
  BY <1>0, <1>1, <1>3, <1>4
<1>6. /\ expander' \in [Expanders -> [on : BOOLEAN, left : SUBSET Audience]]
      /\ \A y \in Expanders : expander'[y].on = expander[y].on
  BY <1>0, <1>1
<1>7. OutreachTyped'
  BY <1>2, <1>5, <1>6 DEF OutreachTyped
<1>8. ServiceInv(OutreachKeys)' /\ VersionsApproved'
  BY <1>2, EffectsCarryOver
<1>9. RequestsCurrent'
  BY <1>2 DEF RequestsCurrent, Holds, InForce, SendKey
<1>10. BulkApproved'
  BY <1>2, <1>6 DEF BulkApproved, InForce, SendKey, TookEffect
<1>11. SentAsApproved'
  <2>1. \A w \in Audience \ {u} : outbox[w] # <<>> =>
          LET v == outbox[w][1] IN
            /\ \E r \in Requests : ran[r] = 1 /\ req[r].key = <<"send", v, outbox[w][3]>>
            /\ v = First \/ \E r \in Requests : ran[r] = 1 /\ req[r].key = <<"activate", v, outbox[w][2]>>
    BY DEF SentAsApproved
  <2>2. letter # <<>> =>
          LET v == letter[1] IN
            /\ \E r \in Requests : ran[r] = 1 /\ req[r].key = <<"send", v, letter[3]>>
            /\ v = First \/ \E r \in Requests : ran[r] = 1 /\ req[r].key = <<"activate", v, letter[2]>>
    <3>1. CASE outbox[u] = <<>>
      <4>1. letter[1] = bulk.v /\ letter[2] = tmpl[bulk.v].copy /\ letter[3] = bulk.edit
        BY <1>4, <3>1
      <4>2. bulk.st \in {"sending", "sent"}
        BY <1>0, <1>2
      <4>3. TookEffect(SendKey) /\ InForce(bulk.v)
        BY <4>2 DEF BulkApproved
      <4>4. bulk.v = First \/ TookEffect(<<"activate", bulk.v, tmpl[bulk.v].copy>>)
        BY <1>0, <4>3 DEF VersionsApproved
      <4> QED BY <4>1, <4>3, <4>4 DEF TookEffect, SendKey
    <3>2. CASE outbox[u] # <<>>
      BY <1>3, <1>4, <3>2 DEF SentAsApproved
    <3> QED BY <3>1, <3>2
  <2> SUFFICES ASSUME NEW w \in Audience, NEW sent, sent = outbox'[w], sent # <<>>
               PROVE  LET v == sent[1] IN
                        /\ \E r \in Requests : ran[r] = 1 /\ req[r].key = <<"send", v, sent[3]>>
                        /\ v = First \/ \E r \in Requests : ran[r] = 1 /\ req[r].key = <<"activate", v, sent[2]>>
    BY <1>2 DEF SentAsApproved
  <2>3. CASE w = u
    BY <1>5, <2>2, <2>3
  <2>4. CASE w # u
    BY <1>5, <2>1, <2>4
  <2> QED BY <2>3, <2>4
<1> QED BY <1>7, <1>8, <1>9, <1>10, <1>11

\* Every step of the composition keeps the invariant.
LEMMA OutreachStep == OutreachInv /\ [OutreachNext]_<<approvalVars, outreachVars>> => OutreachInv'
<1> SUFFICES ASSUME OutreachInv, [OutreachNext]_<<approvalVars, outreachVars>> PROVE OutreachInv'
  OBVIOUS
<1>1. ASSUME NEW v \in Versions,
             \/ update_template_draft(v)
             \/ \E o \in Makers : propose_activation(v, o) \/ propose_archive(v, o)
      PROVE  OutreachInv'
  BY <1>1, TemplateSteps
<1>2. ASSUME NEW x \in Expanders, ExpanderStep(x) \/ RunDies(x) PROVE OutreachInv'
  BY <1>2, BulkSteps, EnqueuesOK DEF ExpanderStep
<1>3. CASE update_campaign_draft \/ cancel_bulk \/ ScheduledTimeComes \/ \E o \in Makers : propose_send(o)
  BY <1>3, BulkDraftSteps, BulkSteps
<1>4. ASSUME Decides \/ RunnerMoves \/ UNCHANGED approvalVars, UNCHANGED outreachVars PROVE OutreachInv'
  <2>1. UNCHANGED <<tmpl, bulk, outbox, expander>>
    BY <1>4 DEF outreachVars
  <2>2. OutreachTyped' /\ \A x \in Expanders : expander'[x].on => bulk'.st \in {"sending", "sent"}
    BY <2>1 DEF OutreachInv, OutreachTyped, BulkApproved
  <2> QED BY <1>4, <2>1, <2>2, BulkMoves
<1>5. ASSUME NEW r \in Requests,
             \/ \E o \in Operators : approve(r, o) /\ UNCHANGED outreachVars
             \/ (_finish(r) \/ RunnerDies(r)) /\ UNCHANGED outreachVars
      PROVE  OutreachInv'
  <2>1. (Decides \/ RunnerMoves) /\ UNCHANGED outreachVars
    BY <1>5 DEF Decides, RunnerMoves
  <2> QED BY <1>4, <2>1
<1>6. ASSUME NEW r \in Requests,
             \/ \E o \in Operators : (reject(r, o) \/ cancel(r, o)) /\ outreach_request_closed(r)
             \/ expire_stale(r) /\ outreach_request_closed(r)
             \/ execute_template_change(r) \/ execute_campaign_send(r)
      PROVE  OutreachInv'
  BY <1>6, RequestClosed, TemplateExecuted, BulkSteps
<1> QED BY <1>1, <1>2, <1>3, <1>4, <1>5, <1>6 DEF OutreachNext

\* What reaches a recipient is what was approved: the campaign's content by its checker, and the
\* template's copy by its own, for any number of versions, edits, expiries and killed workers.
THEOREM BulkSentAsApproved == OutreachSpec => []SentAsApproved
<1>1. ApprovalInit /\ OutreachInit => OutreachInv
  BY OutreachInitOK
<1>2. OutreachInv => SentAsApproved
  BY DEF OutreachInv
<1> QED BY <1>1, <1>2, OutreachStep, PTL DEF OutreachSpec

\* The maker-checker service keeps its promise under the bulk campaigns that raise its requests.
THEOREM OutreachRunsOnce == OutreachSpec => []RunsAtMostOnce
<1>1. ApprovalInit /\ OutreachInit => OutreachInv
  BY OutreachInitOK
<1>2. OutreachInv => RunsAtMostOnce
  BY RunsOnce DEF OutreachInv
<1> QED BY <1>1, <1>2, OutreachStep, PTL DEF OutreachSpec

-----------------------------------------------------------------------------
(* Promotion campaigns.  The same holds of a launch: a request that holds   *)
(* its key was raised for the terms and the window the campaign still has.  *)

CampaignKeys ==
  ({"launch"} \X Camps \X Nat \X Nat) \cup ({"budget"} \X Camps \X (0 .. (Raised - 1)) \X {Raised})

CampType ==
  [kind : Kinds, st : OPEN_STATES \cup {"ended", "cancelled"}, cfg : Nat, window : Nat,
   phase : {"before", "open", "passed"}, budget : Int, committed : Nat, spent : Nat, over : Nat,
   serving : BOOLEAN, uses : Nat]

CampsTyped == camp \in [Camps -> CampType]

RedsTyped ==
  /\ red \in [Trips -> [st : {"none", "committed", "settled", "released"}, amt : Nat,
                        c : Camps \cup {NoRedemption.c}]]
  /\ \A t \in Trips : red[t].st # "none" => red[t].c \in Camps

LaunchesCurrent ==
  \A r \in Requests :
    Holds(r) /\ req[r].key[1] = "launch" =>
      LET c == req[r].key[2] IN camp[c].st # "draft" /\ req[r].key = LaunchKey(c)

CampaignInv ==
  ServiceInv(CampaignKeys) /\ CampsTyped /\ RedsTyped /\ LaunchesCurrent /\ LaunchedAsApproved
-----------------------------------------------------------------------------
(* What the budget's operators may do to a campaign's row.                  *)

\* Its terms and its window stay, and it is neither launched nor sent back to draft.
Kept(k, n) ==
  /\ n \in CampType /\ n.cfg = k.cfg /\ n.window = k.window
  /\ n.st = "draft" => k.st = "draft"
  /\ n.st \in LAUNCHED => k.st \in LAUNCHED

\* Recording an overshoot, and exhausting a campaign that can fund nothing more.
LEMMA AfterChangeKeeps ==
  ASSUME NEW c, NEW k \in CampType
  PROVE  Kept(k, _after_change(c, k))
<1>1. CASE k.budget < 0
  BY <1>1 DEF _after_change, Kept
<1>2. CASE ~(k.budget < 0)
  <2> DEFINE excess == Used(k) - k.budget
             over == IF excess > k.over THEN excess ELSE k.over
             st == IF k.st = "live" /\ k.budget - Used(k) < min_viable_minor(c) THEN "exhausted" ELSE k.st
  <2>1. _after_change(c, k) = [k EXCEPT !.over = over, !.st = st]
    BY <1>2 DEF _after_change
  <2>2. excess \in Int /\ k.over \in Nat
    BY DEF Used, CampType
  <2> HIDE DEF excess
  <2>3. over \in Nat
    BY <2>2
  <2>4. st = k.st \/ (k.st = "live" /\ st = "exhausted")
    OBVIOUS
  <2> HIDE DEF over, st
  <2>5. [k EXCEPT !.over = over, !.st = st] \in CampType
    BY <2>3, <2>4 DEF CampType, OPEN_STATES
  <2> QED BY <2>1, <2>4, <2>5 DEF Kept, CampType, LAUNCHED
<1> QED BY <1>1, <1>2

\* Reviving an exhausted campaign, and writing one counter.
LEMMA RowKeeps ==
  ASSUME NEW k \in CampType, NEW n \in Nat
  PROVE  /\ Kept(k, [k EXCEPT !.committed = n]) /\ Kept(k, [k EXCEPT !.spent = n])
         /\ Kept(k, [k EXCEPT !.uses = n])
         /\ \A c : Kept(k, Revived(c, k))
         /\ \A j : Kept(j, k) => \A m : Kept(k, m) => Kept(j, m)
<1>1. /\ [k EXCEPT !.committed = n] \in CampType /\ [k EXCEPT !.spent = n] \in CampType
      /\ [k EXCEPT !.uses = n] \in CampType
  BY DEF CampType
<1>2. Kept(k, [k EXCEPT !.committed = n]) /\ Kept(k, [k EXCEPT !.spent = n]) /\ Kept(k, [k EXCEPT !.uses = n])
  BY <1>1 DEF Kept, CampType
<1>3. ASSUME NEW c PROVE Kept(k, Revived(c, k))
  <2> DEFINE st == IF /\ k.st = "exhausted" /\ k.phase # "passed"
                      /\ k.budget - Used(k) >= min_viable_minor(c)
                   THEN "live" ELSE k.st
  <2>1. Revived(c, k) = [k EXCEPT !.st = st]
    BY DEF Revived
  <2>2. st = k.st \/ (k.st = "exhausted" /\ st = "live")
    OBVIOUS
  <2> HIDE DEF st
  <2>3. [k EXCEPT !.st = st] \in CampType
    BY <2>2 DEF CampType, OPEN_STATES
  <2> QED BY <2>1, <2>2, <2>3 DEF Kept, CampType, LAUNCHED
<1>4. \A j : Kept(j, k) => \A m : Kept(k, m) => Kept(j, m)
  BY DEF Kept
<1> QED BY <1>2, <1>3, <1>4

\* Reserving, settling, adjusting, spending and giving back.
LEMMA LedgerKeeps ==
  ASSUME NEW c, NEW k \in CampType, NEW a \in Nat, NEW b \in Nat
  PROVE  /\ Kept(k, reserve(c, k, a)) /\ Kept(k, settle(c, k, a)) /\ Kept(k, spend_now(c, k, a))
         /\ Kept(k, release(c, k, a)) /\ Kept(k, adjust_reservation(c, k, a, b))
<1>a. k.committed \in Nat /\ k.spent \in Nat
  BY DEF CampType
<1>b. \A x, y \in Nat : x + y \in Nat /\ Less(x, y) \in Nat
  BY DEF Less
<1>0. /\ k.committed \in Nat /\ k.spent \in Nat /\ k.committed + a \in Nat /\ k.spent + a \in Nat
      /\ Less(k.committed, a) \in Nat /\ Less(k.committed + b, a) \in Nat
  BY <1>a, <1>b
<1>1. Kept(k, reserve(c, k, a))
  <2>1. PICK n \in Nat : n = k.committed + a
    BY <1>0
  <2>2. [k EXCEPT !.committed = n] \in CampType /\ Kept(k, [k EXCEPT !.committed = n])
    BY RowKeeps DEF Kept
  <2>3. reserve(c, k, a) = _after_change(c, [k EXCEPT !.committed = n])
    BY <2>1 DEF reserve
  <2> QED BY <2>2, <2>3, AfterChangeKeeps, RowKeeps
<1>2. Kept(k, settle(c, k, a))
  <2>1. PICK n \in Nat : n = Less(k.committed, a)
    BY <1>0
  <2>2. PICK m \in Nat : m = k.spent + a
    BY <1>0
  <2>3. PICK k1 \in CampType : k1 = [k EXCEPT !.committed = n] /\ Kept(k, k1)
    BY RowKeeps DEF Kept
  <2>4. PICK k2 \in CampType : k2 = [k1 EXCEPT !.spent = m] /\ Kept(k1, k2)
    BY RowKeeps DEF Kept
  <2>5. settle(c, k, a) = _after_change(c, k2)
    <3>1. k2 = [k EXCEPT !.committed = n, !.spent = m]
      BY <2>3, <2>4 DEF CampType
    <3> QED BY <2>1, <2>2, <3>1 DEF settle
  <2>6. Kept(k, k2)
    BY <2>3, <2>4 DEF Kept
  <2> QED BY <2>5, <2>6, AfterChangeKeeps, RowKeeps
<1>3. Kept(k, spend_now(c, k, a))
  <2>1. PICK n \in Nat : n = k.spent + a
    BY <1>0
  <2>2. [k EXCEPT !.spent = n] \in CampType /\ Kept(k, [k EXCEPT !.spent = n])
    BY RowKeeps DEF Kept
  <2>3. spend_now(c, k, a) = _after_change(c, [k EXCEPT !.spent = n])
    BY <2>1 DEF spend_now
  <2> QED BY <2>2, <2>3, AfterChangeKeeps, RowKeeps
<1>4. Kept(k, release(c, k, a))
  <2>1. PICK n \in Nat : n = Less(k.committed, a)
    BY <1>0
  <2>2. [k EXCEPT !.committed = n] \in CampType /\ Kept(k, [k EXCEPT !.committed = n])
    BY RowKeeps DEF Kept
  <2>3. release(c, k, a) = Revived(c, [k EXCEPT !.committed = n])
    BY <2>1 DEF release
  <2> QED BY <2>2, <2>3, RowKeeps
<1>5. Kept(k, adjust_reservation(c, k, a, b))
  <2>1. PICK n \in Nat : n = Less(k.committed + b, a)
    BY <1>0
  <2>2. [k EXCEPT !.committed = n] \in CampType /\ Kept(k, [k EXCEPT !.committed = n])
    BY RowKeeps DEF Kept
  <2>3. adjust_reservation(c, k, a, b) = _after_change(c, [k EXCEPT !.committed = n])
    BY <2>1 DEF adjust_reservation
  <2> QED BY <2>2, <2>3, AfterChangeKeeps, RowKeeps
<1> QED BY <1>1, <1>2, <1>3, <1>4, <1>5
-----------------------------------------------------------------------------
\* A key says what it is for and which campaign.
LEMMA CampaignKeyParts ==
  ASSUME NEW key \in CampaignKeys
  PROVE  /\ key[1] \in {"launch", "budget"} /\ key[2] \in Camps
         /\ key[1] = "budget" => key[3] \in 0 .. (Raised - 1) /\ key[4] = Raised
BY DEF CampaignKeys

\* At first there are drafts, and the campaigns wrapped from a promo code.
LEMMA CampaignInitOK == ApprovalInit /\ CampaignInit => CampaignInv
<1> SUFFICES ASSUME ApprovalInit, CampaignInit PROVE CampaignInv
  OBVIOUS
<1>1. ServiceInv(CampaignKeys)
  BY ServiceInit
<1>2. \A r \in Requests : ~Holds(r)
  BY DEF ApprovalInit, Blank, Holds, KEY_HELD_STATUSES
<1>3. PICK kinds \in [Camps -> Kinds] :
        camp = [c \in Camps |-> IF c \in Legacy THEN ensure_legacy_campaign ELSE Draft(kinds[c])]
  BY DEF CampaignInit
<1>4. \A kind \in Kinds : Draft(kind) \in CampType /\ Draft(kind).st = "draft"
  BY CampaignConstants DEF Draft, CampType, OPEN_STATES
<1>5. ensure_legacy_campaign \in CampType
  <2>1. "rider_promo" \in Kinds
    BY DEF Kinds
  <2>2. PICK k \in CampType : k = Draft("rider_promo")
    BY <1>4, <2>1
  <2>3. -1 \in Int
    OBVIOUS
  <2>4. [k EXCEPT !.st = "live", !.phase = "open", !.budget = -1, !.serving = TRUE] \in CampType
    BY <2>3 DEF CampType, OPEN_STATES
  <2> QED BY <2>2, <2>4 DEF ensure_legacy_campaign
<1>6. CampsTyped
  BY <1>3, <1>4, <1>5 DEF CampsTyped
<1>7. \A c \in Camps \ Legacy : camp[c].st = "draft"
  BY <1>3, <1>4
<1>8. LaunchedAsApproved
  BY <1>7 DEF LaunchedAsApproved, LAUNCHED
<1>9. RedsTyped
  <2>1. red = [t \in Trips |-> NoRedemption]
    BY DEF CampaignInit
  <2>2. PICK c : c = NoRedemption.c
    OBVIOUS
  <2>3. NoRedemption = [st |-> "none", amt |-> 0, c |-> c]
    BY <2>2 DEF NoRedemption
  <2> QED BY <2>1, <2>2, <2>3 DEF RedsTyped
<1> QED BY <1>1, <1>2, <1>6, <1>8, <1>9 DEF CampaignInv, LaunchesCurrent

\* A launched campaign stays as it was approved, and only an executed launch adds one.
LEMMA LaunchedStay ==
  ASSUME CampaignInv, ServiceStep(CampaignKeys) \/ UNCHANGED approvalVars,
         \A c \in Camps :
           /\ camp'[c].st \in LAUNCHED => camp'[c].cfg = camp[c].cfg /\ camp'[c].window = camp[c].window
           /\ camp'[c].st \in LAUNCHED =>
                camp[c].st \in LAUNCHED \/ \E r \in Requests : ran'[r] = 1 /\ req'[r].key = LaunchKey(c)
  PROVE  ServiceInv(CampaignKeys)' /\ LaunchedAsApproved'
<1>1. ServiceInv(CampaignKeys)'
  BY ServiceKept DEF CampaignInv
<1>2. ASSUME NEW c \in Camps \ Legacy, camp'[c].st \in LAUNCHED
      PROVE  \E r \in Requests : ran'[r] = 1 /\ req'[r].key = LaunchKey(c)'
  <2>1. PICK k : k = LaunchKey(c)
    OBVIOUS
  <2>2. k = LaunchKey(c)'
    BY <1>2, <2>1 DEF LaunchKey
  <2>3. CASE camp[c].st \in LAUNCHED
    <3>1. TookEffect(k)
      BY <2>1, <2>3 DEF CampaignInv, LaunchedAsApproved, TookEffect
    <3>2. TookEffect(k)'
      BY <3>1, TookEffectLasts DEF CampaignInv
    <3> QED BY <2>2, <3>2 DEF TookEffect
  <2>4. CASE \E r \in Requests : ran'[r] = 1 /\ req'[r].key = LaunchKey(c)
    BY <2>1, <2>2, <2>4
  <2> QED BY <1>2, <2>3, <2>4
<1> QED BY <1>1, <1>2 DEF LaunchedAsApproved

\* A step that raises nothing, and sends no campaign back to draft that a request still stands for.
LEMMA CampaignsMove ==
  ASSUME CampaignInv, Decides \/ RunnerMoves \/ UNCHANGED approvalVars, CampsTyped', RedsTyped',
         \A c \in Camps :
           /\ camp'[c].cfg = camp[c].cfg /\ camp'[c].window = camp[c].window
           /\ camp'[c].st = "draft" =>
                camp[c].st = "draft" \/ \A s \in Requests : Holds(s)' => req[s].key # LaunchKey(c)
           /\ camp'[c].st \in LAUNCHED =>
                camp[c].st \in LAUNCHED \/ \E r \in Requests : ran'[r] = 1 /\ req'[r].key = LaunchKey(c)
  PROVE  CampaignInv'
<1>1. ServiceInv(CampaignKeys)' /\ LaunchedAsApproved'
  BY LaunchedStay DEF ServiceStep
<1>2. LaunchesCurrent'
  <2> SUFFICES ASSUME NEW s \in Requests, Holds(s)', NEW k, k = req'[s].key, k[1] = "launch"
               PROVE  camp'[k[2]].st # "draft" /\ k = LaunchKey(k[2])'
    BY DEF LaunchesCurrent, LaunchKey
  <2>1. Holds(s) /\ k = req[s].key
    BY OthersHold DEF CampaignInv
  <2>2. k[2] \in Camps
    BY <2>1, CampaignKeyParts DEF CampaignInv, ServiceInv, KeysRaised, Holds, KEY_HELD_STATUSES
  <2>3. camp[k[2]].st # "draft" /\ k = LaunchKey(k[2])
    BY <2>1 DEF CampaignInv, LaunchesCurrent
  <2>4. k = LaunchKey(k[2])'
    BY <2>2, <2>3 DEF LaunchKey
  <2> QED BY <2>1, <2>2, <2>3, <2>4
<1> QED BY <1>1, <1>2 DEF CampaignInv

\* One campaign's row is written, by somebody who keeps its terms.
LEMMA CampWritten ==
  ASSUME CampaignInv, Decides \/ RunnerMoves \/ UNCHANGED approvalVars, RedsTyped',
         NEW c \in Camps, NEW row, Kept(camp[c], row), camp' = [camp EXCEPT ![c] = row]
  PROVE  CampaignInv'
<1>1. row \in CampType /\ camp'[c] = row /\ \A d \in Camps \ {c} : camp'[d] = camp[d]
  BY DEF Kept, CampaignInv, CampsTyped
<1>2. CampsTyped'
  BY <1>1 DEF CampaignInv, CampsTyped
<1>3. \A d \in Camps : /\ camp'[d].cfg = camp[d].cfg /\ camp'[d].window = camp[d].window
                       /\ camp'[d].st = "draft" => camp[d].st = "draft"
                       /\ camp'[d].st \in LAUNCHED => camp[d].st \in LAUNCHED
  BY <1>1 DEF Kept
<1> QED BY <1>2, <1>3, CampaignsMove

\* No campaign's row is written.
LEMMA CampsUnchanged ==
  ASSUME CampaignInv, Decides \/ RunnerMoves \/ UNCHANGED approvalVars, RedsTyped', UNCHANGED camp
  PROVE  CampaignInv'
<1>1. CampsTyped'
  BY DEF CampaignInv, CampsTyped
<1> QED BY <1>1, CampaignsMove
\* The steps of a draft: it is edited, or submitted as it then is.
LEMMA DraftSteps ==
  ASSUME CampaignInv, NEW c \in Camps, update_draft(c) \/ \E o \in Makers : propose_launch(c, o)
  PROVE  CampaignInv'
<1>0. camp \in [Camps -> CampType] /\ camp[c] \in CampType /\ camp[c].st = "draft" /\ UNCHANGED red
  BY DEF CampaignInv, CampsTyped, update_draft, propose_launch
<1>1. RedsTyped'
  BY <1>0 DEF CampaignInv, RedsTyped
<1>2. \A s \in Requests : Holds(s) /\ req[s].key[1] = "launch" => req[s].key[2] # c
  BY <1>0 DEF CampaignInv, LaunchesCurrent
<1>3. CASE update_draft(c)
  <2>1. PICK row \in CampType : camp' = [camp EXCEPT ![c] = row] /\ row.st = "draft"
    <3>1. CASE camp' = [camp EXCEPT ![c].cfg = @ + 1]
      <4>1. PICK n \in Nat : n = camp[c].cfg + 1
        BY <1>0 DEF CampType
      <4>2. [camp[c] EXCEPT !.cfg = n] \in CampType /\ [camp[c] EXCEPT !.cfg = n].st = "draft"
        BY <1>0 DEF CampType
      <4>3. camp' = [camp EXCEPT ![c] = [camp[c] EXCEPT !.cfg = n]]
        BY <1>0, <3>1, <4>1
      <4> QED BY <4>2, <4>3
    <3>2. CASE camp' = [camp EXCEPT ![c].window = @ + 1]
      <4>1. PICK n \in Nat : n = camp[c].window + 1
        BY <1>0 DEF CampType
      <4>2. [camp[c] EXCEPT !.window = n] \in CampType /\ [camp[c] EXCEPT !.window = n].st = "draft"
        BY <1>0 DEF CampType
      <4>3. camp' = [camp EXCEPT ![c] = [camp[c] EXCEPT !.window = n]]
        BY <1>0, <3>2, <4>1
      <4> QED BY <4>2, <4>3
    <3> QED BY <1>3, <3>1, <3>2 DEF update_draft
  <2>2. camp'[c] = row /\ \A d \in Camps \ {c} : camp'[d] = camp[d]
    BY <1>0, <2>1
  <2>3. UNCHANGED approvalVars /\ UNCHANGED <<req, ran>>
    BY <1>3 DEF update_draft, approvalVars
  <2>4. ServiceInv(CampaignKeys)' /\ LaunchedAsApproved'
    BY <2>1, <2>2, <2>3, LaunchedStay DEF LAUNCHED
  <2>5. LaunchesCurrent'
    <3> SUFFICES ASSUME NEW s \in Requests, Holds(s), NEW k, k = req[s].key, k[1] = "launch"
                 PROVE  camp'[k[2]].st # "draft" /\ k = LaunchKey(k[2])'
      BY <2>3 DEF LaunchesCurrent, LaunchKey, Holds
    <3>1. k[2] \in Camps \ {c}
      BY <1>2, CampaignKeyParts DEF CampaignInv, ServiceInv, KeysRaised, Holds, KEY_HELD_STATUSES
    <3>2. camp[k[2]].st # "draft" /\ k = LaunchKey(k[2])
      BY DEF CampaignInv, LaunchesCurrent
    <3> QED BY <2>2, <3>1, <3>2 DEF LaunchKey
  <2>6. CampsTyped'
    BY <1>0, <2>1 DEF CampsTyped
  <2> QED BY <1>1, <2>4, <2>5, <2>6 DEF CampaignInv
<1>4. ASSUME NEW o \in Makers, propose_launch(c, o) PROVE CampaignInv'
  <2>1. PICK r \in Requests : require_approval_or_execute(o, LaunchKey(c), TRUE, r)
    BY <1>4 DEF propose_launch
  <2>2. PICK key \in CampaignKeys : key = LaunchKey(c)
    BY <1>0 DEF CampaignKeys, LaunchKey, CampType
  <2>3. Raises(CampaignKeys)
    BY <2>1, <2>2, ApprovalConstants DEF Raises
  <2>4. \A s \in Requests : Holds(s)' => \/ Holds(s) /\ req'[s].key = req[s].key
                                         \/ s = r /\ req'[s].key = key
    BY <2>1, <2>2, RaiserHolds DEF CampaignInv
  <2>5. PICK row \in CampType : /\ camp' = [camp EXCEPT ![c] = row] /\ row.st = "pending"
                                /\ row.cfg = camp[c].cfg /\ row.window = camp[c].window
    <3>1. camp' = [camp EXCEPT ![c] = [camp[c] EXCEPT !.st = "pending"]]
      BY <1>4 DEF propose_launch
    <3>2. [camp[c] EXCEPT !.st = "pending"] \in CampType
      BY <1>0 DEF CampType, OPEN_STATES
    <3> QED BY <1>0, <3>1, <3>2 DEF CampType
  <2>6. camp'[c] = row /\ \A d \in Camps \ {c} : camp'[d] = camp[d]
    BY <1>0, <2>5
  <2>7. ServiceInv(CampaignKeys)' /\ LaunchedAsApproved'
    BY <2>3, <2>5, <2>6, LaunchedStay DEF LAUNCHED, ServiceStep
  <2>8. LaunchesCurrent'
    <3> SUFFICES ASSUME NEW s \in Requests, Holds(s)', NEW k, k = req'[s].key, k[1] = "launch"
                 PROVE  camp'[k[2]].st # "draft" /\ k = LaunchKey(k[2])'
      BY DEF LaunchesCurrent, LaunchKey
    <3>1. CASE Holds(s) /\ k = req[s].key
      <4>1. k[2] \in Camps \ {c}
        BY <1>2, <3>1, CampaignKeyParts DEF CampaignInv, ServiceInv, KeysRaised, Holds, KEY_HELD_STATUSES
      <4>2. camp[k[2]].st # "draft" /\ k = LaunchKey(k[2])
        BY <3>1 DEF CampaignInv, LaunchesCurrent
      <4> QED BY <2>6, <4>1, <4>2 DEF LaunchKey
    <3>2. CASE k = key
      <4>1. k[2] = c
        BY <2>2, <3>2 DEF LaunchKey
      <4>2. k = <<"launch", c, row.cfg, row.window>>
        BY <2>2, <2>5, <3>2 DEF LaunchKey
      <4> QED BY <2>5, <2>6, <4>1, <4>2 DEF LaunchKey
    <3> QED BY <2>4, <3>1, <3>2
  <2>9. CampsTyped'
    BY <1>0, <2>5 DEF CampsTyped
  <2> QED BY <1>1, <2>7, <2>8, <2>9 DEF CampaignInv
<1> QED BY <1>3, <1>4

\* A budget request concerns no launch.
LEMMA BudgetProposed ==
  ASSUME CampaignInv, NEW c \in Camps, NEW o \in Makers, propose_budget_increase(c, o)
  PROVE  CampaignInv'
<1>0. camp \in [Camps -> CampType] /\ UNCHANGED <<camp, red>>
  BY DEF CampaignInv, CampsTyped, propose_budget_increase, campaignVars
<1>1. PICK r \in Requests :
        require_approval_or_execute(o, <<"budget", c, camp[c].budget, Raised>>, TRUE, r)
  BY DEF propose_budget_increase
<1>2. PICK key \in CampaignKeys : key = <<"budget", c, camp[c].budget, Raised>>
  <2>1. camp[c].budget \in 0 .. (Raised - 1)
    BY <1>0, CampaignConstants DEF propose_budget_increase, Budgeted, CampType
  <2> QED BY <2>1 DEF CampaignKeys
<1>3. Raises(CampaignKeys)
  BY <1>1, <1>2, ApprovalConstants DEF Raises
<1>4. \A s \in Requests : Holds(s)' => \/ Holds(s) /\ req'[s].key = req[s].key
                                       \/ s = r /\ req'[s].key = key
  BY <1>1, <1>2, RaiserHolds DEF CampaignInv
<1>5. ServiceInv(CampaignKeys)' /\ LaunchedAsApproved'
  BY <1>0, <1>3, LaunchedStay DEF ServiceStep
<1>6. LaunchesCurrent'
  <2> SUFFICES ASSUME NEW s \in Requests, Holds(s)', NEW k, k = req'[s].key, k[1] = "launch"
               PROVE  camp[k[2]].st # "draft" /\ k = LaunchKey(k[2])
    BY <1>0 DEF LaunchesCurrent, LaunchKey
  <2>1. k # key
    BY <1>2
  <2>2. Holds(s) /\ k = req[s].key
    BY <1>4, <2>1
  <2> QED BY <2>2 DEF CampaignInv, LaunchesCurrent
<1>7. CampsTyped' /\ RedsTyped'
  BY <1>0 DEF CampaignInv, CampsTyped, RedsTyped
<1> QED BY <1>5, <1>6, <1>7 DEF CampaignInv

\* What an operator or the sweep does to a campaign, and the passing of its window.
LEMMA WorkflowSteps ==
  ASSUME CampaignInv, NEW c \in Camps, WorkflowStep(c)
  PROVE  CampaignInv'
<1>0. camp \in [Camps -> CampType] /\ camp[c] \in CampType
  BY DEF CampaignInv, CampsTyped
<1>1. ASSUME NEW allowed, NEW new, NEW active \in BOOLEAN, _transition(c, allowed, new, active),
             new \in {"live", "scheduled", "paused", "ended", "cancelled"},
             new \in LAUNCHED => camp[c].st \in LAUNCHED
      PROVE  CampaignInv'
  <2> DEFINE serving == active /\ camp[c].kind = "rider_promo"
             row == [camp[c] EXCEPT !.st = new, !.serving = serving]
  <2>1. /\ camp' = [camp EXCEPT ![c] = _sync_serving_rows([camp[c] EXCEPT !.st = new], active)]
        /\ UNCHANGED approvalVars /\ UNCHANGED red
    BY <1>1 DEF _transition
  <2>2. serving \in BOOLEAN
    OBVIOUS
  <2>3. _sync_serving_rows([camp[c] EXCEPT !.st = new], active) = row
    BY <1>0 DEF _sync_serving_rows, CampType
  <2> HIDE DEF serving
  <2>4. row \in CampType
    BY <1>0, <1>1, <2>2 DEF CampType, OPEN_STATES
  <2>5. row.st = new /\ row.cfg = camp[c].cfg /\ row.window = camp[c].window
    BY <1>0 DEF CampType
  <2> HIDE DEF row
  <2>6. Kept(camp[c], row)
    BY <1>1, <2>4, <2>5 DEF Kept
  <2>7. RedsTyped'
    BY <2>1 DEF CampaignInv, RedsTyped
  <2> QED BY <2>1, <2>3, <2>6, <2>7, CampWritten
<1>2. CASE pause(c)
  <2>1. camp[c].st \in LAUNCHED
    BY <1>2 DEF pause, _transition, LAUNCHED
  <2> QED BY <1>1, <1>2, <2>1 DEF pause
<1>3. CASE resume(c)
  <2>1. camp[c].st \in LAUNCHED
    BY <1>3 DEF resume, _transition, LAUNCHED
  <2>2. \/ _transition(c, {"paused"}, "live", TRUE)
        \/ _transition(c, {"paused"}, "scheduled", FALSE)
    BY <1>3 DEF resume, _transition, _sync_serving_rows
  <2> QED BY <1>1, <2>1, <2>2
<1>4. CASE cancel_campaign(c)
  <2>1. "cancelled" \notin LAUNCHED
    BY DEF LAUNCHED
  <2> QED BY <1>1, <1>4, <2>1 DEF cancel_campaign
<1>5. CASE sweep_starts(c)
  <2>1. camp[c].st \in LAUNCHED
    BY <1>5 DEF sweep_starts, _transition, LAUNCHED
  <2> QED BY <1>1, <1>5, <2>1 DEF sweep_starts
<1>6. CASE sweep_ends(c)
  <2>1. camp[c].st \in LAUNCHED
    BY <1>6 DEF sweep_ends, _transition
  <2> QED BY <1>1, <1>6, <2>1 DEF sweep_ends
<1>7. CASE WindowMoves(c)
  <2> DEFINE phase == IF camp[c].phase = "before" THEN "open" ELSE "passed"
             row == [camp[c] EXCEPT !.phase = phase]
  <2>1. camp' = [camp EXCEPT ![c] = row] /\ UNCHANGED approvalVars /\ UNCHANGED red
    BY <1>7 DEF WindowMoves
  <2>2. phase \in {"open", "passed"}
    OBVIOUS
  <2> HIDE DEF phase
  <2>3. Kept(camp[c], row)
    BY <1>0, <2>2 DEF Kept, CampType
  <2> HIDE DEF row
  <2>4. RedsTyped'
    BY <2>1 DEF CampaignInv, RedsTyped
  <2> QED BY <2>1, <2>3, <2>4, CampWritten
<1>8. CASE attach(c)
  <2>1. UNCHANGED approvalVars /\ UNCHANGED <<camp, red>>
    BY <1>8 DEF attach
  <2>2. RedsTyped'
    BY <2>1 DEF CampaignInv, RedsTyped
  <2> QED BY <2>1, <2>2, CampsUnchanged
<1> QED BY <1>2, <1>3, <1>4, <1>5, <1>6, <1>7, <1>8, DraftSteps, BudgetProposed DEF WorkflowStep
\* The executors, the closed requests, and the service's own steps.
LEMMA ApprovalSteps ==
  ASSUME CampaignInv, NEW r \in Requests, ApprovalStep(r)
  PROVE  CampaignInv'
<1>0. camp \in [Camps -> CampType] /\ ServiceInv(CampaignKeys)
  BY DEF CampaignInv, CampsTyped
<1>1. CASE (_finish(r) \/ RunnerDies(r) \/ \E o \in Operators : approve(r, o)) /\ UNCHANGED campaignVars
  <2>1. (Decides \/ RunnerMoves) /\ UNCHANGED <<camp, red>>
    BY <1>1 DEF Decides, RunnerMoves, campaignVars
  <2>2. RedsTyped'
    BY <2>1 DEF CampaignInv, RedsTyped
  <2> QED BY <2>1, <2>2, CampsUnchanged
<1>2. ASSUME expire_stale(r) \/ \E o \in Operators : reject(r, o) \/ cancel(r, o), launch_request_closed(r)
      PROVE  CampaignInv'
  <2>1. Decides
    BY <1>2 DEF Decides
  <2>2. Holds(r) /\ ~Holds(r)' /\ req[r].key \in CampaignKeys
    BY <1>0, <1>2, ClosedHoldsNothing
  <2>3. PICK c \in Camps : c = req[r].key[2]
    BY <2>2, CampaignKeyParts
  <2>4. UNCHANGED red
    BY <1>2 DEF launch_request_closed
  <2>5. RedsTyped'
    BY <2>4 DEF CampaignInv, RedsTyped
  <2>6. CASE req[r].key[1] # "launch"
    <3>1. UNCHANGED camp
      BY <1>2, <2>6 DEF launch_request_closed
    <3> QED BY <2>1, <2>5, <3>1, CampsUnchanged
  <2>7. CASE req[r].key[1] = "launch"
    <3> DEFINE st == IF camp[c].st = "pending" THEN "draft" ELSE camp[c].st
               row == [camp[c] EXCEPT !.st = st]
    <3>1. camp' = [camp EXCEPT ![c] = row]
      BY <1>2, <2>3, <2>7 DEF launch_request_closed
    <3>2. st = camp[c].st \/ (camp[c].st = "pending" /\ st = "draft")
      OBVIOUS
    <3> HIDE DEF st
    <3>3. /\ row \in CampType /\ row.st = st
          /\ row.cfg = camp[c].cfg /\ row.window = camp[c].window
      BY <1>0, <3>2 DEF CampType, OPEN_STATES
    <3> HIDE DEF row
    <3>4. camp'[c] = row /\ \A d \in Camps \ {c} : camp'[d] = camp[d]
      BY <1>0, <3>1
    <3>5. req[r].key = LaunchKey(c)
      BY <2>2, <2>3, <2>7 DEF CampaignInv, LaunchesCurrent
    <3>6. \A s \in Requests : Holds(s)' => req[s].key # LaunchKey(c)
      <4>1. \A s \in Requests : Holds(s)' => Holds(s) /\ s # r
        BY <1>0, <2>1, <2>2, OthersHold
      <4> QED BY <1>0, <2>2, <3>5, <4>1 DEF ServiceInv, OneHolder, Holds
    <3>7. CampsTyped'
      BY <1>0, <3>1, <3>3 DEF CampsTyped
    <3>8. \A d \in Camps : camp'[d].st \in LAUNCHED => camp[d].st \in LAUNCHED
      BY <3>2, <3>3, <3>4 DEF LAUNCHED
    <3>9. \A d \in Camps : /\ camp'[d].cfg = camp[d].cfg /\ camp'[d].window = camp[d].window
                           /\ camp'[d].st = "draft" =>
                                camp[d].st = "draft" \/ \A s \in Requests : Holds(s)' => req[s].key # LaunchKey(d)
      BY <3>3, <3>4, <3>6
    <3> QED BY <2>1, <2>5, <3>7, <3>8, <3>9, CampaignsMove
  <2> QED BY <2>6, <2>7
<1>3. CASE execute_launch(r) \/ execute_budget_increase(r)
  <2>1. /\ runner[r] = "run" /\ UNCHANGED red /\ (Executes(r) \/ Refuses(r))
    BY <1>3 DEF execute_launch, execute_budget_increase
  <2>2. /\ Holds(r) /\ req[r].key \in CampaignKeys
        /\ Executes(r) => ran'[r] = 1 /\ UNCHANGED req
    BY <1>0, <1>3, RunnerHolds DEF execute_launch, execute_budget_increase
  <2>3. PICK c \in Camps : c = req[r].key[2]
    BY <2>2, CampaignKeyParts
  <2>4. RunnerMoves
    BY <1>3 DEF RunnerMoves, execute_launch, execute_budget_increase
  <2>5. RedsTyped'
    <3>1. UNCHANGED red
      BY <1>3 DEF execute_launch, execute_budget_increase
    <3> QED BY <3>1 DEF CampaignInv, RedsTyped
  <2>6. CASE UNCHANGED camp
    BY <2>4, <2>5, <2>6, CampsUnchanged
  <2>7. CASE execute_launch(r) /\ ~UNCHANGED camp
    <3> DEFINE now == camp[c].phase = "open"
               st == IF now THEN "live" ELSE "scheduled"
               serving == now /\ camp[c].kind = "rider_promo"
               row == [camp[c] EXCEPT !.st = st, !.serving = serving]
    <3>1. /\ Executes(r) /\ req[r].key[1] = "launch"
          /\ camp' = [camp EXCEPT ![c] = _sync_serving_rows([camp[c] EXCEPT !.st = st], now)]
      BY <2>3, <2>7 DEF execute_launch
    <3>2. _sync_serving_rows([camp[c] EXCEPT !.st = st], now) = row
      BY <1>0 DEF _sync_serving_rows, CampType
    <3>3. st \in {"live", "scheduled"} /\ serving \in BOOLEAN
      OBVIOUS
    <3> HIDE DEF st, serving
    <3>4. /\ row \in CampType /\ row.st = st
          /\ row.cfg = camp[c].cfg /\ row.window = camp[c].window
      BY <1>0, <3>3 DEF CampType, OPEN_STATES
    <3> HIDE DEF row
    <3>5. camp' = [camp EXCEPT ![c] = row]
      BY <3>1, <3>2
    <3>6. camp'[c] = row /\ \A d \in Camps \ {c} : camp'[d] = camp[d]
      BY <1>0, <3>5
    <3>7. ran'[r] = 1 /\ req'[r].key = LaunchKey(c)
      BY <2>2, <2>3, <3>1 DEF CampaignInv, LaunchesCurrent
    <3>8. CampsTyped'
      BY <1>0, <3>4, <3>5 DEF CampsTyped
    <3>9. \A d \in Camps :
            /\ camp'[d].cfg = camp[d].cfg /\ camp'[d].window = camp[d].window
            /\ camp'[d].st = "draft" => camp[d].st = "draft"
            /\ camp'[d].st \in LAUNCHED =>
                 camp[d].st \in LAUNCHED \/ \E q \in Requests : ran'[q] = 1 /\ req'[q].key = LaunchKey(d)
      BY <3>3, <3>4, <3>6, <3>7
    <3> QED BY <2>4, <2>5, <3>8, <3>9, CampaignsMove
  <2>8. CASE execute_budget_increase(r) /\ ~UNCHANGED camp
    <3>1. /\ req[r].key[1] = "budget"
          /\ camp' = [camp EXCEPT ![c] = Revived(c, [camp[c] EXCEPT !.budget = req[r].key[4]])]
      BY <2>3, <2>8 DEF execute_budget_increase
    <3>2. req[r].key[4] = Raised /\ Raised \in Int
      BY <2>2, <3>1, CampaignKeyParts, CampaignConstants
    <3>3. PICK k \in CampType : k = [camp[c] EXCEPT !.budget = Raised] /\ Kept(camp[c], k)
      <4>1. [camp[c] EXCEPT !.budget = Raised] \in CampType
        BY <1>0, <3>2 DEF CampType
      <4>2. Kept(camp[c], [camp[c] EXCEPT !.budget = Raised])
        BY <1>0, <4>1 DEF Kept, CampType
      <4> QED BY <4>1, <4>2
    <3>4. PICK row : row = Revived(c, k)
      OBVIOUS
    <3>5. Kept(camp[c], row)
      BY <3>3, <3>4, RowKeeps DEF Kept
    <3>6. camp' = [camp EXCEPT ![c] = row]
      BY <3>1, <3>2, <3>3, <3>4
    <3> QED BY <2>4, <2>5, <3>5, <3>6, CampWritten
  <2> QED BY <1>3, <2>6, <2>7, <2>8
<1> QED BY <1>1, <1>2, <1>3 DEF ApprovalStep

\* A redemption's row is written with the campaign's.
LEMMA RedWritten ==
  ASSUME CampaignInv, NEW t \in Trips, NEW st \in {"none", "committed", "settled", "released"}, NEW a \in Nat,
         NEW c \in Camps, red' = [red EXCEPT ![t] = [st |-> st, amt |-> a, c |-> c]]
  PROVE  RedsTyped'
BY DEF CampaignInv, RedsTyped

\* Giving back a redemption, from the callback, an operator's end or the sweep.
LEMMA ReleasedOK ==
  ASSUME CampaignInv, NEW t \in Trips, Released(t), UNCHANGED approvalVars
  PROVE  CampaignInv'
<1>1. CASE UNCHANGED <<camp, red>>
  <2>1. RedsTyped'
    BY <1>1 DEF CampaignInv, RedsTyped
  <2> QED BY <1>1, <2>1, CampsUnchanged
<1>2. CASE ~UNCHANGED <<camp, red>>
  <2>0. red[t].st = "committed"
    BY <1>2 DEF Released
  <2>1. /\ camp \in [Camps -> CampType] /\ red[t].amt \in Nat
    BY DEF CampaignInv, CampsTyped, RedsTyped
  <2>2. PICK c \in Camps : c = red[t].c
    BY <2>0 DEF CampaignInv, RedsTyped
  <2>3. /\ camp' = [camp EXCEPT ![c] = release(c, [camp[c] EXCEPT !.uses = Less(@, 1)], red[t].amt)]
        /\ red' = [red EXCEPT ![t].st = "released"]
    BY <1>2, <2>2 DEF Released
  <2>4. PICK n \in Nat : n = Less(camp[c].uses, 1)
    BY <2>1 DEF Less, CampType
  <2>5. PICK k \in CampType : k = [camp[c] EXCEPT !.uses = n] /\ Kept(camp[c], k)
    <3>1. Kept(camp[c], [camp[c] EXCEPT !.uses = n])
      BY <2>1, RowKeeps
    <3>2. [camp[c] EXCEPT !.uses = n] \in CampType
      BY <3>1 DEF Kept
    <3> QED BY <3>1, <3>2
  <2>6. PICK row : row = release(c, k, red[t].amt)
    OBVIOUS
  <2>7. Kept(camp[c], row)
    <3>1. Kept(k, row)
      BY <2>1, <2>6, LedgerKeeps
    <3> QED BY <2>5, <3>1 DEF Kept
  <2>8. camp' = [camp EXCEPT ![c] = row]
    BY <2>3, <2>4, <2>5, <2>6
  <2>9. RedsTyped'
    BY <2>0, <2>3 DEF CampaignInv, RedsTyped
  <2> QED BY <2>7, <2>8, <2>9, CampWritten
<1> QED BY <1>1, <1>2

\* A reward: the campaign spends it, or nothing is written.
LEMMA PaysOK ==
  ASSUME CampaignInv, NEW c \in Camps, NEW unpaid, Pays(c, unpaid), UNCHANGED approvalVars, UNCHANGED red
  PROVE  CampaignInv'
<1>0. camp \in [Camps -> CampType] /\ RedsTyped'
  BY DEF CampaignInv, CampsTyped, RedsTyped
<1>1. CASE UNCHANGED camp
  BY <1>0, <1>1, CampsUnchanged
<1>2. CASE camp' = [camp EXCEPT ![c] = spend_now(c, @, Reward)]
  <2>1. PICK row : row = spend_now(c, camp[c], Reward)
    OBVIOUS
  <2>2. Reward \in Nat
    BY CampaignConstants
  <2>3. Kept(camp[c], row)
    BY <1>0, <2>1, <2>2, LedgerKeeps
  <2> QED BY <1>0, <1>2, <2>1, <2>3, CampWritten
<1> QED BY <1>1, <1>2 DEF Pays

\* What a ride does to its redemption and to the campaigns that count it.
LEMMA TripSteps ==
  ASSUME CampaignInv, NEW t \in Trips, TripStep(t)
  PROVE  CampaignInv'
<1>0. camp \in [Camps -> CampType] /\ (UNCHANGED red => RedsTyped') /\ red[t].amt \in Nat
  BY DEF CampaignInv, CampsTyped, RedsTyped
<1>1. UNCHANGED approvalVars
  BY DEF TripStep, CompleteTrip, CancelTrip, settle_trip, release_for_trip, apply_operator_end,
         TaskSkips, redeem_promo, on_trip_completed, count_trip
<1>2. CASE CompleteTrip(t) \/ CancelTrip(t) \/ TaskSkips(t) \/ \E c \in Camps : on_trip_completed(c, t)
  <2>1. UNCHANGED <<camp, red>>
    BY <1>2 DEF CompleteTrip, CancelTrip, TaskSkips, on_trip_completed
  <2> QED BY <1>0, <1>1, <2>1, CampsUnchanged
<1>3. CASE settle_trip(t)
  <2>1. red[t].st = "committed" /\ red' = [red EXCEPT ![t].st = "settled"]
    BY <1>3 DEF settle_trip
  <2>2. PICK c \in Camps : c = red[t].c
    BY <2>1 DEF CampaignInv, RedsTyped
  <2>3. PICK row : row = settle(c, camp[c], red[t].amt)
    OBVIOUS
  <2>4. camp' = [camp EXCEPT ![c] = row]
    BY <1>3, <2>2, <2>3 DEF settle_trip
  <2>5. Kept(camp[c], row)
    BY <1>0, <2>3, LedgerKeeps
  <2>6. RedsTyped'
    BY <2>1 DEF CampaignInv, RedsTyped
  <2> QED BY <1>1, <2>4, <2>5, <2>6, CampWritten
<1>4. CASE release_for_trip(t)
  BY <1>1, <1>4, ReleasedOK DEF release_for_trip
<1>5. CASE apply_operator_end(t)
  <2>1. CASE Released(t)
    BY <1>1, <2>1, ReleasedOK
  <2>2. CASE UNCHANGED <<camp, red>>
    BY <1>0, <1>1, <2>2, CampsUnchanged
  <2>3. ASSUME NEW new \in Discounts \cup {0}, red[t].st = "committed",
               camp' = [camp EXCEPT ![red[t].c] = adjust_reservation(red[t].c, @, red[t].amt, new)],
               red' = [red EXCEPT ![t].amt = new]
        PROVE  CampaignInv'
    <3>1. PICK c \in Camps : c = red[t].c
      BY <2>3 DEF CampaignInv, RedsTyped
    <3>2. new \in Nat
      BY CampaignConstants
    <3>3. PICK row : row = adjust_reservation(c, camp[c], red[t].amt, new)
      OBVIOUS
    <3>4. camp' = [camp EXCEPT ![c] = row]
      BY <2>3, <3>1, <3>3
    <3>5. Kept(camp[c], row)
      BY <1>0, <3>2, <3>3, LedgerKeeps
    <3>6. RedsTyped'
      BY <2>3, <3>2 DEF CampaignInv, RedsTyped
    <3> QED BY <1>1, <3>4, <3>5, <3>6, CampWritten
  <2> QED BY <1>5, <2>1, <2>2, <2>3 DEF apply_operator_end
<1>6. ASSUME NEW c \in Camps, NEW a \in Discounts, redeem_promo(t, c, a) PROVE CampaignInv'
  <2>1. /\ camp' = [camp EXCEPT ![c] = reserve(c, [camp[c] EXCEPT !.uses = @ + 1], a)]
        /\ red' = [red EXCEPT ![t] = [st |-> "committed", amt |-> a, c |-> c]]
    BY <1>6 DEF redeem_promo
  <2>2. a \in Nat
    BY CampaignConstants
  <2>3. PICK n \in Nat : n = camp[c].uses + 1
    BY <1>0 DEF CampType
  <2>4. PICK k \in CampType : k = [camp[c] EXCEPT !.uses = n] /\ Kept(camp[c], k)
    <3>1. Kept(camp[c], [camp[c] EXCEPT !.uses = n])
      BY <1>0, RowKeeps
    <3>2. [camp[c] EXCEPT !.uses = n] \in CampType
      BY <3>1 DEF Kept
    <3> QED BY <3>1, <3>2
  <2>5. PICK row : row = reserve(c, k, a)
    OBVIOUS
  <2>6. Kept(camp[c], row)
    <3>1. Kept(k, row)
      BY <2>2, <2>5, LedgerKeeps
    <3> QED BY <2>4, <3>1 DEF Kept
  <2>7. camp' = [camp EXCEPT ![c] = row]
    BY <2>1, <2>3, <2>4, <2>5
  <2>8. RedsTyped'
    BY <2>1, <2>2, RedWritten
  <2> QED BY <1>1, <2>6, <2>7, <2>8, CampWritten
<1>7. ASSUME NEW c \in Camps, count_trip(c, t) PROVE CampaignInv'
  <2>1. UNCHANGED red /\ (UNCHANGED camp \/ \E unpaid : Pays(c, unpaid))
    BY <1>7 DEF count_trip, Qualified
  <2> QED BY <1>0, <1>1, <2>1, CampsUnchanged, PaysOK
<1> QED BY <1>2, <1>3, <1>4, <1>5, <1>6, <1>7 DEF TripStep

\* The periodic sweep.
LEMMA SweepSteps ==
  ASSUME CampaignInv, Sweep
  PROVE  CampaignInv'
<1>0. UNCHANGED red => RedsTyped'
  BY DEF CampaignInv, RedsTyped
<1>1. CASE release_cancelled
  BY <1>0, <1>1, CampsUnchanged DEF release_cancelled
<1>2. CASE retry_qualified
  BY <1>2, PaysOK DEF retry_qualified
<1>3. ASSUME NEW t \in Trips, SweepReleases(t) PROVE CampaignInv'
  BY <1>3, ReleasedOK DEF SweepReleases
<1> QED BY <1>1, <1>2, <1>3 DEF Sweep

\* Every step of the composition keeps the invariant.
LEMMA CampaignStep == CampaignInv /\ [CampaignNext]_<<approvalVars, campaignVars>> => CampaignInv'
<1> SUFFICES ASSUME CampaignInv, [CampaignNext]_<<approvalVars, campaignVars>> PROVE CampaignInv'
  OBVIOUS
<1>1. CASE UNCHANGED <<approvalVars, campaignVars>>
  <2>1. UNCHANGED approvalVars /\ UNCHANGED <<camp, red>>
    BY <1>1 DEF campaignVars
  <2>2. RedsTyped'
    BY <2>1 DEF CampaignInv, RedsTyped
  <2> QED BY <2>1, <2>2, CampsUnchanged
<1>2. CASE CampaignNext
  BY <1>2, WorkflowSteps, ApprovalSteps, TripSteps, SweepSteps DEF CampaignNext
<1> QED BY <1>1, <1>2

\* A launched campaign runs on exactly the terms and the window a second person approved, although
\* the draft can be edited, sent back and submitted again and execute_launch compares only part of
\* them, for any number of campaigns, edits, redemptions and requests.
THEOREM CampaignsLaunchedAsApproved == CampaignSpec => []LaunchedAsApproved
<1>1. ApprovalInit /\ CampaignInit => CampaignInv
  BY CampaignInitOK
<1>2. CampaignInv => LaunchedAsApproved
  BY DEF CampaignInv
<1> QED BY <1>1, <1>2, CampaignStep, PTL DEF CampaignSpec

\* The maker-checker service keeps its promise under the promotion campaigns.
THEOREM CampaignsRunOnce == CampaignSpec => []RunsAtMostOnce
<1>1. ApprovalInit /\ CampaignInit => CampaignInv
  BY CampaignInitOK
<1>2. CampaignInv => RunsAtMostOnce
  BY RunsOnce DEF CampaignInv
<1> QED BY <1>1, <1>2, CampaignStep, PTL DEF CampaignSpec
-----------------------------------------------------------------------------
(* The campaign's counters.  Each is a sum, or a number, of the redemption  *)
(* rows of the campaign, and every action writes at most one of those rows: *)
(* the counters move by what that row counts before and after.              *)

RedRow == [st : {"none", "committed", "settled", "released"}, amt : Nat, c : Camps \cup {NoRedemption.c}]

Of(rows, S, c, st) == {t \in S : rows[t].c = c /\ rows[t].st = st}
Counted(rows, S, c) == {t \in S : rows[t].c = c /\ rows[t].st \in {"committed", "settled"}}
DiscountsOf(rows, S) == MapThenSumSet(LAMBDA t : rows[t].amt, S)
Total(rows, c, st) == DiscountsOf(rows, Of(rows, Trips, c, st))

\* What one row counts for, and what a reward does.
In(row, c, st) == IF row.c = c /\ row.st = st THEN row.amt ELSE 0
One(row, c) == IF row.c = c /\ row.st \in {"committed", "settled"} THEN 1 ELSE 0
Rewarded(e) == IF e = "completed" THEN Reward ELSE 0

\* Usage beyond the budget is on record.
Books(k) == k.budget >= 0 => Used(k) <= k.budget + k.over

Balanced(k, e, rows, c) ==
  /\ k.committed = Total(rows, c, "committed")
  /\ k.spent = Total(rows, c, "settled") + Rewarded(e)
  /\ k.uses = Cardinality(Counted(rows, Trips, c))
  /\ Books(k)

EarnedStates == {"none", "in_progress", "completed", "unfunded", "qualified", "blocked"}

BudgetInv ==
  /\ CampaignInv /\ earned \in [Camps -> EarnedStates]
  /\ \A c \in Camps : Balanced(camp[c], earned[c], red, c)

\* The sums of the specification are these.
LEMMA SumsAre ==
  ASSUME NEW c, NEW st
  PROVE  SumOver(c, st) = Total(red, c, st)
BY DEF SumOver, Total, DiscountsOf, Of, MapThenSumSet, MapThenFoldSet

\* The library's sum of the discounts is a sum in the sense of the lemmas on sums.
LEMMA DiscountsAre ==
  ASSUME NEW rows, NEW S, IsFiniteSet(S)
  PROVE  DiscountsOf(rows, S) = SumOf([t \in S |-> rows[t].amt], S)
<1> DEFINE F == [t \in S |-> rows[t].amt]
           P(i) == i = [s \in SUBSET S |->
                          IF s = {} THEN 0
                          ELSE rows[CHOOSE x \in s : TRUE].amt + i[s \ {CHOOSE x \in s : TRUE}]]
           it == CHOOSE i : P(i)
<1>1. \A i : IsSum(i, F, S) <=> P(i)
  <2>1. \A s \in SUBSET S : s # {} => F[Chosen(s)] = rows[CHOOSE x \in s : TRUE].amt
    BY ChosenIn DEF Chosen
  <2> QED BY <2>1 DEF IsSum, Chosen
<1>2. IsSum(it, F, S)
  <2>1. \E i : IsSum(i, F, S)
    BY SumExists
  <2> HIDE DEF P
  <2>2. \E i : P(i)
    BY <1>1, <2>1
  <2> QED BY <1>1, <2>2
<1>3. DiscountsOf(rows, S) = it[S]
  BY DEF DiscountsOf, MapThenSumSet, MapThenFoldSet
<1>4. PICK j : IsSum(j, F, S) /\ SumOf(F, S) = j[S]
  BY SumIs
<1>5. it[S] = j[S]
  BY <1>2, <1>4, SumUnique
<1> QED BY <1>3, <1>4, <1>5

\* A sum of discounts is a number, and is the same for rows that agree.
LEMMA DiscountsSame ==
  ASSUME NEW rows, NEW new, NEW S, IsFiniteSet(S), \A t \in S : rows[t].amt \in Nat /\ new[t] = rows[t]
  PROVE  DiscountsOf(rows, S) \in Nat /\ DiscountsOf(new, S) = DiscountsOf(rows, S)
<1> DEFINE F == [t \in S |-> rows[t].amt]
           G == [t \in S |-> new[t].amt]
<1>1. \A t \in S : F[t] \in Nat /\ F[t] = G[t]
  OBVIOUS
<1>2. DiscountsOf(rows, S) = SumOf(F, S) /\ DiscountsOf(new, S) = SumOf(G, S)
  BY DiscountsAre
<1> HIDE DEF F, G
<1>3. SumOf(F, S) \in Nat
  BY <1>1, SumNat
<1>4. SumOf(F, S) = SumOf(G, S)
  BY <1>1, SumSame
<1> QED BY <1>2, <1>3, <1>4

\* One redemption more adds its discount.
LEMMA DiscountsAdd ==
  ASSUME NEW rows, NEW S, IsFiniteSet(S), NEW t, t \notin S, \A x \in S \cup {t} : rows[x].amt \in Nat
  PROVE  DiscountsOf(rows, S \cup {t}) = DiscountsOf(rows, S) + rows[t].amt
<1>1. PICK T : T = S \cup {t} /\ IsFiniteSet(T)
  BY FS_AddElement
<1> DEFINE F == [x \in S |-> rows[x].amt]
           G == [x \in T |-> rows[x].amt]
<1>2. (\A x \in S : F[x] = G[x]) /\ (\A x \in S \cup {t} : G[x] \in Nat) /\ G[t] = rows[t].amt
  BY <1>1
<1>3. DiscountsOf(rows, S) = SumOf(F, S) /\ DiscountsOf(rows, T) = SumOf(G, T)
  BY <1>1, DiscountsAre
<1> HIDE DEF F, G
<1>4. SumOf(F, S) = SumOf(G, S)
  BY <1>2, SumSame
<1>5. SumOf(G, S \cup {t}) = SumOf(G, S) + G[t]
  BY <1>2, SumAdd
<1> QED BY <1>1, <1>2, <1>3, <1>4, <1>5

\* A campaign's sum is a number.
LEMMA TotalNat ==
  ASSUME NEW rows \in [Trips -> RedRow], NEW c, NEW st
  PROVE  Total(rows, c, st) \in Nat
<1>1. PICK S : S = Of(rows, Trips, c, st)
  OBVIOUS
<1>2. S \in SUBSET Trips
  BY <1>1 DEF Of
<1>3. IsFiniteSet(S)
  BY <1>2, FS_Subset, CampaignConstants
<1>4. \A t \in S : rows[t].amt \in Nat
  BY <1>2 DEF RedRow
<1> QED BY <1>1, <1>3, <1>4, DiscountsSame DEF Total

\* A campaign's sum is what one trip counts for and what the other trips do.
LEMMA TotalSplit ==
  ASSUME NEW rows \in [Trips -> RedRow], NEW t \in Trips, NEW c, NEW st
  PROVE  /\ DiscountsOf(rows, Of(rows, Trips \ {t}, c, st)) \in Nat
         /\ Total(rows, c, st) = DiscountsOf(rows, Of(rows, Trips \ {t}, c, st)) + In(rows[t], c, st)
<1>1. PICK R : R = Of(rows, Trips \ {t}, c, st)
  OBVIOUS
<1>2. R \subseteq Trips /\ t \notin R /\ IsFiniteSet(R)
  <2>1. R \in SUBSET Trips /\ t \notin R
    BY <1>1 DEF Of
  <2> QED BY <2>1, FS_Subset, CampaignConstants
<1>3. \A x \in Trips : rows[x].amt \in Nat
  BY DEF RedRow
<1>4. DiscountsOf(rows, R) \in Nat
  BY <1>2, <1>3, DiscountsSame
<1>5. CASE rows[t].c = c /\ rows[t].st = st
  <2>1. Of(rows, Trips, c, st) = R \cup {t}
    BY <1>1, <1>5 DEF Of
  <2>2. DiscountsOf(rows, R \cup {t}) = DiscountsOf(rows, R) + rows[t].amt
    <3>1. \A x \in R \cup {t} : rows[x].amt \in Nat
      BY <1>2, <1>3
    <3> QED BY <1>2, <3>1, DiscountsAdd
  <2> QED BY <1>1, <1>4, <1>5, <2>1, <2>2 DEF Total, In
<1>6. CASE ~(rows[t].c = c /\ rows[t].st = st)
  <2>1. Of(rows, Trips, c, st) = R
    BY <1>1, <1>6 DEF Of
  <2> QED BY <1>1, <1>4, <1>6, <2>1 DEF Total, In
<1> QED BY <1>5, <1>6

\* So is the number of its redemptions.
LEMMA CountSplit ==
  ASSUME NEW rows \in [Trips -> RedRow], NEW t \in Trips, NEW c
  PROVE  /\ Cardinality(Counted(rows, Trips \ {t}, c)) \in Nat
         /\ Cardinality(Counted(rows, Trips, c)) = Cardinality(Counted(rows, Trips \ {t}, c)) + One(rows[t], c)
<1>1. PICK R : R = Counted(rows, Trips \ {t}, c)
  OBVIOUS
<1>2. t \notin R /\ IsFiniteSet(R)
  <2>1. R \in SUBSET Trips /\ t \notin R
    BY <1>1 DEF Counted
  <2> QED BY <2>1, FS_Subset, CampaignConstants
<1>3. Cardinality(R) \in Nat
  BY <1>2, FS_CardinalityType
<1>4. CASE rows[t].c = c /\ rows[t].st \in {"committed", "settled"}
  <2>1. Counted(rows, Trips, c) = R \cup {t}
    BY <1>1, <1>4 DEF Counted
  <2>2. Cardinality(R \cup {t}) = Cardinality(R) + 1
    BY <1>2, FS_AddElement
  <2> QED BY <1>1, <1>3, <1>4, <2>1, <2>2 DEF One
<1>5. CASE ~(rows[t].c = c /\ rows[t].st \in {"committed", "settled"})
  <2>1. Counted(rows, Trips, c) = R
    BY <1>1, <1>5 DEF Counted
  <2> QED BY <1>1, <1>3, <1>5, <2>1 DEF One
<1> QED BY <1>4, <1>5

\* A balanced campaign holds at least what any one trip counts for.
LEMMA TripHeld ==
  ASSUME NEW rows \in [Trips -> RedRow], NEW t \in Trips, NEW c, NEW k, NEW e, Balanced(k, e, rows, c)
  PROVE  In(rows[t], c, "committed") <= k.committed /\ One(rows[t], c) <= k.uses
<1>1. rows[t].amt \in Nat
  BY DEF RedRow
<1>2. In(rows[t], c, "committed") \in Nat /\ One(rows[t], c) \in Nat
  BY <1>1 DEF In, One
<1>3. In(rows[t], c, "committed") <= Total(rows, c, "committed")
  <2>1. PICK rest \in Nat : Total(rows, c, "committed") = rest + In(rows[t], c, "committed")
    BY TotalSplit
  <2> QED BY <1>2, <2>1
<1>4. One(rows[t], c) <= Cardinality(Counted(rows, Trips, c))
  <2>1. PICK rest \in Nat : Cardinality(Counted(rows, Trips, c)) = rest + One(rows[t], c)
    BY CountSplit
  <2> QED BY <1>2, <2>1
<1> QED BY <1>3, <1>4 DEF Balanced

\* One redemption row is rewritten, and the counters move by the difference.
LEMMA Rebalanced ==
  ASSUME NEW rows \in [Trips -> RedRow], NEW new \in [Trips -> RedRow], NEW t \in Trips,
         \A x \in Trips \ {t} : new[x] = rows[x],
         NEW c, NEW k \in CampType, NEW n \in CampType, NEW e,
         Balanced(k, e, rows, c), Books(n),
         n.committed + In(rows[t], c, "committed") = k.committed + In(new[t], c, "committed"),
         n.spent + In(rows[t], c, "settled") = k.spent + In(new[t], c, "settled"),
         n.uses + One(rows[t], c) = k.uses + One(new[t], c)
  PROVE  Balanced(n, e, new, c)
<1>1. ASSUME NEW st
      PROVE  \E rest \in Nat : /\ Total(rows, c, st) = rest + In(rows[t], c, st)
                               /\ Total(new, c, st) = rest + In(new[t], c, st)
  <2>1. PICK R : R = Of(rows, Trips \ {t}, c, st) /\ R = Of(new, Trips \ {t}, c, st)
    BY DEF Of
  <2>2. R \subseteq Trips \ {t} /\ IsFiniteSet(R)
    <3>1. R \in SUBSET Trips /\ t \notin R
      BY <2>1 DEF Of
    <3> QED BY <3>1, FS_Subset, CampaignConstants
  <2>3. \A x \in R : rows[x].amt \in Nat /\ new[x] = rows[x]
    BY <2>2 DEF RedRow
  <2>4. DiscountsOf(new, R) = DiscountsOf(rows, R)
    BY <2>2, <2>3, DiscountsSame
  <2>5. DiscountsOf(rows, R) \in Nat /\ Total(rows, c, st) = DiscountsOf(rows, R) + In(rows[t], c, st)
    <3>1. DiscountsOf(rows, R) \in Nat
      BY <2>2, <2>3, DiscountsSame
    <3>2. Total(rows, c, st) = DiscountsOf(rows, Of(rows, Trips \ {t}, c, st)) + In(rows[t], c, st)
      BY TotalSplit
    <3> QED BY <2>1, <3>1, <3>2
  <2>6. Total(new, c, st) = DiscountsOf(rows, R) + In(new[t], c, st)
    BY <2>1, <2>4, TotalSplit
  <2> QED BY <2>5, <2>6
<1>2. \E rest \in Nat : /\ Cardinality(Counted(rows, Trips, c)) = rest + One(rows[t], c)
                        /\ Cardinality(Counted(new, Trips, c)) = rest + One(new[t], c)
  <2>1. Counted(rows, Trips \ {t}, c) = Counted(new, Trips \ {t}, c)
    BY DEF Counted
  <2> QED BY <2>1, CountSplit
<1>3. rows[t].amt \in Nat /\ new[t].amt \in Nat
  BY DEF RedRow
<1>4. /\ \A st : In(rows[t], c, st) \in Nat /\ In(new[t], c, st) \in Nat
      /\ One(rows[t], c) \in Nat /\ One(new[t], c) \in Nat
  BY <1>3 DEF In, One
<1>5. n.committed \in Nat /\ n.spent \in Nat /\ n.uses \in Nat /\ Rewarded(e) \in Nat
  BY CampaignConstants DEF CampType, Rewarded
<1>6. n.committed = Total(new, c, "committed")
  <2>1. PICK rest \in Nat : /\ Total(rows, c, "committed") = rest + In(rows[t], c, "committed")
                            /\ Total(new, c, "committed") = rest + In(new[t], c, "committed")
    BY <1>1
  <2> QED BY <1>4, <1>5, <2>1 DEF Balanced
<1>7. n.spent = Total(new, c, "settled") + Rewarded(e)
  <2>1. PICK rest \in Nat : /\ Total(rows, c, "settled") = rest + In(rows[t], c, "settled")
                            /\ Total(new, c, "settled") = rest + In(new[t], c, "settled")
    BY <1>1
  <2> QED BY <1>4, <1>5, <2>1 DEF Balanced
<1>8. n.uses = Cardinality(Counted(new, Trips, c))
  BY <1>2, <1>4, <1>5 DEF Balanced
<1> QED BY <1>6, <1>7, <1>8 DEF Balanced
-----------------------------------------------------------------------------
(* What the budget's operators do to the counters.                          *)

Counters(n, committed, spent, uses) == n.committed = committed /\ n.spent = spent /\ n.uses = uses

\* The overshoot is put on record; the counters stay.
LEMMA AfterChangeCounts ==
  ASSUME NEW c, NEW k \in CampType
  PROVE  Counters(_after_change(c, k), k.committed, k.spent, k.uses) /\ Books(_after_change(c, k))
<1>0. k.budget \in Int /\ k.committed \in Nat /\ k.spent \in Nat /\ k.over \in Nat
  BY DEF CampType
<1>1. CASE k.budget < 0
  BY <1>0, <1>1 DEF _after_change, Counters, Books
<1>2. CASE ~(k.budget < 0)
  <2> DEFINE excess == Used(k) - k.budget
             over == IF excess > k.over THEN excess ELSE k.over
             st == IF k.st = "live" /\ k.budget - Used(k) < min_viable_minor(c) THEN "exhausted" ELSE k.st
  <2>1. PICK n : n = [k EXCEPT !.over = over, !.st = st] /\ n = _after_change(c, k)
    BY <1>2 DEF _after_change
  <2>2. Used(k) <= k.budget + over
    BY <1>0 DEF Used
  <2> HIDE DEF excess, over, st
  <2>3. /\ n.committed = k.committed /\ n.spent = k.spent /\ n.uses = k.uses
        /\ n.budget = k.budget /\ n.over = over
    BY <2>1 DEF CampType
  <2>4. Used(n) = Used(k)
    BY <2>3 DEF Used
  <2> QED BY <2>1, <2>2, <2>3, <2>4 DEF Counters, Books
<1> QED BY <1>1, <1>2

\* Reviving a campaign changes none of them.
LEMMA RevivedCounts ==
  ASSUME NEW c, NEW k \in CampType
  PROVE  Counters(Revived(c, k), k.committed, k.spent, k.uses) /\ (Books(k) => Books(Revived(c, k)))
<1> DEFINE st == IF /\ k.st = "exhausted" /\ k.phase # "passed"
                    /\ k.budget - Used(k) >= min_viable_minor(c)
                 THEN "live" ELSE k.st
<1>1. PICK n : n = [k EXCEPT !.st = st] /\ n = Revived(c, k)
  BY DEF Revived
<1> HIDE DEF st
<1>2. /\ n.committed = k.committed /\ n.spent = k.spent /\ n.uses = k.uses
      /\ n.budget = k.budget /\ n.over = k.over
  BY <1>1 DEF CampType
<1> QED BY <1>1, <1>2 DEF Counters, Books, Used

\* Reserving, settling, adjusting, spending and giving back.
LEMMA LedgerCounts ==
  ASSUME NEW c, NEW k \in CampType, NEW a \in Nat, NEW b \in Nat
  PROVE  /\ Counters(reserve(c, k, a), k.committed + a, k.spent, k.uses) /\ Books(reserve(c, k, a))
         /\ Counters(settle(c, k, a), Less(k.committed, a), k.spent + a, k.uses) /\ Books(settle(c, k, a))
         /\ Counters(spend_now(c, k, a), k.committed, k.spent + a, k.uses) /\ Books(spend_now(c, k, a))
         /\ Counters(adjust_reservation(c, k, a, b), Less(k.committed + b, a), k.spent, k.uses)
         /\ Books(adjust_reservation(c, k, a, b))
         /\ Counters(release(c, k, a), Less(k.committed, a), k.spent, k.uses)
         /\ Books(k) => Books(release(c, k, a))
<1>0. /\ k.committed \in Nat /\ k.spent \in Nat /\ k.uses \in Nat
      /\ k.budget \in Int /\ k.over \in Nat
  BY DEF CampType
<1>b. \A x, y \in Nat : x + y \in Nat /\ Less(x, y) \in Nat /\ Less(x, y) <= x
  BY DEF Less
<1>1. ASSUME NEW n \in Nat
      PROVE  /\ Counters(_after_change(c, [k EXCEPT !.committed = n]), n, k.spent, k.uses)
             /\ Books(_after_change(c, [k EXCEPT !.committed = n]))
  <2>1. PICK j \in CampType : j = [k EXCEPT !.committed = n]
    BY RowKeeps DEF Kept
  <2>2. j.committed = n /\ j.spent = k.spent /\ j.uses = k.uses
    BY <2>1 DEF CampType
  <2> QED BY <2>1, <2>2, AfterChangeCounts
<1>2. PICK n \in Nat : n = k.committed + a
  BY <1>0, <1>b
<1>3. Counters(reserve(c, k, a), n, k.spent, k.uses) /\ Books(reserve(c, k, a))
  BY <1>1, <1>2 DEF reserve
<1>4. PICK m \in Nat : m = Less(k.committed + b, a)
  BY <1>0, <1>b
<1>5. Counters(adjust_reservation(c, k, a, b), m, k.spent, k.uses) /\ Books(adjust_reservation(c, k, a, b))
  BY <1>1, <1>4 DEF adjust_reservation
<1>6. PICK s \in Nat : s = k.spent + a
  BY <1>0, <1>b
<1>7. Counters(spend_now(c, k, a), k.committed, s, k.uses) /\ Books(spend_now(c, k, a))
  <2>1. PICK j \in CampType : j = [k EXCEPT !.spent = s]
    BY RowKeeps DEF Kept
  <2>2. j.committed = k.committed /\ j.spent = s /\ j.uses = k.uses
    BY <2>1 DEF CampType
  <2>3. spend_now(c, k, a) = _after_change(c, j)
    BY <1>6, <2>1 DEF spend_now
  <2> QED BY <2>2, <2>3, AfterChangeCounts
<1>8. PICK l \in Nat : l = Less(k.committed, a) /\ l <= k.committed
  BY <1>0, <1>b
<1>9. Counters(settle(c, k, a), l, s, k.uses) /\ Books(settle(c, k, a))
  <2>1. PICK j : j = [k EXCEPT !.committed = l, !.spent = s]
    OBVIOUS
  <2>2. j \in CampType /\ j.committed = l /\ j.spent = s /\ j.uses = k.uses
    BY <2>1 DEF CampType
  <2>3. settle(c, k, a) = _after_change(c, j)
    BY <1>6, <1>8, <2>1 DEF settle
  <2> QED BY <2>2, <2>3, AfterChangeCounts
<1>10. Counters(release(c, k, a), l, k.spent, k.uses) /\ (Books(k) => Books(release(c, k, a)))
  <2>1. PICK j \in CampType : j = [k EXCEPT !.committed = l]
    BY RowKeeps DEF Kept
  <2>2. /\ j.committed = l /\ j.spent = k.spent /\ j.uses = k.uses
        /\ j.budget = k.budget /\ j.over = k.over
    BY <2>1 DEF CampType
  <2>3. Books(k) => Books(j)
    <3>1. Used(j) <= Used(k) /\ Used(j) \in Int /\ Used(k) \in Int
      BY <1>0, <1>8, <2>2 DEF Used
    <3> HIDE DEF Used
    <3> QED BY <1>0, <2>2, <3>1 DEF Books
  <2>4. release(c, k, a) = Revived(c, j)
    BY <1>8, <2>1 DEF release
  <2> QED BY <2>2, <2>3, <2>4, RevivedCounts
<1> QED BY <1>2, <1>3, <1>4, <1>5, <1>6, <1>7, <1>8, <1>9, <1>10
-----------------------------------------------------------------------------
(* The steps.                                                               *)

\* No counter is written.
SameCounters(k, n) ==
  n.committed = k.committed /\ n.spent = k.spent /\ n.uses = k.uses /\ n.budget = k.budget /\ n.over = k.over

\* At first every sum is empty.
LEMMA BudgetInitOK == ApprovalInit /\ CampaignInit => BudgetInv
<1> SUFFICES ASSUME ApprovalInit, CampaignInit PROVE BudgetInv
  OBVIOUS
<1>1. CampaignInv
  BY CampaignInitOK
<1>2. /\ earned \in [Camps -> EarnedStates]
      /\ \A c \in Camps : earned[c] \in {"none", "in_progress"}
  BY DEF CampaignInit, EarnedStates
<1>3. PICK kinds \in [Camps -> Kinds] :
        camp = [c \in Camps |-> IF c \in Legacy THEN ensure_legacy_campaign ELSE Draft(kinds[c])]
  BY DEF CampaignInit
<1>4. \A k : Counters(Draft(k), 0, 0, 0) /\ Draft(k).over = 0 /\ Draft(k).budget = Budget
  BY DEF Draft, Counters
<1>5. /\ Counters(ensure_legacy_campaign, 0, 0, 0) /\ ensure_legacy_campaign.over = 0
      /\ ensure_legacy_campaign.budget = -1
  BY DEF ensure_legacy_campaign, Counters, Draft
<1>6. \A c \in Camps : Counters(camp[c], 0, 0, 0) /\ Books(camp[c])
  <2>1. Budget \in Nat
    BY CampaignConstants
  <2> QED BY <1>3, <1>4, <1>5, <2>1 DEF Counters, Books, Used
<1>7. \A t \in Trips : red[t].st = "none"
  BY DEF CampaignInit, NoRedemption
<1>8. ASSUME NEW c \in Camps, NEW st \in {"committed", "settled"} PROVE Total(red, c, st) = 0
  <2>1. Of(red, Trips, c, st) = {}
    BY <1>7 DEF Of
  <2>2. DiscountsOf(red, {}) = SumOf([t \in {} |-> red[t].amt], {})
    BY DiscountsAre, FS_EmptySet
  <2> QED BY <2>1, <2>2, SumEmpty DEF Total
<1>9. ASSUME NEW c \in Camps PROVE Cardinality(Counted(red, Trips, c)) = 0
  <2>1. Counted(red, Trips, c) = {}
    BY <1>7 DEF Counted
  <2> QED BY <2>1, FS_EmptySet
<1>10. \A c \in Camps : Rewarded(earned[c]) = 0
  BY <1>2 DEF Rewarded
<1> QED BY <1>1, <1>2, <1>6, <1>8, <1>9, <1>10 DEF BudgetInv, Balanced, Counters

\* Nobody touches a counter, a redemption or a reward.
LEMMA CountersStay ==
  ASSUME BudgetInv, CampaignInv', UNCHANGED <<red, earned>>,
         \A c \in Camps : SameCounters(camp[c], camp'[c])
  PROVE  BudgetInv'
<1>1. ASSUME NEW c \in Camps PROVE Balanced(camp'[c], earned[c], red, c)
  <2>1. Balanced(camp[c], earned[c], red, c) /\ SameCounters(camp[c], camp'[c])
    BY DEF BudgetInv
  <2> QED BY <2>1 DEF Balanced, SameCounters, Books, Used
<1> QED BY <1>1 DEF BudgetInv

\* One campaign's row is written together with at most one trip's redemption.
LEMMA TripRebalances ==
  ASSUME BudgetInv, CampaignInv', UNCHANGED earned, NEW t \in Trips, NEW c \in Camps, NEW n,
         camp' = [camp EXCEPT ![c] = n], NEW row, row.c = c, red' = [red EXCEPT ![t] = row],
         red[t].c = c \/ red[t].st = "none", Books(n),
         n.committed + In(red[t], c, "committed") = camp[c].committed + In(row, c, "committed"),
         n.spent + In(red[t], c, "settled") = camp[c].spent + In(row, c, "settled"),
         n.uses + One(red[t], c) = camp[c].uses + One(row, c)
  PROVE  BudgetInv'
<1>0. camp \in [Camps -> CampType] /\ camp' \in [Camps -> CampType]
  BY DEF BudgetInv, CampaignInv, CampsTyped
<1>1. red \in [Trips -> RedRow] /\ red' \in [Trips -> RedRow]
  BY DEF BudgetInv, CampaignInv, RedsTyped, RedRow
<1>2. PICK new \in [Trips -> RedRow] : new = red'
  BY <1>1
<1>3. new[t] = row /\ \A x \in Trips \ {t} : new[x] = red[x]
  BY <1>1, <1>2
<1>4. camp'[c] = n /\ n \in CampType /\ \A d \in Camps \ {c} : camp'[d] = camp[d]
  BY <1>0
<1>5. \A d \in Camps : Balanced(camp[d], earned[d], red, d)
  BY DEF BudgetInv
<1>6. Balanced(n, earned[c], new, c)
  BY <1>0, <1>1, <1>3, <1>4, <1>5, Rebalanced
<1>7. ASSUME NEW d \in Camps \ {c} PROVE Balanced(camp[d], earned[d], new, d)
  <2>1. /\ In(red[t], d, "committed") = 0 /\ In(red[t], d, "settled") = 0 /\ One(red[t], d) = 0
        /\ In(new[t], d, "committed") = 0 /\ In(new[t], d, "settled") = 0 /\ One(new[t], d) = 0
    BY <1>3 DEF In, One
  <2>2. camp[d] \in CampType /\ Balanced(camp[d], earned[d], red, d)
    BY <1>0, <1>5
  <2>3. Books(camp[d])
    BY <2>2 DEF Balanced
  <2> QED BY <1>1, <1>3, <2>1, <2>2, <2>3, Rebalanced
<1>8. \A d \in Camps : Balanced(camp'[d], earned'[d], red', d)
  BY <1>2, <1>4, <1>6, <1>7
<1> QED BY <1>8 DEF BudgetInv

\* A reward is spent once: whoever is paid was in progress or qualified, and is completed then.
LEMMA RewardRebalances ==
  ASSUME BudgetInv, CampaignInv', UNCHANGED red, NEW c \in Camps, NEW unpaid \in EarnedStates \ {"completed"},
         earned[c] # "completed", Pays(c, unpaid)
  PROVE  BudgetInv'
<1>0. camp \in [Camps -> CampType] /\ earned \in [Camps -> EarnedStates] /\ Reward \in Nat
  BY CampaignConstants DEF BudgetInv, CampaignInv, CampsTyped
<1>1. \A d \in Camps : Balanced(camp[d], earned[d], red, d)
  BY DEF BudgetInv
<1>2. CASE admits(camp[c], Reward)
  <2>1. PICK n : n = spend_now(c, camp[c], Reward)
    OBVIOUS
  <2>2. camp' = [camp EXCEPT ![c] = n] /\ earned' = [earned EXCEPT ![c] = "completed"]
    BY <1>2, <2>1 DEF Pays
  <2>3. Counters(n, camp[c].committed, camp[c].spent + Reward, camp[c].uses) /\ Books(n)
    BY <1>0, <2>1, LedgerCounts
  <2>4. Balanced(n, "completed", red, c)
    <3>1. Rewarded(earned[c]) = 0 /\ Rewarded("completed") = Reward
      BY DEF Rewarded
    <3>2. camp[c].spent \in Nat
      BY <1>0 DEF CampType
    <3>3. PICK s : s = Total(red, c, "settled") /\ camp[c].spent = s + 0
      BY <1>1, <3>1 DEF Balanced
    <3>4. s \in Nat
      <4>1. red \in [Trips -> RedRow]
        BY DEF BudgetInv, CampaignInv, RedsTyped, RedRow
      <4> QED BY <3>3, <4>1, TotalNat
    <3>5. n.spent = s + Reward
      BY <1>0, <2>3, <3>3, <3>4 DEF Counters
    <3> QED BY <1>1, <2>3, <3>1, <3>3, <3>5 DEF Balanced, Counters
  <2>5. /\ camp'[c] = n /\ earned'[c] = "completed" /\ earned' \in [Camps -> EarnedStates]
        /\ \A d \in Camps \ {c} : camp'[d] = camp[d] /\ earned'[d] = earned[d]
    BY <1>0, <2>2 DEF EarnedStates
  <2> QED BY <1>1, <2>4, <2>5 DEF BudgetInv
<1>3. CASE ~admits(camp[c], Reward)
  <2>1. UNCHANGED camp /\ earned' = [earned EXCEPT ![c] = unpaid]
    BY <1>3 DEF Pays
  <2>2. Rewarded(unpaid) = Rewarded(earned[c])
    BY DEF Rewarded
  <2>3. earned' \in [Camps -> EarnedStates] /\ \A d \in Camps : Rewarded(earned'[d]) = Rewarded(earned[d])
    BY <1>0, <2>1, <2>2
  <2> QED BY <1>1, <2>1, <2>3 DEF BudgetInv, Balanced
<1> QED BY <1>2, <1>3

\* A driver's progress that is not a payment.
LEMMA ProgressStays ==
  ASSUME BudgetInv, CampaignInv', UNCHANGED <<camp, red>>, NEW c \in Camps, earned[c] # "completed",
         NEW e \in EarnedStates \ {"completed"}, earned' = [earned EXCEPT ![c] = e]
  PROVE  BudgetInv'
<1>1. earned \in [Camps -> EarnedStates] /\ \A d \in Camps : Balanced(camp[d], earned[d], red, d)
  BY DEF BudgetInv
<1>2. earned' \in [Camps -> EarnedStates] /\ \A d \in Camps : Rewarded(earned'[d]) = Rewarded(earned[d])
  BY <1>1 DEF Rewarded
<1> QED BY <1>1, <1>2 DEF BudgetInv, Balanced

\* What an operator or the sweep does to a campaign writes no counter.
LEMMA WorkflowBalances ==
  ASSUME BudgetInv, CampaignInv', NEW c \in Camps, WorkflowStep(c)
  PROVE  BudgetInv'
<1>0. camp \in [Camps -> CampType] /\ camp[c] \in CampType
  BY DEF BudgetInv, CampaignInv, CampsTyped
<1>1. ASSUME NEW row, SameCounters(camp[c], row), camp' = [camp EXCEPT ![c] = row], UNCHANGED <<red, earned>>
      PROVE  BudgetInv'
  <2>1. camp'[c] = row /\ \A d \in Camps \ {c} : camp'[d] = camp[d]
    BY <1>0, <1>1
  <2>2. \A d \in Camps : SameCounters(camp[d], camp'[d])
    BY <1>1, <2>1 DEF SameCounters
  <2> QED BY <1>1, <2>2, CountersStay
<1>2. ASSUME NEW allowed, NEW new, NEW active, _transition(c, allowed, new, active)
      PROVE  BudgetInv'
  <2>1. PICK row : row = _sync_serving_rows([camp[c] EXCEPT !.st = new], active)
    OBVIOUS
  <2>2. SameCounters(camp[c], row)
    BY <1>0, <2>1 DEF SameCounters, _sync_serving_rows, CampType
  <2> QED BY <1>1, <1>2, <2>1, <2>2 DEF _transition
<1>3. CASE pause(c) \/ resume(c) \/ cancel_campaign(c) \/ sweep_starts(c) \/ sweep_ends(c)
  BY <1>2, <1>3 DEF pause, resume, cancel_campaign, sweep_starts, sweep_ends
<1>4. CASE update_draft(c)
  <2>1. \/ camp' = [camp EXCEPT ![c] = [camp[c] EXCEPT !.cfg = @ + 1]]
        \/ camp' = [camp EXCEPT ![c] = [camp[c] EXCEPT !.window = @ + 1]]
    BY <1>4 DEF update_draft
  <2>2. /\ SameCounters(camp[c], [camp[c] EXCEPT !.cfg = @ + 1])
        /\ SameCounters(camp[c], [camp[c] EXCEPT !.window = @ + 1])
    BY <1>0 DEF SameCounters, CampType
  <2>3. UNCHANGED <<red, earned>>
    BY <1>4 DEF update_draft
  <2> QED BY <1>1, <2>1, <2>2, <2>3
<1>5. CASE WindowMoves(c)
  <2>1. PICK phase : camp' = [camp EXCEPT ![c] = [camp[c] EXCEPT !.phase = phase]]
    BY <1>5 DEF WindowMoves
  <2>2. SameCounters(camp[c], [camp[c] EXCEPT !.phase = phase])
    BY <1>0 DEF SameCounters, CampType
  <2>3. UNCHANGED <<red, earned>>
    BY <1>5 DEF WindowMoves
  <2> QED BY <1>1, <2>1, <2>2, <2>3
<1>6. CASE attach(c)
  <2>1. UNCHANGED <<camp, red>> /\ earned[c] = "none" /\ earned' = [earned EXCEPT ![c] = "in_progress"]
    BY <1>6 DEF attach
  <2>2. "in_progress" \in EarnedStates \ {"completed"}
    BY DEF EarnedStates
  <2> QED BY <2>1, <2>2, ProgressStays
<1>7. ASSUME NEW o \in Makers, propose_launch(c, o) PROVE BudgetInv'
  <2>1. camp' = [camp EXCEPT ![c] = [camp[c] EXCEPT !.st = "pending"]] /\ UNCHANGED <<red, earned>>
    BY <1>7 DEF propose_launch
  <2>2. SameCounters(camp[c], [camp[c] EXCEPT !.st = "pending"])
    BY <1>0 DEF SameCounters, CampType
  <2> QED BY <1>1, <2>1, <2>2
<1>8. ASSUME NEW o \in Makers, propose_budget_increase(c, o) PROVE BudgetInv'
  <2>1. UNCHANGED <<camp, red, earned>>
    BY <1>8 DEF propose_budget_increase, campaignVars
  <2> QED BY <2>1, CountersStay DEF SameCounters
<1> QED BY <1>3, <1>4, <1>5, <1>6, <1>7, <1>8 DEF WorkflowStep

\* Of the service's steps only an executed increase writes a budget, and it raises it: the budget it
\* was asked for is the one the campaign still has.
LEMMA ApprovalBalances ==
  ASSUME BudgetInv, CampaignInv', NEW r \in Requests, ApprovalStep(r)
  PROVE  BudgetInv'
<1>0. camp \in [Camps -> CampType] /\ ServiceInv(CampaignKeys)
  BY DEF BudgetInv, CampaignInv, CampsTyped
<1>1. UNCHANGED <<red, earned>>
  BY DEF ApprovalStep, launch_request_closed, execute_launch, execute_budget_increase, campaignVars
<1>2. CASE UNCHANGED camp
  BY <1>1, <1>2, CountersStay DEF SameCounters
<1>3. ASSUME NEW c, NEW row, SameCounters(camp[c], row), camp' = [camp EXCEPT ![c] = row]
      PROVE  BudgetInv'
  <2>1. \A d \in Camps : camp'[d] = IF d = c THEN row ELSE camp[d]
    BY <1>0, <1>3
  <2>2. \A d \in Camps : SameCounters(camp[d], camp'[d])
    BY <1>3, <2>1 DEF SameCounters
  <2> QED BY <1>1, <2>2, CountersStay
<1>4. ASSUME launch_request_closed(r), expire_stale(r) \/ \E o \in Operators : reject(r, o) \/ cancel(r, o),
             ~UNCHANGED camp
      PROVE  BudgetInv'
  <2>1. PICK c \in Camps : c = req[r].key[2]
    BY <1>0, <1>4, ClosedHoldsNothing, CampaignKeyParts
  <2>2. PICK st : camp' = [camp EXCEPT ![c] = [camp[c] EXCEPT !.st = st]]
    BY <1>4, <2>1 DEF launch_request_closed
  <2>3. SameCounters(camp[c], [camp[c] EXCEPT !.st = st])
    BY <1>0 DEF SameCounters, CampType
  <2> QED BY <1>3, <2>2, <2>3
<1>5. CASE execute_launch(r) /\ ~UNCHANGED camp
  <2>1. Holds(r) /\ req[r].key \in CampaignKeys
    BY <1>0, <1>5, RunnerHolds DEF execute_launch
  <2>2. PICK c \in Camps : c = req[r].key[2]
    BY <2>1, CampaignKeyParts
  <2> DEFINE now == camp[c].phase = "open"
             st == IF now THEN "live" ELSE "scheduled"
             row == _sync_serving_rows([camp[c] EXCEPT !.st = st], now)
  <2>3. camp' = [camp EXCEPT ![c] = row]
    BY <1>5, <2>2 DEF execute_launch
  <2> HIDE DEF now, st
  <2>4. SameCounters(camp[c], row)
    BY <1>0 DEF SameCounters, _sync_serving_rows, CampType
  <2> HIDE DEF row
  <2> QED BY <1>3, <2>3, <2>4
<1>6. CASE execute_budget_increase(r) /\ ~UNCHANGED camp
  <2>1. Holds(r) /\ req[r].key \in CampaignKeys
    BY <1>0, <1>6, RunnerHolds DEF execute_budget_increase
  <2>2. PICK c \in Camps : c = req[r].key[2]
    BY <2>1, CampaignKeyParts
  <2>3. req[r].key[1] = "budget" /\ req[r].key[3] \in 0 .. (Raised - 1) /\ req[r].key[4] = Raised
    BY <1>6, <2>1, CampaignKeyParts DEF execute_budget_increase
  <2>4. PICK k : k = [camp[c] EXCEPT !.budget = Raised]
    OBVIOUS
  <2>5. camp[c].budget = req[r].key[3] /\ camp' = [camp EXCEPT ![c] = Revived(c, k)]
    BY <1>6, <2>2, <2>3, <2>4 DEF execute_budget_increase
  <2>6. camp[c].budget \in Nat /\ Raised \in Nat /\ camp[c].budget < Raised
    BY <2>3, <2>5, CampaignConstants
  <2>7. /\ k \in CampType /\ k.committed = camp[c].committed /\ k.spent = camp[c].spent
        /\ k.uses = camp[c].uses /\ k.over = camp[c].over /\ k.budget = Raised
    BY <1>0, <2>4, <2>6 DEF CampType
  <2>8. Balanced(camp[c], earned[c], red, c)
    BY DEF BudgetInv
  <2>9. Books(k)
    <3>1. Used(k) = Used(camp[c]) /\ Used(k) \in Int /\ camp[c].over \in Nat
      BY <1>0, <2>7 DEF Used, CampType
    <3>2. Used(camp[c]) <= camp[c].budget + camp[c].over
      BY <2>6, <2>8 DEF Balanced, Books
    <3> QED BY <2>6, <2>7, <3>1, <3>2 DEF Books
  <2>10. PICK n : n = Revived(c, k)
    OBVIOUS
  <2>11. Counters(n, camp[c].committed, camp[c].spent, camp[c].uses) /\ Books(n)
    BY <2>7, <2>9, <2>10, RevivedCounts
  <2>12. Balanced(n, earned[c], red, c)
    BY <2>8, <2>11 DEF Balanced, Counters
  <2>13. camp'[c] = n /\ \A d \in Camps \ {c} : camp'[d] = camp[d]
    BY <1>0, <2>5, <2>10
  <2> QED BY <1>1, <2>12, <2>13 DEF BudgetInv
<1> QED BY <1>2, <1>4, <1>5, <1>6 DEF ApprovalStep, campaignVars

\* Giving back a redemption.
LEMMA ReleasedBalances ==
  ASSUME BudgetInv, CampaignInv', NEW t \in Trips, Released(t), UNCHANGED earned
  PROVE  BudgetInv'
<1>1. CASE UNCHANGED <<camp, red>>
  BY <1>1, CountersStay DEF SameCounters
<1>2. CASE ~UNCHANGED <<camp, red>>
  <2>1. red[t].st = "committed" /\ ~release_raises(red[t].c)
    BY <1>2 DEF Released
  <2>2. PICK c \in Camps : c = red[t].c
    BY <2>1 DEF BudgetInv, CampaignInv, RedsTyped
  <2>3. camp[c] \in CampType /\ red \in [Trips -> RedRow] /\ red[t].amt \in Nat
    BY DEF BudgetInv, CampaignInv, CampsTyped, RedsTyped, RedRow
  <2>4. Balanced(camp[c], earned[c], red, c)
    BY DEF BudgetInv
  <2>5. In(red[t], c, "committed") = red[t].amt /\ In(red[t], c, "settled") = 0 /\ One(red[t], c) = 1
    BY <2>1, <2>2 DEF In, One
  <2>6. red[t].amt <= camp[c].committed /\ 1 <= camp[c].uses
    BY <2>3, <2>4, <2>5, TripHeld
  <2>7. PICK u \in Nat : u = Less(camp[c].uses, 1) /\ u + 1 = camp[c].uses
    BY <2>3, <2>6 DEF Less, CampType
  <2>8. PICK k : k = [camp[c] EXCEPT !.uses = u]
    OBVIOUS
  <2>9. /\ k \in CampType /\ k.committed = camp[c].committed /\ k.spent = camp[c].spent /\ k.uses = u
        /\ k.budget = camp[c].budget /\ k.over = camp[c].over
    BY <2>3, <2>8 DEF CampType
  <2>10. Books(k)
    BY <2>4, <2>9 DEF Balanced, Books, Used
  <2>11. PICK n : n = release(c, k, red[t].amt)
    OBVIOUS
  <2>12. Counters(n, Less(camp[c].committed, red[t].amt), camp[c].spent, u) /\ Books(n)
    BY <2>3, <2>9, <2>10, <2>11, LedgerCounts
  <2>13. PICK row : row = [red[t] EXCEPT !.st = "released"]
    OBVIOUS
  <2>14. row.c = c /\ row.st = "released"
    BY <2>2, <2>3, <2>13 DEF RedRow
  <2>15. In(row, c, "committed") = 0 /\ In(row, c, "settled") = 0 /\ One(row, c) = 0
    BY <2>14 DEF In, One
  <2>16. camp' = [camp EXCEPT ![c] = n] /\ red' = [red EXCEPT ![t] = row]
    BY <1>2, <2>2, <2>7, <2>8, <2>11, <2>13 DEF Released
  <2>17. camp[c].committed \in Nat /\ camp[c].spent \in Nat
    BY <2>3 DEF CampType
  <2>18. n.committed + red[t].amt = camp[c].committed
    BY <2>3, <2>6, <2>12, <2>17 DEF Counters, Less
  <2>19. n.spent = camp[c].spent /\ n.uses + 1 = camp[c].uses
    BY <2>7, <2>12 DEF Counters
  <2>20. camp[c].uses \in Nat
    BY <2>3 DEF CampType
  <2>21. /\ n.committed + In(red[t], c, "committed") = camp[c].committed + In(row, c, "committed")
         /\ n.spent + In(red[t], c, "settled") = camp[c].spent + In(row, c, "settled")
         /\ n.uses + One(red[t], c) = camp[c].uses + One(row, c)
    BY <2>5, <2>15, <2>17, <2>18, <2>19, <2>20
  <2> QED BY <2>2, <2>12, <2>14, <2>16, <2>21, TripRebalances
<1> QED BY <1>1, <1>2

\* What a ride does to its redemption and to the campaigns that count it.
LEMMA TripBalances ==
  ASSUME BudgetInv, CampaignInv', NEW t \in Trips, TripStep(t)
  PROVE  BudgetInv'
<1>0. /\ camp \in [Camps -> CampType] /\ red \in [Trips -> RedRow] /\ red[t].amt \in Nat
      /\ red[t].st # "none" => red[t].c \in Camps
  BY DEF BudgetInv, CampaignInv, CampsTyped, RedsTyped, RedRow
<1>1. CASE UNCHANGED <<camp, red, earned>>
  BY <1>1, CountersStay DEF SameCounters
<1>2. CASE CompleteTrip(t) \/ CancelTrip(t) \/ TaskSkips(t) \/ \E c \in Camps : on_trip_completed(c, t)
  BY <1>1, <1>2 DEF CompleteTrip, CancelTrip, TaskSkips, on_trip_completed
<1>3. CASE settle_trip(t)
  <2>1. red[t].st = "committed" /\ red' = [red EXCEPT ![t].st = "settled"] /\ UNCHANGED earned
    BY <1>3 DEF settle_trip
  <2>2. PICK c \in Camps : c = red[t].c
    BY <1>0, <2>1
  <2>3. PICK n : n = settle(c, camp[c], red[t].amt)
    OBVIOUS
  <2>4. Counters(n, Less(camp[c].committed, red[t].amt), camp[c].spent + red[t].amt, camp[c].uses) /\ Books(n)
    BY <1>0, <2>3, LedgerCounts
  <2>5. In(red[t], c, "committed") = red[t].amt /\ In(red[t], c, "settled") = 0 /\ One(red[t], c) = 1
    BY <2>1, <2>2 DEF In, One
  <2>6. red[t].amt <= camp[c].committed
    <3>1. Balanced(camp[c], earned[c], red, c)
      BY DEF BudgetInv
    <3> QED BY <1>0, <2>5, <3>1, TripHeld
  <2>7. PICK row : row = [red[t] EXCEPT !.st = "settled"]
    OBVIOUS
  <2>8. row.c = c /\ row.st = "settled" /\ row.amt = red[t].amt
    BY <1>0, <2>2, <2>7 DEF RedRow
  <2>9. In(row, c, "committed") = 0 /\ In(row, c, "settled") = red[t].amt /\ One(row, c) = 1
    BY <2>8 DEF In, One
  <2>10. camp' = [camp EXCEPT ![c] = n] /\ red' = [red EXCEPT ![t] = row]
    BY <1>3, <2>1, <2>2, <2>3, <2>7 DEF settle_trip
  <2>11. camp[c].committed \in Nat /\ camp[c].spent \in Nat /\ camp[c].uses \in Nat
    BY <1>0 DEF CampType
  <2>12. n.committed + red[t].amt = camp[c].committed
    BY <1>0, <2>4, <2>6, <2>11 DEF Counters, Less
  <2>13. n.spent = camp[c].spent + red[t].amt /\ n.uses = camp[c].uses
    BY <2>4 DEF Counters
  <2>14. /\ n.committed + In(red[t], c, "committed") = camp[c].committed + In(row, c, "committed")
         /\ n.spent + In(red[t], c, "settled") = camp[c].spent + In(row, c, "settled")
         /\ n.uses + One(red[t], c) = camp[c].uses + One(row, c)
    BY <1>0, <2>5, <2>9, <2>11, <2>12, <2>13
  <2> QED BY <2>1, <2>2, <2>4, <2>8, <2>10, <2>14, TripRebalances
<1>4. CASE release_for_trip(t)
  BY <1>4, ReleasedBalances DEF release_for_trip
<1>5. CASE apply_operator_end(t)
  <2>0. UNCHANGED earned
    BY <1>5 DEF apply_operator_end
  <2>1. CASE Released(t)
    BY <2>0, <2>1, ReleasedBalances
  <2>2. CASE UNCHANGED <<camp, red>>
    BY <1>1, <2>0, <2>2
  <2>3. ASSUME NEW new \in Discounts \cup {0}, red[t].st = "committed",
               camp' = [camp EXCEPT ![red[t].c] = adjust_reservation(red[t].c, @, red[t].amt, new)],
               red' = [red EXCEPT ![t].amt = new]
        PROVE  BudgetInv'
    <3>1. PICK c \in Camps : c = red[t].c
      BY <1>0, <2>3
    <3>2. new \in Nat
      BY CampaignConstants
    <3>3. PICK n : n = adjust_reservation(c, camp[c], red[t].amt, new)
      OBVIOUS
    <3>4. Counters(n, Less(camp[c].committed + new, red[t].amt), camp[c].spent, camp[c].uses) /\ Books(n)
      BY <1>0, <3>2, <3>3, LedgerCounts
    <3>5. In(red[t], c, "committed") = red[t].amt /\ In(red[t], c, "settled") = 0 /\ One(red[t], c) = 1
      BY <2>3, <3>1 DEF In, One
    <3>6. red[t].amt <= camp[c].committed
      <4>1. Balanced(camp[c], earned[c], red, c)
        BY DEF BudgetInv
      <4> QED BY <1>0, <3>5, <4>1, TripHeld
    <3>7. PICK row : row = [red[t] EXCEPT !.amt = new]
      OBVIOUS
    <3>8. row.c = c /\ row.st = "committed" /\ row.amt = new
      BY <1>0, <2>3, <3>1, <3>7 DEF RedRow
    <3>9. In(row, c, "committed") = new /\ In(row, c, "settled") = 0 /\ One(row, c) = 1
      BY <3>8 DEF In, One
    <3>10. camp' = [camp EXCEPT ![c] = n] /\ red' = [red EXCEPT ![t] = row]
      BY <2>3, <3>1, <3>3, <3>7
    <3>11. camp[c].committed \in Nat /\ camp[c].spent \in Nat /\ camp[c].uses \in Nat
      BY <1>0 DEF CampType
    <3>12. n.committed + red[t].amt = camp[c].committed + new
      BY <1>0, <3>2, <3>4, <3>6, <3>11 DEF Counters, Less
    <3>13. n.spent = camp[c].spent /\ n.uses = camp[c].uses
      BY <3>4 DEF Counters
    <3>14. /\ n.committed + In(red[t], c, "committed") = camp[c].committed + In(row, c, "committed")
           /\ n.spent + In(red[t], c, "settled") = camp[c].spent + In(row, c, "settled")
           /\ n.uses + One(red[t], c) = camp[c].uses + One(row, c)
      BY <3>5, <3>9, <3>11, <3>12, <3>13
    <3> QED BY <2>0, <3>1, <3>4, <3>8, <3>10, <3>14, TripRebalances
  <2> QED BY <1>5, <2>1, <2>2, <2>3 DEF apply_operator_end
<1>6. ASSUME NEW c \in Camps, NEW a \in Discounts, redeem_promo(t, c, a) PROVE BudgetInv'
  <2>1. a \in Nat /\ red[t].st = "none" /\ UNCHANGED earned
    BY <1>6, CampaignConstants DEF redeem_promo
  <2>2. camp[c].committed \in Nat /\ camp[c].spent \in Nat /\ camp[c].uses \in Nat
    BY <1>0 DEF CampType
  <2>3. PICK u \in Nat : u = camp[c].uses + 1
    BY <2>2
  <2>4. PICK k : k = [camp[c] EXCEPT !.uses = u]
    OBVIOUS
  <2>5. k \in CampType /\ k.committed = camp[c].committed /\ k.spent = camp[c].spent /\ k.uses = u
    BY <1>0, <2>4 DEF CampType
  <2>6. PICK n : n = reserve(c, k, a)
    OBVIOUS
  <2>7. Counters(n, camp[c].committed + a, camp[c].spent, u) /\ Books(n)
    BY <2>1, <2>5, <2>6, LedgerCounts
  <2>8. PICK row : row = [st |-> "committed", amt |-> a, c |-> c]
    OBVIOUS
  <2>9. /\ In(row, c, "committed") = a /\ In(row, c, "settled") = 0 /\ One(row, c) = 1 /\ row.c = c
        /\ In(red[t], c, "committed") = 0 /\ In(red[t], c, "settled") = 0 /\ One(red[t], c) = 0
    BY <2>1, <2>8 DEF In, One
  <2>10. camp' = [camp EXCEPT ![c] = n] /\ red' = [red EXCEPT ![t] = row]
    BY <1>6, <2>3, <2>4, <2>6, <2>8 DEF redeem_promo
  <2>11. n.committed = camp[c].committed + a /\ n.spent = camp[c].spent /\ n.uses = camp[c].uses + 1
    BY <2>3, <2>7 DEF Counters
  <2>12. /\ n.committed + In(red[t], c, "committed") = camp[c].committed + In(row, c, "committed")
         /\ n.spent + In(red[t], c, "settled") = camp[c].spent + In(row, c, "settled")
         /\ n.uses + One(red[t], c) = camp[c].uses + One(row, c)
    BY <2>1, <2>2, <2>9, <2>11
  <2> QED BY <2>1, <2>7, <2>9, <2>10, <2>12, TripRebalances
<1>7. ASSUME NEW c \in Camps, count_trip(c, t) PROVE BudgetInv'
  <2>1. UNCHANGED red
    BY <1>7 DEF count_trip
  <2>2. CASE UNCHANGED <<camp, earned>>
    BY <1>1, <2>1, <2>2
  <2>3. CASE ~UNCHANGED <<camp, earned>>
    <3>1. earned[c] = "in_progress" /\ Qualified(c)
      BY <1>7, <2>3 DEF count_trip
    <3>2. /\ "unfunded" \in EarnedStates \ {"completed"} /\ "qualified" \in EarnedStates \ {"completed"}
          /\ "blocked" \in EarnedStates \ {"completed"}
      BY DEF EarnedStates
    <3>3. CASE Pays(c, "unfunded") \/ Pays(c, "qualified")
      BY <2>1, <3>1, <3>2, <3>3, RewardRebalances
    <3>4. CASE UNCHANGED camp /\ \E e \in {"blocked", "qualified"} : earned' = [earned EXCEPT ![c] = e]
      BY <2>1, <3>1, <3>2, <3>4, ProgressStays
    <3> QED BY <3>1, <3>3, <3>4 DEF Qualified
  <2> QED BY <2>2, <2>3
<1> QED BY <1>2, <1>3, <1>4, <1>5, <1>6, <1>7 DEF TripStep

\* The periodic sweep: it gives redemptions back, and pays a reward that waited for its budget.
LEMMA SweepBalances ==
  ASSUME BudgetInv, CampaignInv', Sweep
  PROVE  BudgetInv'
<1>1. CASE release_cancelled
  BY <1>1, CountersStay DEF release_cancelled, SameCounters
<1>2. CASE retry_qualified
  <2>1. PICK c \in Camps : earned[c] = "qualified" /\ Pays(c, "qualified")
    BY <1>2 DEF retry_qualified
  <2>2. UNCHANGED red /\ "qualified" \in EarnedStates \ {"completed"}
    BY <1>2 DEF retry_qualified, EarnedStates
  <2> QED BY <2>1, <2>2, RewardRebalances
<1>3. ASSUME NEW t \in Trips, SweepReleases(t) PROVE BudgetInv'
  BY <1>3, ReleasedBalances DEF SweepReleases
<1> QED BY <1>1, <1>2, <1>3 DEF Sweep

\* Every step of the composition keeps the books.
LEMMA BudgetStep == BudgetInv /\ [CampaignNext]_<<approvalVars, campaignVars>> => BudgetInv'
<1> SUFFICES ASSUME BudgetInv, [CampaignNext]_<<approvalVars, campaignVars>> PROVE BudgetInv'
  OBVIOUS
<1>1. CampaignInv'
  BY CampaignStep DEF BudgetInv
<1>2. CASE UNCHANGED <<approvalVars, campaignVars>>
  <2>1. UNCHANGED <<camp, red, earned>>
    BY <1>2 DEF campaignVars
  <2> QED BY <1>1, <2>1, CountersStay DEF SameCounters
<1>3. CASE CampaignNext
  BY <1>1, <1>3, WorkflowBalances, ApprovalBalances, TripBalances, SweepBalances DEF CampaignNext
<1> QED BY <1>2, <1>3

\* A campaign's counters are what the redemption and reward rows say, whatever order bookings,
\* settlements, cancellations, operator ends, redelivered trips and sweeps come in, a reward is
\* spent once, the code's use count is the redemptions not given back, and usage beyond the budget is
\* on record: for any number of campaigns and trips, and any budgets, discounts and rewards.
THEOREM BudgetsBalance == CampaignSpec => []BudgetBalances
<1>1. ApprovalInit /\ CampaignInit => BudgetInv
  BY BudgetInitOK
<1>2. BudgetInv => BudgetBalances
  <2> SUFFICES ASSUME BudgetInv, NEW c \in Camps
               PROVE  /\ camp[c].committed = SumOver(c, "committed")
                      /\ camp[c].spent = SumOver(c, "settled") + (IF earned[c] = "completed" THEN Reward ELSE 0)
                      /\ camp[c].uses = Cardinality({t \in Trips : red[t].c = c /\ red[t].st \in {"committed", "settled"}})
                      /\ Budgeted(c) => Used(camp[c]) <= camp[c].budget + camp[c].over
    BY DEF BudgetBalances
  <2>1. Balanced(camp[c], earned[c], red, c)
    BY DEF BudgetInv
  <2>2. SumOver(c, "committed") = Total(red, c, "committed") /\ SumOver(c, "settled") = Total(red, c, "settled")
    BY SumsAre
  <2> QED BY <2>1, <2>2 DEF Balanced, Books, Rewarded, Counted, Budgeted
<1> QED BY <1>1, <1>2, BudgetStep, PTL DEF CampaignSpec
-----------------------------------------------------------------------------
(* Support tickets: the due time counts the pauses, for every policy of     *)
(* times, every number of days and every order of the user's, the agents'   *)
(* and the sweep's writes.  DueCountsPauses is not inductive alone: it says *)
(* nothing of the columns that the user's close read before somebody else   *)
(* wrote the row, nor of the time the sweep started with.  The              *)
(* strengthening says that both were true of some earlier day.              *)

TicketType ==
  [st : STATUSES \cup {"none"}, flag : BOOLEAN, safety : BOOLEAN, prio : DOMAIN Minutes,
   since : Int, paused : Nat, due : Nat, resolved : BOOLEAN, reminded : BOOLEAN]

\* A due time that some priority's policy and the pauses explain.
Explained(due, paused) == \E p \in DOMAIN Minutes : due = Minutes[p] + paused

\* The pauses counted ended before the wait under way began, and that began no later than day d.
ClockOK(since, paused, d) ==
  /\ since \in Int /\ paused \in Nat /\ paused <= d
  /\ since # NoTime => paused <= since /\ since <= d

RowOK(row, d) ==
  /\ row \in TicketType
  /\ ClockOK(row.since, row.paused, d)
  /\ row.st # "none" => Explained(row.due, row.paused)

CloseOK(c, d) ==
  \/ c = NoClose
  \/ c = [reads |-> "no pause"]
  \/ \E s \in Nat, b \in Nat, due \in Nat :
       /\ c = [reads |-> "pause", since |-> s, paused |-> b, due |-> due]
       /\ b <= s /\ s <= d /\ Explained(due, b)

SupportInv ==
  /\ day \in Nat /\ day <= MaxDays
  /\ refund \in BOOLEAN
  /\ RowOK(ticket, day)
  /\ CloseOK(closing, day)
  /\ sweeping \in [pc : {"idle", "close", "reminders", "remind"}, now : 0..MaxDays]
  /\ sweeping.now <= day
  /\ refund \/ closing # NoClose => ticket.st # "none"

\* The policy's times, added to a pause, are times.
LEMMA ExplainedIsNat ==
  ASSUME NEW due, NEW paused \in Nat, Explained(due, paused)
  PROVE  due \in Nat
BY SupportConstants DEF Explained

\* A longer wait moves the due time by as much.
LEMMA ExplainedShifts ==
  ASSUME NEW due \in Nat, NEW paused \in Nat, NEW wait \in Nat, Explained(due, paused)
  PROVE  Explained(due + wait, paused + wait)
<1>1. PICK p \in DOMAIN Minutes : due = Minutes[p] + paused
  BY DEF Explained
<1>2. due + wait = Minutes[p] + (paused + wait)
  BY <1>1, SupportConstants
<1> QED BY <1>2 DEF Explained

\* apply_due_times counts the pauses again under whichever priority the row now has.
LEMMA DueTimesOK ==
  ASSUME NEW row, NEW d \in Nat, row \in TicketType, ClockOK(row.since, row.paused, d)
  PROVE  RowOK(apply_due_times(row), d)
<1> DEFINE due == Minutes[row.prio] + row.paused
           out == [row EXCEPT !.due = due]
<1>1. row.prio \in DOMAIN Minutes /\ row.paused \in Nat
  BY DEF TicketType
<1>2. due \in Nat /\ Explained(due, row.paused)
  BY <1>1, SupportConstants DEF Explained
<1> HIDE DEF due
<1>3. out \in TicketType
  BY <1>2 DEF TicketType
<1>4. out.due = due /\ out.since = row.since /\ out.paused = row.paused
  BY DEF TicketType
<1> HIDE DEF out
<1>5. RowOK(out, d)
  BY <1>2, <1>3, <1>4 DEF RowOK
<1> QED BY <1>5 DEF apply_due_times, out, due

\* A change of status at the time `now`, at most d, keeps the row's clock: what the pause adds
\* to the due time it adds to the pauses.  A wait starts only at d itself.
LEMMA EnterStatusOK ==
  ASSUME NEW row, NEW new \in STATUSES, NEW now \in Nat, NEW d \in Nat,
         RowOK(row, d), row.st # "none", now <= d, new = "WAITING_USER" => now = d
  PROVE  /\ RowOK(enter_status(row, new, now), d)
         /\ enter_status(row, new, now).st = new
<1> DEFINE ends == EndsPause(row, new)
           wait == IF ends /\ now > row.since THEN now - row.since ELSE 0
           asks == new = "WAITING_USER" /\ row.st # "WAITING_USER" /\ ~is_safety(row)
           since == IF asks THEN now ELSE IF ends THEN NoTime ELSE row.since
           out == [row EXCEPT !.st = new, !.paused = row.paused + wait, !.due = row.due + wait,
                              !.since = since]
<1>1. row \in TicketType /\ row.since \in Int /\ row.paused \in Nat /\ row.due \in Nat
  BY DEF RowOK, TicketType
<1>2. /\ row.paused <= d
      /\ row.since # NoTime => row.paused <= row.since /\ row.since <= d
      /\ Explained(row.due, row.paused)
  BY DEF RowOK, ClockOK
<1>3. ends => row.since # NoTime /\ new # "WAITING_USER"
  BY DEF EndsPause
<1>4. wait \in Nat /\ since \in Int
  BY <1>1 DEF NoTime
<1>5. row.paused + wait <= d
  BY <1>1, <1>2, <1>3
<1>6. since # NoTime => row.paused + wait <= since /\ since <= d
  BY <1>1, <1>2, <1>3 DEF NoTime
<1>7. Explained(row.due + wait, row.paused + wait)
  BY <1>1, <1>2, <1>4, ExplainedShifts
<1>8. row.paused + wait \in Nat /\ row.due + wait \in Nat
  BY <1>1, <1>4
<1>9. enter_status(row, new, now) = out
  BY DEF enter_status
<1> HIDE DEF ends, wait, asks, since
<1>10. out \in TicketType
  BY <1>1, <1>4, <1>8 DEF TicketType
<1>11. out.st = new /\ out.paused = row.paused + wait /\ out.due = row.due + wait /\ out.since = since
  BY <1>1 DEF TicketType
<1> HIDE DEF out
<1>12. RowOK(out, d)
  BY <1>4, <1>5, <1>6, <1>7, <1>8, <1>10, <1>11 DEF RowOK, ClockOK
<1> QED BY <1>9, <1>11, <1>12

\* So does _set_status, which also keeps resolved_at.
LEMMA SetStatusOK ==
  ASSUME NEW row, NEW new \in STATUSES, NEW now \in Nat, NEW d \in Nat,
         RowOK(row, d), row.st # "none", now <= d, new = "WAITING_USER" => now = d
  PROVE  /\ RowOK(_set_status(row, new, now), d)
         /\ _set_status(row, new, now).st = new
<1> DEFINE e == enter_status(row, new, now)
           b == (new = "CLOSED")
           out == [e EXCEPT !.resolved = b]
<1>1. RowOK(e, d) /\ e.st = new
  BY EnterStatusOK
<1>2. b \in BOOLEAN
  OBVIOUS
<1>3. _set_status(row, new, now) = out
  BY DEF _set_status
<1> HIDE DEF e, b
<1>4. out \in TicketType
  BY <1>1, <1>2 DEF RowOK, TicketType
<1>5. out.st = e.st /\ out.since = e.since /\ out.paused = e.paused /\ out.due = e.due
  BY <1>1 DEF RowOK, TicketType
<1> HIDE DEF out
<1> QED BY <1>1, <1>3, <1>4, <1>5 DEF RowOK

\* The row, and what a close read of it, stay good as days pass.
LEMMA LaterOK ==
  ASSUME NEW d \in Nat, NEW e \in Nat, d <= e, NEW row, NEW c, RowOK(row, d), CloseOK(c, d)
  PROVE  RowOK(row, e) /\ CloseOK(c, e)
<1>1. RowOK(row, e)
  BY DEF RowOK, ClockOK
<1>2. CloseOK(c, e)
  <2>1. CASE c = NoClose \/ c = [reads |-> "no pause"]
    BY <2>1 DEF CloseOK
  <2>2. CASE ~(c = NoClose \/ c = [reads |-> "no pause"])
    <3>1. PICK s \in Nat, b \in Nat, due \in Nat :
            /\ c = [reads |-> "pause", since |-> s, paused |-> b, due |-> due]
            /\ b <= s /\ s <= d /\ Explained(due, b)
      BY <2>2 DEF CloseOK
    <3>2. s <= e
      BY <3>1
    <3> QED BY <3>1, <3>2 DEF CloseOK
  <2> QED BY <2>1, <2>2
<1> QED BY <1>1, <1>2

\* A step that writes a good row and touches nothing else.
LEMMA UpdatedOK ==
  ASSUME SupportInv, NEW row, RowOK(row, day), row.st # "none", Updated(row)
  PROVE  SupportInv'
BY DEF SupportInv, Updated

\* No ticket in the beginning.
LEMMA SupportInitOK == SupportInit => SupportInv
<1> SUFFICES ASSUME SupportInit PROVE SupportInv
  OBVIOUS
<1>1. ticket \in TicketType
  BY SupportConstants DEF SupportInit, TicketType, STATUSES, NoTime
<1>2. ticket.st = "none" /\ ticket.since = NoTime /\ ticket.paused = 0
  BY DEF SupportInit
<1>3. RowOK(ticket, day)
  BY <1>1, <1>2 DEF RowOK, ClockOK, SupportInit, NoTime
<1>4. /\ day = 0 /\ closing = NoClose /\ refund = FALSE
      /\ sweeping = [pc |-> "idle", now |-> 0]
  BY DEF SupportInit, NotSweeping
<1>5. CloseOK(closing, day)
  BY <1>4 DEF CloseOK
<1>6. sweeping \in [pc : {"idle", "close", "reminders", "remind"}, now : 0..MaxDays]
  BY <1>4, SupportConstants
<1>7. refund \in BOOLEAN /\ ~(refund \/ closing # NoClose)
  BY <1>4, Zenon
<1>8. day \in Nat /\ day <= MaxDays /\ sweeping.now <= day
  BY <1>4, SupportConstants
<1> QED BY <1>3, <1>5, <1>6, <1>7, <1>8 DEF SupportInv

\* The user: opening a ticket, answering, and closing in two steps.
LEMMA UserSteps ==
  ASSUME SupportInv, create_ticket \/ add_user_message \/ CloseReads \/ close_my_ticket
  PROVE  SupportInv'
<1> USE DEF SupportInv
<1>1. CASE create_ticket
  <2>1. PICK safety \in BOOLEAN :
          Updated(apply_due_times([ticket EXCEPT !.st = "OPEN", !.flag = safety, !.safety = safety,
                                              !.prio = IF safety THEN "urgent" ELSE "normal"]))
    BY <1>1 DEF create_ticket
  <2> DEFINE prio == IF safety THEN "urgent" ELSE "normal"
             row == [ticket EXCEPT !.st = "OPEN", !.flag = safety, !.safety = safety, !.prio = prio]
  <2>2. prio \in DOMAIN Minutes
    BY SupportConstants
  <2> HIDE DEF prio
  <2>3. row \in TicketType
    BY <2>2 DEF RowOK, TicketType, STATUSES
  <2>4. row.st = "OPEN" /\ row.since = ticket.since /\ row.paused = ticket.paused
    BY DEF RowOK, TicketType
  <2>5. ClockOK(row.since, row.paused, day)
    BY <2>4 DEF RowOK
  <2> HIDE DEF row
  <2>6. RowOK(apply_due_times(row), day)
    BY <2>3, <2>5, DueTimesOK
  <2>7. apply_due_times(row).st = "OPEN"
    BY <2>3, <2>4 DEF apply_due_times, TicketType
  <2>8. Updated(apply_due_times(row))
    BY <2>1 DEF row, prio
  <2> QED BY <2>6, <2>7, <2>8, UpdatedOK
<1>2. CASE add_user_message
  <2> DEFINE row == enter_status(ticket, "IN_PROGRESS", day)
  <2>1. ticket.st # "none" /\ Updated(row)
    BY <1>2 DEF add_user_message
  <2>2. RowOK(row, day) /\ row.st = "IN_PROGRESS"
    BY <2>1, EnterStatusOK DEF STATUSES
  <2> HIDE DEF row
  <2> QED BY <2>1, <2>2, UpdatedOK
<1>3. CASE CloseReads
  <2>1. ticket.st # "none" /\ UNCHANGED <<ticket, day, refund, sweeping>>
    BY <1>3 DEF CloseReads, STATUSES
  <2>2. CASE EndsPause(ticket, "CLOSED")
    <3>1. closing' = [reads |-> "pause", since |-> ticket.since, paused |-> ticket.paused,
                      due |-> ticket.due]
      BY <1>3, <2>2 DEF CloseReads
    <3>2. /\ ticket.since \in Int /\ ticket.paused \in Nat /\ ticket.due \in Nat
          /\ ticket.paused <= ticket.since /\ ticket.since <= day
      BY <2>2 DEF EndsPause, RowOK, ClockOK, TicketType
    <3>3. Explained(ticket.due, ticket.paused) /\ ticket.since \in Nat
      BY <2>1, <3>2 DEF RowOK
    <3>4. CloseOK(closing', day)
      BY <3>1, <3>2, <3>3 DEF CloseOK
    <3> QED BY <2>1, <3>4
  <2>3. CASE ~EndsPause(ticket, "CLOSED")
    <3>1. closing' = [reads |-> "no pause"]
      BY <1>3, <2>3 DEF CloseReads
    <3>2. CloseOK(closing', day)
      BY <3>1 DEF CloseOK
    <3> QED BY <2>1, <3>2
  <2> QED BY <2>2, <2>3
<1>4. CASE close_my_ticket
  <2> DEFINE shut == [ticket EXCEPT !.st = "CLOSED", !.resolved = TRUE]
  <2>1. /\ closing # NoClose /\ closing' = NoClose /\ UNCHANGED <<day, refund, sweeping>>
        /\ ticket.st # "none"
    BY <1>4 DEF close_my_ticket
  <2>2. /\ shut \in TicketType /\ shut.st = "CLOSED"
        /\ shut.since = ticket.since /\ shut.paused = ticket.paused /\ shut.due = ticket.due
    <3>1. shut \in TicketType
      BY Zenon DEF RowOK, TicketType, STATUSES
    <3> QED BY <3>1 DEF RowOK, TicketType
  <2>3. CASE closing = [reads |-> "no pause"]
    <3>1. ticket' = shut
      BY <1>4, <2>3 DEF close_my_ticket
    <3> HIDE DEF shut
    <3>2. RowOK(shut, day)
      BY <2>1, <2>2 DEF RowOK
    <3> QED BY <2>1, <2>2, <3>1, <3>2 DEF CloseOK
  <2>4. CASE closing # [reads |-> "no pause"]
    <3>1. PICK s \in Nat, b \in Nat, due \in Nat :
            /\ closing = [reads |-> "pause", since |-> s, paused |-> b, due |-> due]
            /\ b <= s /\ s <= day /\ Explained(due, b)
      BY <2>1, <2>4 DEF CloseOK
    <3> DEFINE wait == day - s
               row == [shut EXCEPT !.paused = b + wait, !.due = due + wait, !.since = NoTime]
    <3>2. ticket' = row
      <4>1. closing.reads = "pause" /\ closing.since = s /\ closing.paused = b /\ closing.due = due
        BY <3>1
      <4> QED BY <1>4, <4>1 DEF close_my_ticket
    <3>3. wait \in Nat /\ b + wait \in Nat /\ due + wait \in Nat /\ b + wait <= day
      BY <3>1
    <3>4. Explained(due + wait, b + wait)
      BY <3>1, <3>3, ExplainedShifts
    <3> HIDE DEF wait, shut
    <3>5. /\ row \in TicketType /\ row.st = "CLOSED"
          /\ row.since = NoTime /\ row.paused = b + wait /\ row.due = due + wait
      <4>1. NoTime \in Int
        BY DEF NoTime
      <4> QED BY <2>2, <3>3, <4>1 DEF TicketType
    <3> HIDE DEF row
    <3>6. RowOK(row, day)
      BY <3>3, <3>4, <3>5 DEF RowOK, ClockOK, NoTime
    <3> QED BY <2>1, <3>2, <3>5, <3>6 DEF CloseOK
  <2> QED BY <2>3, <2>4
<1> QED BY <1>1, <1>2, <1>3, <1>4

\* A row written under the lock with a new status, today's or, by the sweep, an earlier time's.
LEMMA SetStatusStep ==
  ASSUME SupportInv, ticket.st # "none", NEW new \in STATUSES, Updated(_set_status(ticket, new, day))
  PROVE  SupportInv'
<1>1. day \in Nat /\ RowOK(ticket, day)
  BY DEF SupportInv
<1>2. RowOK(_set_status(ticket, new, day), day) /\ _set_status(ticket, new, day).st = new
  BY <1>1, SetStatusOK
<1>3. new # "none"
  BY DEF STATUSES
<1> QED BY <1>2, <1>3, UpdatedOK

\* The agents' commands.
LEMMA AgentSteps ==
  ASSUME SupportInv, ticket.st # "none", AgentStep
  PROVE  SupportInv'
<1>1. ASSUME NEW next \in STATUSES \cup {""}, admin_reply(next)
      PROVE  SupportInv'
  <2> DEFINE new == IF next = "" THEN "IN_PROGRESS" ELSE next
  <2>1. new \in STATUSES
    BY DEF STATUSES
  <2>2. Updated(_set_status(ticket, new, day))
    BY <1>1 DEF admin_reply
  <2> QED BY <2>1, <2>2, SetStatusStep
<1>2. ASSUME NEW new \in STATUSES, admin_set_status(new)
      PROVE  SupportInv'
  BY <1>2, SetStatusStep DEF admin_set_status
<1>3. ASSUME NEW p \in DOMAIN Minutes, admin_set_priority(p)
      PROVE  SupportInv'
  <2> DEFINE row == [ticket EXCEPT !.prio = p]
  <2>1. day \in Nat /\ ticket \in TicketType /\ ClockOK(ticket.since, ticket.paused, day)
    BY DEF SupportInv, RowOK
  <2>2. /\ row \in TicketType
        /\ row.st = ticket.st /\ row.since = ticket.since /\ row.paused = ticket.paused
    BY <2>1 DEF TicketType
  <2>3. Updated(apply_due_times(row))
    BY <1>3 DEF admin_set_priority
  <2> HIDE DEF row
  <2>4. RowOK(apply_due_times(row), day)
    BY <2>1, <2>2, DueTimesOK
  <2>5. apply_due_times(row).st # "none"
    BY <2>2 DEF apply_due_times, TicketType
  <2> QED BY <2>3, <2>4, <2>5, UpdatedOK
<1>4. ASSUME NEW safety \in BOOLEAN, admin_set_category(safety)
      PROVE  SupportInv'
  <2> DEFINE row == [ticket EXCEPT !.safety = safety]
  <2>1. RowOK(ticket, day) /\ ticket \in TicketType
    BY DEF SupportInv, RowOK
  <2>2. /\ row \in TicketType /\ row.st = ticket.st /\ row.due = ticket.due
        /\ row.since = ticket.since /\ row.paused = ticket.paused
    BY <2>1 DEF TicketType
  <2>3. Updated(row)
    BY <1>4 DEF admin_set_category
  <2> HIDE DEF row
  <2>4. RowOK(row, day)
    BY <2>1, <2>2 DEF RowOK
  <2> QED BY <2>2, <2>3, <2>4, UpdatedOK
<1>5. CASE RefundAsked
  BY <1>5 DEF RefundAsked, SupportInv
<1> QED BY <1>1, <1>2, <1>3, <1>4, <1>5 DEF AgentStep

\* What became of the refund.
LEMMA RefundSteps ==
  ASSUME SupportInv, RefundExecuted \/ return_refund_to_agent
  PROVE  SupportInv'
<1>1. CASE RefundExecuted
  BY <1>1 DEF RefundExecuted, SupportInv
<1>2. CASE return_refund_to_agent
  <2> DEFINE row == _set_status(ticket, "IN_PROGRESS", day)
  <2>1. /\ ticket.st # "none" /\ day \in Nat /\ RowOK(ticket, day)
        /\ refund' = FALSE /\ ticket' = row /\ UNCHANGED <<day, closing, sweeping>>
    BY <1>2 DEF return_refund_to_agent, SupportInv
  <2>2. RowOK(row, day) /\ row.st = "IN_PROGRESS"
    BY <2>1, SetStatusOK DEF STATUSES
  <2> HIDE DEF row
  <2> QED BY <2>1, <2>2 DEF SupportInv
<1> QED BY <1>1, <1>2

\* The sweep closes with the time it started at, not later than the day it writes on.
LEMMA TicketSweepSteps ==
  ASSUME SupportInv, sweep_waiting
  PROVE  SupportInv'
<1>1. ASSUME NEW from, NEW to \in {"idle", "close", "reminders", "remind"}, SweepGoes(from, to)
      PROVE  /\ sweeping' \in [pc : {"idle", "close", "reminders", "remind"}, now : 0..MaxDays]
             /\ sweeping'.now <= day /\ UNCHANGED <<day, closing, refund>>
  <2>1. /\ sweeping \in [pc : {"idle", "close", "reminders", "remind"}, now : 0..MaxDays]
        /\ sweeping.now <= day /\ day \in Nat /\ day <= MaxDays
    BY DEF SupportInv
  <2>2. MaxDays \in Nat
    BY SupportConstants
  <2> QED BY <1>1, <2>1, <2>2 DEF SweepGoes, NotSweeping
<1>2. ASSUME NEW from, NEW to \in {"idle", "close", "reminders", "remind"}, SweepGoes(from, to),
             RowOK(ticket', day), ticket.st # "none" => ticket'.st # "none"
      PROVE  SupportInv'
  BY <1>1, <1>2 DEF SupportInv
<1>3. RowOK(ticket, day)
  BY DEF SupportInv
<1>4. CASE SweepLists
  BY <1>2, <1>3, <1>4 DEF SweepLists
<1>5. CASE SweepListsReminders
  BY <1>2, <1>3, <1>5 DEF SweepListsReminders
<1>6. CASE _autoclose
  <2> DEFINE row == _set_status(ticket, "CLOSED", sweeping.now)
  <2>1. SweepGoes("close", "reminders") /\ ticket' = IF StillWaits THEN row ELSE ticket
    BY <1>6 DEF _autoclose
  <2>2. CASE StillWaits
    <3>1. sweeping.now \in Nat /\ sweeping.now <= day /\ day \in Nat
      BY SupportConstants DEF SupportInv
    <3>2. ticket.st # "none"
      BY <2>2 DEF StillWaits
    <3>3. RowOK(row, day) /\ row.st = "CLOSED"
      BY <1>3, <3>1, <3>2, SetStatusOK DEF STATUSES
    <3> HIDE DEF row
    <3> QED BY <1>2, <2>1, <2>2, <3>3
  <2>3. CASE ~StillWaits
    BY <1>2, <1>3, <2>1, <2>3
  <2> QED BY <2>2, <2>3
<1>7. CASE _remind
  <2> DEFINE b == ticket.reminded \/ StillWaits
             row == [ticket EXCEPT !.reminded = b]
  <2>1. SweepGoes("remind", "idle") /\ ticket' = row
    BY <1>7 DEF _remind
  <2>2. b \in BOOLEAN
    OBVIOUS
  <2> HIDE DEF b
  <2>3. /\ row \in TicketType /\ row.st = ticket.st /\ row.due = ticket.due
        /\ row.since = ticket.since /\ row.paused = ticket.paused
    BY <1>3, <2>2 DEF RowOK, TicketType
  <2> HIDE DEF row
  <2>4. RowOK(row, day)
    BY <1>3, <2>3 DEF RowOK
  <2> QED BY <1>2, <2>1, <2>3, <2>4
<1> QED BY <1>4, <1>5, <1>6, <1>7 DEF sweep_waiting

\* Every step of the tickets preserves the invariant.
LEMMA SupportStep == SupportInv /\ [SupportNext]_supportVars => SupportInv'
<1> SUFFICES ASSUME SupportInv, [SupportNext]_supportVars PROVE SupportInv'
  OBVIOUS
<1>1. CASE create_ticket \/ add_user_message \/ CloseReads \/ close_my_ticket
  BY <1>1, UserSteps
<1>2. CASE ticket.st # "none" /\ AgentStep
  BY <1>2, AgentSteps
<1>3. CASE RefundExecuted \/ return_refund_to_agent
  BY <1>3, RefundSteps
<1>4. CASE DayPasses
  <2>1. /\ day \in Nat /\ day' = day + 1 /\ day' <= MaxDays /\ day' \in Nat /\ day <= day'
        /\ UNCHANGED <<ticket, closing, refund, sweeping>>
    BY <1>4, SupportConstants DEF DayPasses, SupportInv
  <2>2. RowOK(ticket, day') /\ CloseOK(closing, day')
    BY <2>1, LaterOK DEF SupportInv
  <2>3. sweeping.now <= day'
    BY <2>1, SupportConstants DEF SupportInv
  <2> QED BY <2>1, <2>2, <2>3 DEF SupportInv
<1>5. CASE sweep_waiting
  BY <1>5, TicketSweepSteps
<1>6. CASE UNCHANGED supportVars
  BY <1>6 DEF supportVars, SupportInv
<1> QED BY <1>1, <1>2, <1>3, <1>4, <1>5, <1>6 DEF SupportNext

\* The strengthened invariant holds of every behaviour, whatever is fair.
LEMMA SupportInvAlways == SupportSpec => []SupportInv
BY SupportInitOK, SupportStep, PTL DEF SupportSpec

\* Every ticket has its type: no wait, pause or due time leaves the numbers, whoever writes.
THEOREM SupportTypes == SupportSpec => []SupportTypeOK
<1>1. SupportInv => SupportTypeOK
  BY SupportConstants DEF SupportInv, RowOK, TicketType, SupportTypeOK
<1> QED BY <1>1, SupportInvAlways, PTL

\* The due time is a policy's time plus the time spent waiting, and the waits fit in the
\* ticket's age, the user's stale close and the sweep's earlier time included
\* (enter_status, close_my_ticket, _autoclose, apply_due_times).
THEOREM DueCounted == SupportSpec => []DueCountsPauses
<1>1. SupportInv => DueCountsPauses
  <2> SUFFICES ASSUME SupportInv, ticket.st # "none" PROVE DueCountsPauses
    BY DEF DueCountsPauses
  <2>1. /\ day \in Nat /\ ticket.since \in Int /\ ticket.paused \in Nat /\ ticket.paused <= day
        /\ ticket.since # NoTime => ticket.paused <= ticket.since /\ ticket.since <= day
    BY DEF SupportInv, RowOK, ClockOK
  <2>2. \E p \in DOMAIN Minutes : ticket.due = Minutes[p] + ticket.paused
    BY DEF SupportInv, RowOK, Explained
  <2>3. EndsPause(ticket, "CLOSED") => ticket.since # NoTime
    BY DEF EndsPause
  <2>4. ticket.paused + (IF EndsPause(ticket, "CLOSED") THEN day - ticket.since ELSE 0) <= day
    BY <2>1, <2>3
  <2> QED BY <2>2, <2>4 DEF DueCountsPauses
<1> QED BY <1>1, SupportInvAlways, PTL

-----------------------------------------------------------------------------
(* Who may be on the road.  An open session belongs to a connection that is *)
(* still up: counting the connections bounds the sessions although a        *)
(* session is opened by a read and a write, and although a connection ends  *)
(* a session that another one opened.                                       *)

DrvType ==
  [st : {"off", "online", "blocked"}, approved : BOOLEAN, prev : BOOLEAN,
   susp : {"none", "suspended", "deactivated"}, kyc : BOOLEAN]

SocketPhases ==
  {"closed", "loaded", "session", "create", "locate", "add first", "add", "join", "open", "closing", "leaving"}

SockType == [pc : SocketPhases, grouped : BOOLEAN, told : BOOLEAN]

\* Past the opening of its session and not yet past closing one.
UpPhases == {"locate", "add first", "add", "join", "open", "closing"}
Up(f) == {s \in Sockets : f[s].pc \in UpPhases}

PresenceInv ==
  /\ drv \in DrvType /\ (drv.susp # "none" => ~drv.approved)
  /\ locked \in BOOLEAN /\ onRoad \in BOOLEAN /\ dropping \in BOOLEAN
  /\ sock \in [Sockets -> SockType]
  /\ sessions \in Nat /\ sessions <= Cardinality(Up(sock))

\* Between its read of the row and its write of the index.
AboutToAdd(s) == sock[s].pc \in {"add first", "add"}

\* What no step does to a deactivated driver: lift it, open a connection, or begin a write of the index.
NoWayBack ==
  drv.susp = "deactivated" =>
    /\ drv'.susp = "deactivated" /\ ~drv'.approved
    /\ \A s \in Sockets : /\ sock[s].pc = "closed" => sock'[s].pc = "closed"
                          /\ AboutToAdd(s)' => AboutToAdd(s)
    /\ onRoad' => onRoad \/ \E s \in Sockets : AboutToAdd(s)

\* The connections that are up, when one of them moves.
LEMMA UpMoves ==
  ASSUME NEW f \in [Sockets -> SockType], NEW g \in [Sockets -> SockType], NEW s \in Sockets,
         \A u \in Sockets \ {s} : g[u] = f[u]
  PROVE  /\ Cardinality(Up(f)) \in Nat /\ Cardinality(Up(g)) \in Nat
         /\ f[s].pc \in UpPhases /\ g[s].pc \in UpPhases => Cardinality(Up(g)) = Cardinality(Up(f))
         /\ f[s].pc \notin UpPhases /\ g[s].pc \notin UpPhases => Cardinality(Up(g)) = Cardinality(Up(f))
         /\ f[s].pc \notin UpPhases /\ g[s].pc \in UpPhases => Cardinality(Up(g)) = Cardinality(Up(f)) + 1
         /\ f[s].pc \in UpPhases /\ g[s].pc \notin UpPhases => Cardinality(Up(f)) = Cardinality(Up(g)) + 1
<1>1. PICK A, B : A = Up(f) /\ B = Up(g)
  OBVIOUS
<1>2. A \in SUBSET Sockets /\ B \in SUBSET Sockets
  BY <1>1 DEF Up
<1>3. IsFiniteSet(A) /\ IsFiniteSet(B)
  BY <1>2, PresenceConstants, FS_Subset
<1>4. Cardinality(A) \in Nat /\ Cardinality(B) \in Nat
  BY <1>3, FS_CardinalityType
<1>5. CASE (f[s].pc \in UpPhases) = (g[s].pc \in UpPhases)
  <2>1. A = B
    BY <1>1, <1>5 DEF Up
  <2> QED BY <1>1, <1>4, <1>5, <2>1
<1>6. CASE f[s].pc \notin UpPhases /\ g[s].pc \in UpPhases
  <2>1. B = A \cup {s} /\ s \notin A
    BY <1>1, <1>6 DEF Up
  <2>2. Cardinality(A \cup {s}) = Cardinality(A) + 1
    BY <1>3, <2>1, FS_AddElement
  <2> QED BY <1>1, <1>4, <1>6, <2>1, <2>2
<1>7. CASE f[s].pc \in UpPhases /\ g[s].pc \notin UpPhases
  <2>1. A = B \cup {s} /\ s \notin B
    BY <1>1, <1>7 DEF Up
  <2>2. Cardinality(B \cup {s}) = Cardinality(B) + 1
    BY <1>3, <2>1, FS_AddElement
  <2> QED BY <1>1, <1>4, <1>7, <2>1, <2>2
<1> QED BY <1>5, <1>6, <1>7

\* One connection moves on.
LEMMA SocketGoes ==
  ASSUME sock \in [Sockets -> SockType], NEW s \in Sockets, NEW pc \in SocketPhases, Goes(s, pc)
  PROVE  /\ sock' \in [Sockets -> SockType] /\ sock'[s].pc = pc
         /\ \A u \in Sockets \ {s} : sock'[u] = sock[u]
<1>1. sock' = [sock EXCEPT ![s] = [sock[s] EXCEPT !.pc = pc]]
  BY DEF Goes
<1>2. sock[s] \in SockType
  OBVIOUS
<1>3. [sock[s] EXCEPT !.pc = pc] \in SockType /\ [sock[s] EXCEPT !.pc = pc].pc = pc
  BY <1>2 DEF SockType
<1> QED BY <1>1, <1>3

\* Nobody is connected at first.
LEMMA PresenceInitOK == PresenceInit => PresenceInv
<1> SUFFICES ASSUME PresenceInit PROVE PresenceInv
  OBVIOUS
<1>1. /\ drv \in DrvType /\ drv.susp = "none" /\ locked \in BOOLEAN /\ onRoad \in BOOLEAN
      /\ dropping \in BOOLEAN /\ sessions = 0
  BY DEF PresenceInit, DrvType
<1>2. sock \in [Sockets -> SockType] /\ Up(sock) = {}
  BY DEF PresenceInit, SockType, SocketPhases, Up, UpPhases
<1> QED BY <1>1, <1>2, FS_EmptySet DEF PresenceInv

\* The operators, the callback and the passing of time move no connection.
LEMMA OperatorSteps ==
  ASSUME PresenceInv,
         \/ admin_approve_driver \/ admin_review_document \/ operator_suspend \/ operator_reinstate
         \/ execute_deactivate \/ DropRuns \/ get_fatigue_status
  PROVE  PresenceInv' /\ NoWayBack
<1>0. /\ drv \in DrvType /\ (drv.susp # "none" => ~drv.approved)
      /\ locked \in BOOLEAN /\ onRoad \in BOOLEAN /\ dropping \in BOOLEAN
      /\ sock \in [Sockets -> SockType] /\ sessions \in Nat /\ sessions <= Cardinality(Up(sock))
  BY DEF PresenceInv
<1>1. CASE admin_approve_driver
  <2>1. /\ drv' = [drv EXCEPT !.approved = TRUE] /\ drv.susp = "none"
        /\ UNCHANGED <<locked, onRoad, sock, sessions, dropping>>
    BY <1>1 DEF admin_approve_driver
  <2>2. drv' \in DrvType /\ drv'.susp = "none"
    BY <1>0, <2>1 DEF DrvType
  <2> QED BY <1>0, <2>1, <2>2 DEF PresenceInv, NoWayBack
<1>2. CASE admin_review_document
  <2>1. drv' = [drv EXCEPT !.kyc = ~drv.kyc] /\ UNCHANGED <<locked, onRoad, sock, sessions, dropping>>
    BY <1>2 DEF admin_review_document
  <2>2. drv' \in DrvType /\ drv'.susp = drv.susp /\ drv'.approved = drv.approved
    BY <1>0, <2>1 DEF DrvType
  <2> QED BY <1>0, <2>1, <2>2 DEF PresenceInv, NoWayBack, AboutToAdd
<1>3. CASE operator_suspend
  <2>1. /\ drv' = [drv EXCEPT !.susp = "suspended", !.prev = drv.approved, !.approved = FALSE, !.st = "blocked"]
        /\ drv.susp = "none" /\ dropping' = TRUE /\ UNCHANGED <<locked, onRoad, sock, sessions>>
    BY <1>3 DEF operator_suspend, _take_off_the_road
  <2>2. drv' \in DrvType /\ drv'.approved = FALSE
    BY <1>0, <2>1 DEF DrvType
  <2> QED BY <1>0, <2>1, <2>2 DEF PresenceInv, NoWayBack
<1>4. CASE operator_reinstate
  <2>1. PICK a \in BOOLEAN : a = (drv.prev /\ drv.kyc)
    BY <1>0 DEF DrvType
  <2>2. /\ drv' = [drv EXCEPT !.susp = "none", !.approved = a, !.st = "off"]
        /\ drv.susp = "suspended" /\ UNCHANGED <<locked, onRoad, sock, sessions, dropping>>
    BY <1>4, <2>1 DEF operator_reinstate
  <2>3. drv' \in DrvType /\ drv'.susp = "none"
    BY <1>0, <2>2 DEF DrvType
  <2> QED BY <1>0, <2>2, <2>3 DEF PresenceInv, NoWayBack
<1>5. CASE execute_deactivate
  <2>1. PICK prev \in BOOLEAN : prev = IF drv.susp = "none" THEN drv.approved ELSE drv.prev
    BY <1>0 DEF DrvType
  <2>2. /\ drv' = [drv EXCEPT !.susp = "deactivated", !.approved = FALSE, !.st = "blocked", !.prev = prev]
        /\ drv.susp # "deactivated" /\ dropping' = TRUE /\ UNCHANGED <<locked, onRoad, sock, sessions>>
    BY <1>5, <2>1 DEF execute_deactivate, _take_off_the_road
  <2>3. drv' \in DrvType /\ drv'.approved = FALSE
    BY <1>0, <2>2 DEF DrvType
  <2> QED BY <1>0, <2>2, <2>3 DEF PresenceInv, NoWayBack
<1>6. CASE DropRuns
  <2>1. /\ UNCHANGED <<drv, locked, sessions>> /\ dropping' \in BOOLEAN /\ onRoad' \in {onRoad, FALSE}
        /\ UNCHANGED sock \/ sock' = [s \in Sockets |-> [sock[s] EXCEPT !.told = @ \/ sock[s].grouped]]
    BY <1>6 DEF DropRuns
  <2>2. sock' \in [Sockets -> SockType] /\ \A s \in Sockets : sock'[s].pc = sock[s].pc
    <3>1. CASE UNCHANGED sock
      BY <1>0, <3>1
    <3>2. CASE sock' = [s \in Sockets |-> [sock[s] EXCEPT !.told = @ \/ sock[s].grouped]]
      <4>1. ASSUME NEW s \in Sockets PROVE sock'[s] \in SockType /\ sock'[s].pc = sock[s].pc
        <5>1. sock[s] \in SockType
          BY <1>0
        <5>2. PICK told \in BOOLEAN : told = (sock[s].told \/ sock[s].grouped)
          OBVIOUS
        <5>3. sock'[s] = [sock[s] EXCEPT !.told = told]
          BY <3>2, <5>2
        <5> QED BY <5>1, <5>3 DEF SockType
      <4> QED BY <3>2, <4>1
    <3> QED BY <2>1, <3>1, <3>2
  <2>3. Up(sock') = Up(sock)
    BY <2>2 DEF Up
  <2>4. onRoad' \in BOOLEAN /\ (onRoad' => onRoad)
    <3>1. CASE onRoad' = onRoad
      BY <1>0, <3>1
    <3>2. CASE onRoad' = FALSE
      BY <3>2
    <3> QED BY <2>1, <3>1, <3>2
  <2>5. PresenceInv'
    BY <1>0, <2>1, <2>2, <2>3, <2>4 DEF PresenceInv
  <2>6. \A s \in Sockets : (sock[s].pc = "closed" => sock'[s].pc = "closed") /\ (AboutToAdd(s)' => AboutToAdd(s))
    BY <2>2 DEF AboutToAdd
  <2>7. NoWayBack
    BY <1>0, <2>1, <2>4, <2>6 DEF NoWayBack
  <2> QED BY <2>5, <2>7
<1>7. CASE get_fatigue_status
  <2>1. locked' = ~locked /\ UNCHANGED <<drv, onRoad, sock, sessions, dropping>>
    BY <1>7 DEF get_fatigue_status
  <2>2. locked' \in BOOLEAN
    BY <2>1
  <2> QED BY <1>0, <2>1, <2>2 DEF PresenceInv, NoWayBack, AboutToAdd
<1> QED BY <1>1, <1>2, <1>3, <1>4, <1>5, <1>6, <1>7

\* A connection moves, and with it a session at most.
LEMMA ConnectionMoves ==
  ASSUME PresenceInv, NEW s \in Sockets, sock' \in [Sockets -> SockType],
         \A u \in Sockets \ {s} : sock'[u] = sock[u],
         drv' \in DrvType, drv'.susp = drv.susp, drv'.approved = drv.approved,
         locked' \in BOOLEAN, onRoad' \in BOOLEAN, UNCHANGED dropping, sessions' \in Nat,
         sock[s].pc \in UpPhases /\ sock'[s].pc \notin UpPhases => sessions' = 0 \/ sessions' + 1 = sessions,
         sock[s].pc \notin UpPhases /\ sock'[s].pc \in UpPhases => sessions' <= sessions + 1,
         sock[s].pc \in UpPhases /\ sock'[s].pc \in UpPhases => sessions' <= sessions,
         sock[s].pc \notin UpPhases /\ sock'[s].pc \notin UpPhases => sessions' <= sessions
  PROVE  PresenceInv'
<1>1. sock \in [Sockets -> SockType] /\ sessions \in Nat /\ sessions <= Cardinality(Up(sock))
  BY DEF PresenceInv
<1>2. PICK g \in [Sockets -> SockType] : g = sock'
  OBVIOUS
<1>3. /\ Cardinality(Up(sock)) \in Nat /\ Cardinality(Up(g)) \in Nat
      /\ sock[s].pc \in UpPhases /\ g[s].pc \in UpPhases => Cardinality(Up(g)) = Cardinality(Up(sock))
      /\ sock[s].pc \notin UpPhases /\ g[s].pc \notin UpPhases => Cardinality(Up(g)) = Cardinality(Up(sock))
      /\ sock[s].pc \notin UpPhases /\ g[s].pc \in UpPhases => Cardinality(Up(g)) = Cardinality(Up(sock)) + 1
      /\ sock[s].pc \in UpPhases /\ g[s].pc \notin UpPhases => Cardinality(Up(sock)) = Cardinality(Up(g)) + 1
  BY <1>1, <1>2, UpMoves
<1>4. sessions' <= Cardinality(Up(g))
  <2>1. PICK m \in Nat, n \in Nat : m = Cardinality(Up(sock)) /\ n = Cardinality(Up(g))
    BY <1>3
  <2>2. CASE sock[s].pc \in UpPhases /\ g[s].pc \notin UpPhases
    <3>1. m = n + 1 /\ (sessions' = 0 \/ sessions' + 1 = sessions)
      BY <1>2, <1>3, <2>1, <2>2
    <3>2. sessions \in Nat /\ sessions' \in Nat /\ sessions <= m
      BY <1>1, <2>1
    <3>3. sessions' <= n
      BY <3>1, <3>2
    <3> QED BY <2>1, <3>3
  <2>3. CASE sock[s].pc \notin UpPhases /\ g[s].pc \in UpPhases
    <3>1. n = m + 1 /\ sessions' <= sessions + 1
      BY <1>2, <1>3, <2>1, <2>3
    <3> QED BY <1>1, <2>1, <3>1
  <2>4. CASE (sock[s].pc \in UpPhases) = (g[s].pc \in UpPhases)
    <3>1. n = m /\ sessions' <= sessions
      BY <1>2, <1>3, <2>1, <2>4
    <3> QED BY <1>1, <2>1, <3>1
  <2> QED BY <2>2, <2>3, <2>4
<1>5. Up(sock)' = Up(g)
  BY <1>2 DEF Up
<1>6. drv'.susp # "none" => ~drv'.approved
  BY DEF PresenceInv
<1>7. dropping' \in BOOLEAN
  BY DEF PresenceInv
<1> QED BY <1>4, <1>5, <1>6, <1>7 DEF PresenceInv

\* What a connection does.
LEMMA ConnectionSteps ==
  ASSUME PresenceInv, NEW s \in Sockets, connect(s) \/ SocketStep(s) \/ HangsUp(s)
  PROVE  PresenceInv'
<1>0. /\ drv \in DrvType /\ locked \in BOOLEAN /\ onRoad \in BOOLEAN
      /\ sock \in [Sockets -> SockType] /\ sessions \in Nat
  BY DEF PresenceInv
<1>a. /\ {"loaded", "session", "create", "leaving", "closed"} \cap UpPhases = {}
      /\ UpPhases \subseteq SocketPhases /\ {"loaded", "session", "create", "leaving", "closed"} \subseteq SocketPhases
      /\ {"locate", "add first", "add", "join", "open", "closing"} = UpPhases
  BY DEF UpPhases, SocketPhases
<1>1. ASSUME NEW pc \in SocketPhases, Goes(s, pc), UNCHANGED <<sessions, dropping>>, locked' \in BOOLEAN,
             onRoad' \in BOOLEAN, drv' \in DrvType, drv'.susp = drv.susp, drv'.approved = drv.approved,
             sock[s].pc \in UpPhases => pc \in UpPhases
      PROVE  PresenceInv'
  <2>1. /\ sock' \in [Sockets -> SockType] /\ sock'[s].pc = pc
        /\ \A u \in Sockets \ {s} : sock'[u] = sock[u]
    BY <1>0, <1>1, SocketGoes
  <2>2. sessions' \in Nat /\ sessions' <= sessions /\ sessions' <= sessions + 1
    BY <1>0, <1>1
  <2> QED BY <1>1, <2>1, <2>2, ConnectionMoves
<1>2. CASE connect(s)
  BY <1>0, <1>1, <1>2, <1>a DEF connect
<1>3. CASE _active_the_driver(s)
  <2>1. sock[s].pc \notin UpPhases /\ UNCHANGED <<locked, onRoad, sessions, dropping>>
    BY <1>3, <1>a DEF _active_the_driver
  <2>2. CASE Goes(s, "locate") /\ UNCHANGED drv
    BY <1>0, <1>1, <1>a, <2>1, <2>2
  <2>3. CASE Goes(s, "session") /\ drv' = [drv EXCEPT !.st = "online"]
    <3>1. drv' \in DrvType /\ drv'.susp = drv.susp /\ drv'.approved = drv.approved
      BY <1>0, <2>3 DEF DrvType
    <3> QED BY <1>0, <1>1, <1>a, <2>1, <2>3, <3>1
  <2> QED BY <1>3, <2>2, <2>3 DEF _active_the_driver
<1>4. CASE record_session_start(s)
  <2>1. UNCHANGED <<drv, locked, onRoad, dropping>> /\ sock[s].pc \notin UpPhases
    BY <1>4, <1>a DEF record_session_start
  <2>2. CASE UNCHANGED sessions /\ (Goes(s, "locate") \/ Goes(s, "create"))
    BY <1>0, <1>1, <1>a, <2>1, <2>2
  <2>3. CASE sessions' = sessions + 1 /\ Goes(s, "locate")
    <3>1. /\ sock' \in [Sockets -> SockType] /\ sock'[s].pc = "locate"
          /\ \A u \in Sockets \ {s} : sock'[u] = sock[u]
      BY <1>0, <1>a, <2>3, SocketGoes
    <3>2. sessions' \in Nat /\ sessions' <= sessions + 1
      BY <1>0, <2>3
    <3>3. "locate" \in UpPhases
      BY <1>a
    <3> QED BY <1>0, <2>1, <3>1, <3>2, <3>3, ConnectionMoves
  <2> QED BY <1>4, <2>2, <2>3 DEF record_session_start
<1>5. CASE _add_driver_location(s)
  <2>1. UNCHANGED <<drv, locked, sessions, dropping>> /\ onRoad' \in BOOLEAN
    BY <1>0, <1>5 DEF _add_driver_location
  <2>2. PICK pc \in {"add first", "add", "join", "closing"} : Goes(s, pc)
    BY <1>5 DEF _add_driver_location
  <2>3. pc \in UpPhases /\ pc \in SocketPhases
    BY <1>a
  <2> QED BY <1>0, <1>1, <2>1, <2>2, <2>3
<1>6. CASE add_driver_location(s)
  <2>1. UNCHANGED <<drv, locked, sessions, dropping>> /\ onRoad' \in BOOLEAN
    BY <1>6 DEF add_driver_location
  <2>2. PICK pc \in {"open", "join"} : Goes(s, pc)
    BY <1>6 DEF add_driver_location
  <2>3. pc \in UpPhases /\ pc \in SocketPhases
    BY <1>a
  <2> QED BY <1>0, <1>1, <2>1, <2>2, <2>3
<1>7. CASE JoinGroup(s)
  <2>1. /\ sock[s].pc = "join" /\ sock' = [sock EXCEPT ![s] = [sock[s] EXCEPT !.pc = "open", !.grouped = TRUE]]
        /\ UNCHANGED <<drv, locked, onRoad, sessions, dropping>>
    BY <1>0, <1>7 DEF JoinGroup, SockType
  <2>2. sock[s] \in SockType
    BY <1>0
  <2>3. /\ [sock[s] EXCEPT !.pc = "open", !.grouped = TRUE] \in SockType
        /\ [sock[s] EXCEPT !.pc = "open", !.grouped = TRUE].pc = "open"
    BY <2>2 DEF SockType, SocketPhases
  <2>4. /\ sock' \in [Sockets -> SockType] /\ sock'[s].pc = "open"
        /\ \A u \in Sockets \ {s} : sock'[u] = sock[u]
    BY <1>0, <2>1, <2>3
  <2>5. sock[s].pc \in UpPhases /\ sock'[s].pc \in UpPhases
    BY <2>1, <2>4 DEF UpPhases
  <2>6. sessions' \in Nat /\ sessions' <= sessions
    BY <1>0, <2>1
  <2> QED BY <1>0, <2>1, <2>4, <2>5, <2>6, ConnectionMoves
<1>8. CASE driver_suspended(s) \/ HangsUp(s)
  <2>1. Goes(s, "closing") /\ UNCHANGED <<drv, locked, onRoad, sessions, dropping>>
    BY <1>8 DEF driver_suspended, HangsUp
  <2> QED BY <1>0, <1>1, <1>a, <2>1
<1>9. CASE _deactive_the_driver(s)
  <2>1. PICK st \in {"off", "blocked"} : drv' = [drv EXCEPT !.st = st]
    BY <1>9 DEF _deactive_the_driver
  <2>2. drv' \in DrvType /\ drv'.susp = drv.susp /\ drv'.approved = drv.approved
    BY <1>0, <2>1 DEF DrvType
  <2>3. sessions' \in Nat /\ (sessions' = 0 \/ sessions' + 1 = sessions)
    BY <1>0, <1>9 DEF _deactive_the_driver
  <2>4. /\ sock' \in [Sockets -> SockType] /\ sock'[s].pc = "leaving"
        /\ \A u \in Sockets \ {s} : sock'[u] = sock[u]
    BY <1>0, <1>9, <1>a, SocketGoes DEF _deactive_the_driver
  <2>5. /\ sock[s].pc \in UpPhases /\ sock'[s].pc \notin UpPhases
        /\ UNCHANGED <<locked, onRoad, dropping>>
    BY <1>9, <1>a, <2>4 DEF _deactive_the_driver
  <2> QED BY <1>0, <2>2, <2>3, <2>4, <2>5, ConnectionMoves
<1>10. CASE disconnect(s)
  <2>1. /\ sock[s].pc = "leaving" /\ onRoad' = FALSE /\ UNCHANGED <<drv, locked, sessions, dropping>>
        /\ sock' = [sock EXCEPT ![s] = [pc |-> "closed", grouped |-> FALSE, told |-> FALSE]]
    BY <1>10 DEF disconnect
  <2>2. /\ sock' \in [Sockets -> SockType] /\ sock'[s].pc = "closed"
        /\ \A u \in Sockets \ {s} : sock'[u] = sock[u]
    BY <1>0, <2>1 DEF SockType, SocketPhases
  <2>3. sock[s].pc \notin UpPhases /\ sock'[s].pc \notin UpPhases
    BY <1>a, <2>1, <2>2
  <2>4. sessions' \in Nat /\ sessions' <= sessions
    BY <1>0, <2>1
  <2> QED BY <1>0, <2>1, <2>2, <2>3, <2>4, ConnectionMoves
<1> QED BY <1>2, <1>3, <1>4, <1>5, <1>6, <1>7, <1>8, <1>9, <1>10 DEF SocketStep

\* Outside a QA environment a deactivated driver's connections only wind down.
LEMMA ConnectionsWindDown ==
  ASSUME PresenceInv, ~Qa, NEW s \in Sockets, connect(s) \/ SocketStep(s) \/ HangsUp(s)
  PROVE  NoWayBack
<1> SUFFICES ASSUME drv.susp = "deactivated"
             PROVE  /\ drv'.susp = "deactivated" /\ ~drv'.approved
                    /\ \A u \in Sockets : /\ sock[u].pc = "closed" => sock'[u].pc = "closed"
                                          /\ AboutToAdd(u)' => AboutToAdd(u)
                    /\ onRoad' => onRoad \/ \E u \in Sockets : AboutToAdd(u)
  BY DEF NoWayBack
<1>0. drv \in DrvType /\ ~drv.approved /\ sock \in [Sockets -> SockType]
  BY DEF PresenceInv
<1>1. ~may_operate /\ ~is_dispatchable
  BY <1>0 DEF may_operate, is_dispatchable
<1>2. ~connect(s)
  BY <1>1 DEF connect
<1>3. drv'.susp = "deactivated" /\ ~drv'.approved
  <2>1. UNCHANGED drv \/ \E st : drv' = [drv EXCEPT !.st = st]
    BY <1>2 DEF SocketStep, HangsUp, _active_the_driver, record_session_start, _add_driver_location,
                add_driver_location, JoinGroup, driver_suspended, _deactive_the_driver, disconnect
  <2> QED BY <1>0, <2>1 DEF DrvType
<1>4. sock[s].pc # "closed"
  BY <1>2 DEF SocketStep, HangsUp, _active_the_driver, record_session_start, _add_driver_location,
              add_driver_location, JoinGroup, driver_suspended, _deactive_the_driver, disconnect
<1>5. PICK row : sock' = [sock EXCEPT ![s] = row] /\ row.pc \notin {"add first", "add"}
  <2>1. ASSUME NEW pc, Goes(s, pc), pc \notin {"add first", "add"}
        PROVE  \E row : sock' = [sock EXCEPT ![s] = row] /\ row.pc \notin {"add first", "add"}
    <3>1. sock' = [sock EXCEPT ![s] = [sock[s] EXCEPT !.pc = pc]]
      BY <2>1 DEF Goes
    <3>2. sock[s] \in SockType
      BY <1>0
    <3>3. [sock[s] EXCEPT !.pc = pc].pc = pc
      BY <3>2 DEF SockType
    <3> QED BY <2>1, <3>1, <3>3
  <2>2. CASE _active_the_driver(s) \/ record_session_start(s)
    BY <2>1, <2>2 DEF _active_the_driver, record_session_start
  <2>3. CASE _add_driver_location(s)
    <3>1. Goes(s, "join") \/ Goes(s, "closing")
      BY <1>1, <2>3 DEF _add_driver_location
    <3> QED BY <2>1, <3>1
  <2>4. CASE add_driver_location(s)
    <3>1. Goes(s, "join") \/ Goes(s, "open")
      BY <2>4 DEF add_driver_location
    <3> QED BY <2>1, <3>1
  <2>5. CASE driver_suspended(s) \/ HangsUp(s) \/ _deactive_the_driver(s)
    BY <2>1, <2>5 DEF driver_suspended, HangsUp, _deactive_the_driver
  <2>6. CASE JoinGroup(s)
    <3>1. sock' = [sock EXCEPT ![s] = [sock[s] EXCEPT !.pc = "open", !.grouped = TRUE]]
      BY <1>0, <2>6 DEF JoinGroup, SockType
    <3>2. sock[s] \in SockType
      BY <1>0
    <3>3. [sock[s] EXCEPT !.pc = "open", !.grouped = TRUE].pc = "open"
      BY <3>2 DEF SockType
    <3> QED BY <3>1, <3>3
  <2>7. CASE disconnect(s)
    <3>1. PICK row : row = [pc |-> "closed", grouped |-> FALSE, told |-> FALSE]
      OBVIOUS
    <3>2. sock' = [sock EXCEPT ![s] = row] /\ row.pc = "closed"
      BY <2>7, <3>1 DEF disconnect
    <3> QED BY <3>2
  <2> QED BY <1>2, <2>2, <2>3, <2>4, <2>5, <2>6, <2>7 DEF SocketStep
<1>6. \A u \in Sockets : sock'[u] = IF u = s THEN row ELSE sock[u]
  BY <1>0, <1>5
<1>7. \A u \in Sockets : (sock[u].pc = "closed" => sock'[u].pc = "closed") /\ (AboutToAdd(u)' => AboutToAdd(u))
  BY <1>4, <1>5, <1>6 DEF AboutToAdd
<1>8. onRoad' => onRoad \/ AboutToAdd(s)
  BY <1>1, <1>2 DEF SocketStep, HangsUp, _active_the_driver, record_session_start, _add_driver_location,
                    add_driver_location, JoinGroup, driver_suspended, _deactive_the_driver, disconnect, AboutToAdd
<1> QED BY <1>3, <1>7, <1>8

\* Every step keeps the invariant.
LEMMA PresenceStep == PresenceInv /\ [PresenceNext]_presenceVars => PresenceInv'
<1> SUFFICES ASSUME PresenceInv, [PresenceNext]_presenceVars PROVE PresenceInv'
  OBVIOUS
<1>1. CASE UNCHANGED presenceVars
  <2>1. UNCHANGED <<drv, locked, onRoad, sock, sessions, dropping>>
    BY <1>1 DEF presenceVars
  <2> QED BY <2>1 DEF PresenceInv, Up
<1>2. CASE PresenceNext
  BY <1>2, OperatorSteps, ConnectionSteps DEF PresenceNext
<1> QED BY <1>1, <1>2

\* The driver row and its connections keep their shapes, and a driver never has more working sessions
\* open than connections, although record_session_start looks for an open session and creates one in
\* two queries and _deactive_the_driver ends whichever it finds.
THEOREM PresenceTypes == PresenceSpec => []PresenceTypeOK
<1>1. PresenceInv => PresenceTypeOK
  <2> SUFFICES ASSUME PresenceInv PROVE PresenceTypeOK
    OBVIOUS
  <2>1. Up(sock) \in SUBSET Sockets
    BY DEF Up
  <2>2. /\ Cardinality(Up(sock)) <= Cardinality(Sockets) /\ Cardinality(Up(sock)) \in Nat
        /\ Cardinality(Sockets) \in Nat
    <3>1. IsFiniteSet(Up(sock)) /\ Cardinality(Up(sock)) <= Cardinality(Sockets)
      BY <2>1, PresenceConstants, FS_Subset
    <3> QED BY <3>1, PresenceConstants, FS_CardinalityType
  <2>3. sessions \in 0 .. Cardinality(Sockets)
    BY <2>2 DEF PresenceInv
  <2>4. sock \in [Sockets -> SockType] /\ drv \in DrvType
    BY DEF PresenceInv
  <2> QED BY <2>3, <2>4 DEF PresenceInv, PresenceTypeOK, DrvType, SockType, SocketPhases
<1> QED BY <1>1, PresenceInitOK, PresenceStep, PTL DEF PresenceSpec

\* The safety half of DeactivatedStaysOff: outside a QA environment nothing lifts a deactivation, opens
\* a connection for the driver or begins a write of the dispatch index; only a write that was already
\* under way can still land (operator_reinstate, admin_approve_driver, connect, _add_driver_location).
THEOREM DeactivationIsFinal ==
  ASSUME ~Qa
  PROVE  PresenceSpec => [][NoWayBack]_presenceVars
<1>1. PresenceInv /\ [PresenceNext]_presenceVars => [NoWayBack]_presenceVars
  BY OperatorSteps, ConnectionsWindDown DEF PresenceNext
<1> QED BY <1>1, PresenceInitOK, PresenceStep, PTL DEF PresenceSpec
=============================================================================
