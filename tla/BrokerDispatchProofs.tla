------------------------ MODULE BrokerDispatchProofs ------------------------
(* Proofs about BrokerDispatch, for any number of lines, faults and, where *)
(* the theorem does not say otherwise, dispatcher processes.               *)
EXTENDS BrokerDispatch, FiniteSetTheorems, TLAPS

(* A held envelope is one the broker numbered.                             *)
HeldNumbered ==
  \A w \in Workers :
    pass[w].pc = "appending" =>
      pass[w].held \in Receipt /\ pass[w].held.seq <= MaxSeq

Typed == TypeOK /\ HeldNumbered

(* Nobody works before the claim, and nothing has been received.           *)
QuietBeforeClaim ==
  status = "OUTBOX_DURABLE" =>
    inbox = {} /\ \A w \in Workers : pass[w] = Idle

(* A positive answer, in the inbox or in hand, is one the broker stands by.*)
AckedIsAccepted ==
  /\ \A r \in inbox : r.kind = "order_ack" => r.line \in accepted
  /\ \A w \in Workers :
       pass[w].pc = "appending" /\ pass[w].held.kind = "order_ack" =>
         pass[w].held.line \in accepted

(* An acknowledged entry has an acceptance of every line on file.          *)
AckOnFile ==
  status = "BROKER_ACK" =>
    \A l \in Lines : \E r \in inbox : r.line = l /\ r.kind = "order_ack"

DispatchInv == Typed /\ QuietBeforeClaim /\ AckedIsAccepted /\ AckOnFile

(* One pass: what it still has to send has no receipt, on file or in hand. *)
TodoIsOpen ==
  \A w \in Workers :
    /\ pass[w].todo \cap Terminal = {}
    /\ pass[w].pc = "appending" => pass[w].held.line \notin pass[w].todo

(* No pass runs on once the entry is acknowledged, and none was refused.   *)
AckIsLast ==
  status = "BROKER_ACK" =>
    Rejected = {} /\ \A w \in Workers : pass[w] = Idle

LoneWorker == \A v, w \in Workers : v = w
LoneInv == DispatchInv /\ TodoIsOpen /\ AckIsLast

-----------------------------------------------------------------------------

LEMMA SeqBound == MaxSeq \in Nat /\ Prior \in 0..MaxSeq
<1>1. Cardinality(Workers) \in Nat
  BY FS_CardinalityType, DispatchAssumption
<1>2. NLines * Cardinality(Workers) \in Nat
  BY <1>1, DispatchAssumption, SMT
<1>3. QED
  BY <1>2, DispatchAssumption, SMT DEF MaxSeq

LEMMA NextSeqBound ==
  ASSUME brokerSeq \in 0..MaxSeq
  PROVE  NextSeq \in 0..MaxSeq /\ NextSeq \in Nat
  BY SeqBound DEF NextSeq

(* A step on one worker's pass leaves the others alone.                    *)
LEMMA PassSet ==
  ASSUME TypeOK, NEW w \in Workers, NEW p, pass' = [pass EXCEPT ![w] = p]
  PROVE  pass'[w] = p /\ \A v \in Workers : v # w => pass'[v] = pass[v]
  BY DEF TypeOK

PassType == [pc: {"idle", "sending", "appending"}, todo: SUBSET Lines,
             held: Receipt \cup {NoEnvelope}]

LEMMA PassTyped ==
  ASSUME TypeOK, NEW w \in Workers, NEW p \in PassType,
         pass' = [pass EXCEPT ![w] = p]
  PROVE  pass' \in [Workers -> PassType]
  BY DEF TypeOK, PassType

LEMMA SendingTyped ==
  ASSUME NEW todo \in SUBSET Lines PROVE Sending(todo) \in PassType
  BY DEF Sending, PassType

LEMMA IdleTyped == Idle \in PassType
  BY DEF Idle, PassType

LEMMA PassFields ==
  /\ Idle.pc = "idle" /\ Idle.todo = {}
  /\ \A todo : Sending(todo).pc = "sending" /\ Sending(todo).todo = todo
  BY DEF Idle, Sending

LEMMA AppendingTyped ==
  ASSUME NEW todo \in SUBSET Lines, NEW r \in Receipt
  PROVE  [pc |-> "appending", todo |-> todo, held |-> r] \in PassType
  BY DEF PassType

LEMMA InitTyped == Init => Typed
  BY SeqBound, IdleTyped, PassFields, DispatchAssumption
  DEF Init, Typed, TypeOK, HeldNumbered, PassType, InFlight

-----------------------------------------------------------------------------
(* Type correctness.                                                       *)

LEMMA TypedStep ==
  ASSUME Typed, NEW w \in Workers, NEW p \in PassType,
         p.pc = "appending" => p.held \in Receipt /\ p.held.seq <= MaxSeq,
         pass' = [pass EXCEPT ![w] = p],
         status' \in {"OUTBOX_DURABLE"} \cup InFlight,
         inbox' \subseteq Receipt, accepted' \subseteq Lines,
         last' \in 0..MaxSeq, brokerSeq' \in 0..MaxSeq,
         crashes' \in 0..MaxCrash, unauth' \in 0..MaxUnauth
  PROVE  Typed'
<1>1. TypeOK'
  BY PassTyped DEF Typed, TypeOK, PassType
<1>2. HeldNumbered'
  BY PassSet DEF Typed, HeldNumbered
<1>3. QED
  BY <1>1, <1>2 DEF Typed

LEMMA TypedParts ==
  ASSUME Typed, NEW w \in Workers
  PROVE  /\ status \in {"OUTBOX_DURABLE"} \cup InFlight
         /\ inbox \subseteq Receipt /\ accepted \subseteq Lines
         /\ last \in 0..MaxSeq /\ brokerSeq \in 0..MaxSeq
         /\ crashes \in 0..MaxCrash /\ unauth \in 0..MaxUnauth
         /\ pass[w].todo \in SUBSET Lines
         /\ pass[w].pc = "appending" =>
              pass[w].held \in Receipt /\ pass[w].held.seq <= MaxSeq
  BY DEF Typed, TypeOK, HeldNumbered

LEMMA StartTyped ==
  ASSUME Typed, NEW w \in Workers, RunOnce(w) \/ Resend(w)
  PROVE  Typed'
<1> USE TypedParts
<1>1. PICK todo \in SUBSET Lines : pass' = [pass EXCEPT ![w] = Sending(todo)]
  BY DEF RunOnce, Resend, ToResend
<1>2. status' \in {"OUTBOX_DURABLE"} \cup InFlight
  BY DEF RunOnce, Resend, InFlight
<1>3. UNCHANGED <<inbox, last, brokerSeq, accepted, crashes, unauth>>
  BY DEF RunOnce, Resend
<1>4. Sending(todo) \in PassType /\ Sending(todo).pc # "appending"
  BY SendingTyped, PassFields
<1>5. QED
  BY <1>1, <1>2, <1>3, <1>4, TypedStep

LEMMA SubmitTyped ==
  ASSUME Typed, NEW w \in Workers, Submit(w)
  PROVE  Typed'
<1> USE TypedParts
<1>1. PICK l \in Lines :
        \/ \E arrived \in BOOLEAN : Timeout(w, l, arrived)
        \/ Unauthenticated(w, l)
        \/ \E kind \in Kinds : Answer(w, l, kind)
  BY DEF Submit
<1>2. pass[w].todo \ {l} \in SUBSET Lines
  OBVIOUS
<1>3. Sending(pass[w].todo \ {l}) \in PassType
      /\ Sending(pass[w].todo \ {l}).pc # "appending"
  BY <1>2, SendingTyped, PassFields
<1>4. CASE \E arrived \in BOOLEAN : Timeout(w, l, arrived)
  <2>1. accepted' \subseteq Lines
    BY <1>4 DEF Timeout
  <2>2. QED
    BY <1>3, <1>4, <2>1, TypedStep DEF Timeout
<1>5. CASE Unauthenticated(w, l)
  <2>1. brokerSeq' \in 0..MaxSeq
    BY <1>5, NextSeqBound DEF Unauthenticated
  <2>2. unauth' \in 0..MaxUnauth
    BY <1>5, DispatchAssumption DEF Unauthenticated
  <2>3. QED
    BY <1>3, <1>5, <2>1, <2>2, TypedStep DEF Unauthenticated
<1>6. CASE \E kind \in Kinds : Answer(w, l, kind)
  <2>1. PICK kind \in Kinds : Answer(w, l, kind)
    BY <1>6
  <2>2. NextSeq \in 0..MaxSeq /\ NextSeq \in Nat /\ NextSeq <= MaxSeq
    BY NextSeqBound, SeqBound
  <2>3. PICK r \in Receipt : r = [line |-> l, kind |-> kind, seq |-> NextSeq]
    BY <2>2 DEF Receipt
  <2>4. PICK p \in PassType :
          p = [pc |-> "appending", todo |-> pass[w].todo \ {l}, held |-> r]
    BY <1>2, AppendingTyped
  <2>5. pass' = [pass EXCEPT ![w] = p] /\ p.held = r /\ r.seq = NextSeq
    BY <2>1, <2>3, <2>4 DEF Answer
  <2>6. accepted' \subseteq Lines
    BY <2>1 DEF Answer
  <2>7. QED
    BY <2>1, <2>2, <2>5, <2>6, TypedStep DEF Answer
<1>7. QED
  BY <1>1, <1>4, <1>5, <1>6

LEMMA AppendTyped ==
  ASSUME Typed, NEW w \in Workers, Append(w)
  PROVE  Typed'
<1> USE TypedParts
<1>1. pass[w].held \in Receipt /\ pass[w].held.seq \in 0..MaxSeq
  BY SeqBound DEF Append, Receipt
<1>2. CASE Follows(pass[w].held.seq)
  <2>1. Sending(pass[w].todo) \in PassType
        /\ Sending(pass[w].todo).pc # "appending"
    BY SendingTyped, PassFields
  <2>2. inbox' \subseteq Receipt /\ last' \in 0..MaxSeq
    BY <1>1, <1>2 DEF Append
  <2>3. pass' = [pass EXCEPT ![w] = Sending(pass[w].todo)]
    BY <1>2 DEF Append
  <2>4. UNCHANGED <<status, brokerSeq, accepted, crashes, unauth>>
    BY DEF Append
  <2>5. QED
    BY <2>1, <2>2, <2>3, <2>4, TypedStep
<1>3. CASE ~Follows(pass[w].held.seq)
  <2>1. Idle \in PassType /\ Idle.pc # "appending"
    BY IdleTyped, PassFields
  <2>2. pass' = [pass EXCEPT ![w] = Idle] /\ UNCHANGED <<inbox, last>>
    BY <1>3 DEF Append
  <2>3. UNCHANGED <<status, brokerSeq, accepted, crashes, unauth>>
    BY DEF Append
  <2>4. QED
    BY <2>1, <2>2, <2>3, TypedStep
<1>4. QED
  BY <1>2, <1>3

LEMMA EndTyped ==
  ASSUME Typed, NEW w \in Workers, Report(w) \/ Crash(w)
  PROVE  Typed'
<1> USE TypedParts
<1>1. Idle \in PassType /\ Idle.pc # "appending"
  BY IdleTyped, PassFields
<1>2. pass' = [pass EXCEPT ![w] = Idle]
  BY DEF Report, Crash
<1>3. status' \in {"OUTBOX_DURABLE"} \cup InFlight
  BY DEF Report, Crash, Delivery, InFlight
<1>4. crashes' \in 0..MaxCrash
  BY DispatchAssumption DEF Report, Crash
<1>5. UNCHANGED <<inbox, last, brokerSeq, accepted, unauth>>
  BY DEF Report, Crash
<1>6. QED
  BY <1>1, <1>2, <1>3, <1>4, <1>5, TypedStep

LEMMA StutterTyped == Typed /\ UNCHANGED vars => Typed'
  BY DEF Typed, TypeOK, HeldNumbered, vars

LEMMA NextTyped == Typed /\ [Next]_vars => Typed'
  BY StartTyped, SubmitTyped, AppendTyped, EndTyped, StutterTyped
  DEF Next, Progress

(* Whatever the crashes, lost answers and refusals, every row, envelope    *)
(* and sequence number stays in its range (dispatcher.py, raw_inbox.py).   *)
THEOREM DispatchTypeOK == Spec => []TypeOK
<1>1. Typed => TypeOK
  BY DEF Typed
<1>2. QED
  BY InitTyped, NextTyped, <1>1, PTL DEF Spec

-----------------------------------------------------------------------------
(* Acknowledgements, for any number of processes.                          *)

(* What a step of one worker has to establish about its own pass.          *)
LEMMA InvStep ==
  ASSUME DispatchInv, Typed', NEW w \in Workers, NEW p,
         pass' = [pass EXCEPT ![w] = p],
         status' # "OUTBOX_DURABLE",
         inbox \subseteq inbox', accepted \subseteq accepted',
         \A r \in inbox' \ inbox : r.kind = "order_ack" => r.line \in accepted',
         p.pc = "appending" /\ p.held.kind = "order_ack" =>
           p.held.line \in accepted',
         status' = "BROKER_ACK" /\ status # "BROKER_ACK" =>
           \A l \in Lines : \E r \in inbox : r.line = l /\ r.kind = "order_ack"
  PROVE  DispatchInv'
<1>1. QuietBeforeClaim'
  BY DEF QuietBeforeClaim
<1>2. pass'[w] = p /\ \A v \in Workers : v # w => pass'[v] = pass[v]
  BY PassSet DEF DispatchInv, Typed
<1>3. AckedIsAccepted'
  <2>1. \A r \in inbox' : r.kind = "order_ack" => r.line \in accepted'
    BY DEF DispatchInv, AckedIsAccepted
  <2>2. \A v \in Workers :
          pass'[v].pc = "appending" /\ pass'[v].held.kind = "order_ack" =>
            pass'[v].held.line \in accepted'
    BY <1>2 DEF DispatchInv, AckedIsAccepted
  <2>3. QED
    BY <2>1, <2>2 DEF AckedIsAccepted
<1>4. AckOnFile'
  BY DEF DispatchInv, AckOnFile
<1>5. QED
  BY <1>1, <1>3, <1>4 DEF DispatchInv

(* A worker with a pass has claimed.                                       *)
LEMMA Claimed ==
  ASSUME DispatchInv, NEW w \in Workers, pass[w].pc # "idle"
  PROVE  status # "OUTBOX_DURABLE"
  BY PassFields DEF DispatchInv, QuietBeforeClaim

LEMMA StartInv ==
  ASSUME DispatchInv, NEW w \in Workers, RunOnce(w) \/ Resend(w)
  PROVE  DispatchInv'
<1>1. PICK todo : pass' = [pass EXCEPT ![w] = Sending(todo)]
  BY DEF RunOnce, Resend
<1>2. Sending(todo).pc # "appending"
  BY PassFields
<1>3. status' \notin {"OUTBOX_DURABLE", "BROKER_ACK"}
  BY DEF RunOnce, Resend, ResendFrom
<1>4. UNCHANGED <<inbox, accepted>>
  BY DEF RunOnce, Resend
<1>5. Typed'
  BY StartTyped DEF DispatchInv
<1>6. QED
  BY <1>1, <1>2, <1>3, <1>4, <1>5, InvStep

LEMMA SubmitInv ==
  ASSUME DispatchInv, NEW w \in Workers, Submit(w)
  PROVE  DispatchInv'
<1>1. PICK l \in Lines :
        \/ \E arrived \in BOOLEAN : Timeout(w, l, arrived)
        \/ Unauthenticated(w, l)
        \/ \E kind \in Kinds : Answer(w, l, kind)
  BY DEF Submit
<1>2. status # "OUTBOX_DURABLE"
  <2>1. pass[w].pc # "idle"
    BY <1>1 DEF Timeout, Unauthenticated, Answer, Sends
  <2>2. QED
    BY <2>1, Claimed
<1>3. PICK p : /\ pass' = [pass EXCEPT ![w] = p]
               /\ p.pc = "appending" /\ p.held.kind = "order_ack" =>
                    p.held.line \in accepted'
  BY <1>1, PassFields DEF Timeout, Unauthenticated, Answer
<1>4. UNCHANGED <<status, inbox>> /\ accepted \subseteq accepted'
  BY <1>1 DEF Timeout, Unauthenticated, Answer
<1>5. Typed'
  BY SubmitTyped DEF DispatchInv
<1>6. QED
  BY <1>2, <1>3, <1>4, <1>5, InvStep

LEMMA AppendInv ==
  ASSUME DispatchInv, NEW w \in Workers, Append(w)
  PROVE  DispatchInv'
<1>1. status # "OUTBOX_DURABLE"
  BY Claimed DEF Append
<1>2. PICK p : pass' = [pass EXCEPT ![w] = p] /\ p.pc # "appending"
  BY PassFields DEF Append
<1>3. UNCHANGED <<status, accepted>> /\ inbox \subseteq inbox'
      /\ inbox' \ inbox \subseteq {pass[w].held}
  BY DEF Append
<1>4. pass[w].held.kind = "order_ack" => pass[w].held.line \in accepted
  BY DEF DispatchInv, AckedIsAccepted, Append
<1>5. Typed'
  BY AppendTyped DEF DispatchInv
<1>6. QED
  BY <1>1, <1>2, <1>3, <1>4, <1>5, InvStep

LEMMA EndInv ==
  ASSUME DispatchInv, NEW w \in Workers, Report(w) \/ Crash(w)
  PROVE  DispatchInv'
<1>1. status # "OUTBOX_DURABLE"
  BY Claimed, PassFields DEF Report, Crash, DispatchInv, QuietBeforeClaim
<1>2. pass' = [pass EXCEPT ![w] = Idle] /\ Idle.pc # "appending"
  BY PassFields DEF Report, Crash
<1>3. UNCHANGED <<inbox, accepted>> /\ status' # "OUTBOX_DURABLE"
  BY <1>1 DEF Report, Crash, Delivery
<1>4. ASSUME status' = "BROKER_ACK", status # "BROKER_ACK", NEW l \in Lines
      PROVE  \E r \in inbox : r.line = l /\ r.kind = "order_ack"
  <2>1. Lines \subseteq Terminal /\ Rejected = {}
    BY <1>4 DEF Report, Crash, Delivery
  <2>2. PICK r \in inbox : r.line = l
    BY <2>1 DEF Terminal
  <2>3. r.kind \in Kinds /\ r.kind # "order_reject"
    BY <2>1, <2>2 DEF Rejected, DispatchInv, Typed, TypeOK, Receipt
  <2>4. QED
    BY <2>2, <2>3 DEF Kinds
<1>5. Typed'
  BY EndTyped DEF DispatchInv
<1>6. QED
  BY <1>2, <1>3, <1>4, <1>5, InvStep

LEMMA StutterInv == DispatchInv /\ UNCHANGED vars => DispatchInv'
  BY StutterTyped
  DEF DispatchInv, QuietBeforeClaim, AckedIsAccepted, AckOnFile, vars

LEMMA InitInv == Init => DispatchInv
  BY InitTyped, PassFields
  DEF Init, DispatchInv, QuietBeforeClaim, AckedIsAccepted, AckOnFile

LEMMA NextInv == DispatchInv /\ [Next]_vars => DispatchInv'
  BY StartInv, SubmitInv, AppendInv, EndInv, StutterInv DEF Next, Progress

(* However many processes drive the entry, an acknowledgement means that   *)
(* the broker has accepted every line and that a durable acceptance of     *)
(* each is on file (_delivery_for).                                        *)
THEOREM AckReachedTheBroker ==
  Spec => [](status = "BROKER_ACK" =>
               /\ Lines \subseteq accepted
               /\ \A l \in Lines :
                    \E r \in inbox : r.line = l /\ r.kind = "order_ack")
<1>1. DispatchInv => (status = "BROKER_ACK" =>
        /\ Lines \subseteq accepted
        /\ \A l \in Lines : \E r \in inbox : r.line = l /\ r.kind = "order_ack")
  BY DEF DispatchInv, AckedIsAccepted, AckOnFile
<1>2. QED
  BY InitInv, NextInv, <1>1, PTL DEF Spec

-----------------------------------------------------------------------------
(* One process.  A second one can append a receipt after the first has     *)
(* listed what it resends, so neither theorem below extends to two.        *)

LEMMA InitLone == Init => LoneInv
  BY InitInv, PassFields
  DEF Init, LoneInv, TodoIsOpen, AckIsLast, Terminal

LEMMA LonePass ==
  ASSUME LoneWorker, TypeOK, NEW w \in Workers, NEW p,
         pass' = [pass EXCEPT ![w] = p]
  PROVE  \A v \in Workers : pass'[v] = p
  BY PassSet DEF LoneWorker

(* While the only worker has a pass, the entry is not acknowledged.        *)
LEMMA NotYetAcked ==
  ASSUME LoneInv, NEW w \in Workers, pass[w].pc # "idle"
  PROVE  status # "BROKER_ACK"
  BY PassFields DEF LoneInv, AckIsLast

LEMMA StartLone ==
  ASSUME LoneWorker, LoneInv, NEW w \in Workers, RunOnce(w) \/ Resend(w)
  PROVE  LoneInv'
<1>1. UNCHANGED inbox /\ status' # "BROKER_ACK"
  BY DEF RunOnce, Resend, ResendFrom
<1>2. PICK todo : pass' = [pass EXCEPT ![w] = Sending(todo)]
                  /\ todo \cap Terminal = {}
  <2>1. CASE RunOnce(w)
    <3>1. Terminal = {}
      BY <2>1 DEF RunOnce, LoneInv, DispatchInv, QuietBeforeClaim, Terminal
    <3>2. QED
      BY <2>1, <3>1 DEF RunOnce
  <2>2. CASE Resend(w)
    <3>1. ToResend \cap Terminal = {}
      BY DEF ToResend
    <3>2. QED
      BY <2>2, <3>1 DEF Resend
  <2>3. QED
    BY <2>1, <2>2
<1>3. \A v \in Workers : pass'[v] = Sending(todo)
  BY <1>2, LonePass DEF LoneInv, DispatchInv, Typed
<1>4. TodoIsOpen'
  BY <1>1, <1>2, <1>3, PassFields DEF TodoIsOpen, Terminal
<1>5. DispatchInv'
  BY StartInv DEF LoneInv
<1>6. QED
  BY <1>1, <1>4, <1>5 DEF LoneInv, AckIsLast

LEMMA SubmitLone ==
  ASSUME LoneWorker, LoneInv, NEW w \in Workers, Submit(w)
  PROVE  LoneInv'
<1>1. PICK l \in Lines :
        \/ \E arrived \in BOOLEAN : Timeout(w, l, arrived)
        \/ Unauthenticated(w, l)
        \/ \E kind \in Kinds : Answer(w, l, kind)
  BY DEF Submit
<1>2. pass[w].pc # "idle" /\ UNCHANGED <<status, inbox>>
  BY <1>1 DEF Timeout, Unauthenticated, Answer, Sends
<1>3. PICK p : /\ pass' = [pass EXCEPT ![w] = p]
               /\ p.todo = pass[w].todo \ {l}
               /\ p.pc = "appending" => p.held.line = l
  <2>1. CASE ~\E kind \in Kinds : Answer(w, l, kind)
    <3>1. pass' = [pass EXCEPT ![w] = Sending(pass[w].todo \ {l})]
      BY <1>1, <2>1 DEF Timeout, Unauthenticated
    <3>2. QED
      BY <3>1, PassFields
  <2>2. CASE \E kind \in Kinds : Answer(w, l, kind)
    <3>1. PICK kind \in Kinds : Answer(w, l, kind)
      BY <2>2
    <3>2. PICK r : r = [line |-> l, kind |-> kind, seq |-> NextSeq]
      OBVIOUS
    <3>3. PICK p : p = [pc |-> "appending", todo |-> pass[w].todo \ {l},
                        held |-> r]
      OBVIOUS
    <3>4. pass' = [pass EXCEPT ![w] = p]
      BY <3>1, <3>2, <3>3 DEF Answer
    <3>5. p.todo = pass[w].todo \ {l} /\ p.held = r /\ r.line = l
      BY <3>2, <3>3
    <3>6. QED
      BY <3>4, <3>5
  <2>3. QED
    BY <2>1, <2>2
<1>4. \A v \in Workers : pass'[v] = p
  BY <1>3, LonePass DEF LoneInv, DispatchInv, Typed
<1>5. TodoIsOpen'
  BY <1>2, <1>3, <1>4 DEF LoneInv, TodoIsOpen, Terminal
<1>6. AckIsLast'
  BY <1>2, NotYetAcked DEF AckIsLast
<1>7. DispatchInv'
  BY SubmitInv DEF LoneInv
<1>8. QED
  BY <1>5, <1>6, <1>7 DEF LoneInv

LEMMA AppendLone ==
  ASSUME LoneWorker, LoneInv, NEW w \in Workers, Append(w)
  PROVE  LoneInv'
<1>1. pass[w].pc = "appending" /\ pass[w].pc # "idle" /\ UNCHANGED status
  BY DEF Append
<1>2. PICK p : /\ pass' = [pass EXCEPT ![w] = p] /\ p.pc # "appending"
               /\ p.todo \subseteq pass[w].todo
  BY PassFields DEF Append
<1>3. \A v \in Workers : pass'[v] = p
  BY <1>2, LonePass DEF LoneInv, DispatchInv, Typed
<1>4. Terminal' \subseteq Terminal \cup {pass[w].held.line}
  BY DEF Append, Terminal
<1>5. TodoIsOpen'
  BY <1>1, <1>2, <1>3, <1>4 DEF LoneInv, TodoIsOpen
<1>6. AckIsLast'
  BY <1>1, NotYetAcked DEF AckIsLast
<1>7. DispatchInv'
  BY AppendInv DEF LoneInv
<1>8. QED
  BY <1>5, <1>6, <1>7 DEF LoneInv

LEMMA EndLone ==
  ASSUME LoneWorker, LoneInv, NEW w \in Workers, Report(w) \/ Crash(w)
  PROVE  LoneInv'
<1>1. pass' = [pass EXCEPT ![w] = Idle] /\ UNCHANGED inbox
  BY DEF Report, Crash
<1>2. \A v \in Workers : pass'[v] = Idle
  BY <1>1, LonePass DEF LoneInv, DispatchInv, Typed
<1>3. TodoIsOpen'
  BY <1>2, PassFields DEF TodoIsOpen
<1>4. AckIsLast'
  <2> SUFFICES ASSUME status' = "BROKER_ACK" PROVE Rejected' = {}
    BY <1>2 DEF AckIsLast
  <2>1. Rejected' = Rejected
    BY <1>1 DEF Rejected
  <2>2. CASE status = "BROKER_ACK"
    BY <2>1, <2>2 DEF LoneInv, AckIsLast
  <2>3. CASE status # "BROKER_ACK"
    BY <2>1, <2>3 DEF Report, Crash, Delivery
  <2>4. QED
    BY <2>2, <2>3
<1>5. DispatchInv'
  BY EndInv DEF LoneInv
<1>6. QED
  BY <1>3, <1>4, <1>5 DEF LoneInv

LEMMA StutterLone == LoneInv /\ UNCHANGED vars => LoneInv'
  BY StutterInv
  DEF LoneInv, TodoIsOpen, AckIsLast, Terminal, Rejected, vars

LEMMA NextLone == LoneWorker /\ LoneInv /\ [Next]_vars => LoneInv'
  BY StartLone, SubmitLone, AppendLone, EndLone, StutterLone
  DEF Next, Progress

(* One process, any crashes and resends: an acknowledged entry has every   *)
(* line accepted and on file, and no line of it was ever refused           *)
(* (_delivery_for, resend).                                                *)
THEOREM AckSafety ==
  ASSUME LoneWorker PROVE Spec => []AckIsBacked
<1>1. LoneInv => AckIsBacked
  BY DEF LoneInv, DispatchInv, AckedIsAccepted, AckOnFile, AckIsLast, AckIsBacked
<1>2. Init => LoneInv
  BY InitLone
<1>3. LoneInv /\ [Next]_vars => LoneInv'
  BY NextLone
<1>4. QED
  BY <1>1, <1>2, <1>3, PTL DEF Spec

(* One process never submits a line again once its receipt is durable,     *)
(* whatever was lost or refused in between (resend).                       *)
THEOREM ReceiptEndsTheLine ==
  ASSUME LoneWorker PROVE Spec => TerminalNeverResent
<1>1. LoneInv => \A w \in Workers, l \in Lines :
                    Submitted(w, l) => l \notin Terminal
  BY DEF LoneInv, TodoIsOpen, Submitted, Sends
<1>2. Init => LoneInv
  BY InitLone
<1>3. LoneInv /\ [Next]_vars => LoneInv'
  BY NextLone
<1>4. QED
  BY <1>1, <1>2, <1>3, PTL DEF Spec, TerminalNeverResent

=============================================================================
